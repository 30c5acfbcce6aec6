----------------------- MODULE BloomReplicationProofs -----------------------
(***************************************************************************)
(* Proofs about BloomReplication: a replica goes through the states of its *)
(* primary, whatever the two configurations, the random draws and the      *)
(* order in which either node writes, takes its stream, synchronises and   *)
(* defragments.                                                            *)
(*                                                                         *)
(* The inductive invariant is that the stream leads from what the replica  *)
(* holds, through the states recorded with each command, to what the       *)
(* primary holds: each command takes EVERY node that holds the state       *)
(* before it to the state after it (Leads, of BloomTransferProofs).        *)
(***************************************************************************)
EXTENDS BloomReplication, BloomTransferProofs

\* What the proofs ask of the two configurations: a replica whose limit is not
\* lower, and that scales by default if clients may ask how far an object that
\* they give no expansion would scale.
LimitNotLower == PrimaryConfig.limit <= ReplicaConfig.limit

ScalingAgreed ==
  \A c \in Commands :
    c.scaleTo # Unset => Given(c.expansion, ReplicaConfig.expansion) # 0

\* The stream s takes every node that holds what `from' says, through the states
\* recorded with its commands, to where `to' says.
Reached(from, s, i) == IF i = 0 THEN from ELSE s[i].after

LeadsThrough(from, s, to) ==
  /\ \A i \in 1..Len(s) :
       Leads(s[i].cmd, Reached(from, s, i - 1), Reached(from, s, i), ReplicaConfig)
  /\ Reached(from, s, Len(s)) = to

RInv ==
  /\ primary \in Node
  /\ replica \in Node
  /\ \E S : stream \in Seq(S)
  /\ LeadsThrough(LogicalKeys(replica), stream, LogicalKeys(primary))

(****************************** commands ***********************************)

LEMMA KeysAreLogical ==
  \A n : LogicalKeys(n) = LogicalOf(n.keys)
BY DEF LogicalKeys, LogicalOf

LEMMA DrawsAreSeeds ==
  RandomSeeds = Draws
BY DEF RandomSeeds, Draws

LEMMA Configured ==
  /\ PrimaryConfig \in Config /\ ReplicaConfig \in Config
  /\ \A c \in Commands :
       /\ c \in CommandType /\ c.key \in Key /\ c.items \in Seq(Item)
       /\ c.name \in {"BF.ADD", "BF.MADD", "BF.RESERVE", "BF.INSERT"}
       /\ c.name = "BF.ADD" => Len(c.items) = 1
<1>1. \A c \in CommandType :
        /\ c.key \in Key /\ c.items \in Seq(Item)
        /\ c.name \in {"BF.ADD", "BF.MADD", "BF.RESERVE", "BF.INSERT"}
  BY DEF CommandType
<1>. QED BY <1>1, ReplicationAssumption

\* A reservation leaves the value or creates an object.
LEMMA ReserveTyped ==
  ASSUME NEW c, NEW v \in Value, NEW cfg, NEW m \in Counters, NEW obey, NEW rnd,
         Properties(c, cfg, rnd) \in PropertyType
  PROVE  LET out == BloomFilterReserve(c, v, cfg, m, obey, rnd)
         IN  out.val \in Value /\ out.metrics \in Counters
<1> DEFINE p == Properties(c, cfg, rnd)
           out == BloomFilterReserve(c, v, cfg, m, obey, rnd)
           o == NewReserved(p)
           e == CreateError(p, ~ obey, cfg.limit)
<1>1. CASE v = Foreign \/ IsObject(v) \/ e # Ok
  <2>1. \E err : out = Rejected(v, m, err)
    BY <1>1 DEF BloomFilterReserve
  <2>. QED BY <2>1 DEF Rejected, Outcome
<1>2. CASE v # Foreign /\ ~ IsObject(v) /\ e = Ok
  <2>1. out.val = o /\ out.metrics = NewReservedMetrics(m, o)
    BY <1>2 DEF BloomFilterReserve, Outcome
  <2>. HIDE DEF out
  <2>2. o \in Value /\ NewReservedMetrics(m, o) \in Counters
    BY NewReservedPreserves, ValueFields
  <2>. HIDE DEF o
  <2>. QED BY <2>1, <2>2 DEF out
<1>. QED BY <1>1, <1>2

\* What a handler answered is a value, which is the old one unless a command is
\* propagated; that command leads every node the way this one went.
Propagates(keys, k, out) ==
  /\ out.val \in Value /\ out.metrics \in Counters
  /\ ~ (out.repl # <<>>) => out.val = keys[k]
  /\ out.repl # <<>> =>
       /\ Single(out.repl)
       /\ Logical(out.val) # Logical(keys[k])
       /\ Leads(out.repl[1], LogicalOf(keys), LogicalOf([keys EXCEPT ![k] = out.val]),
                ReplicaConfig)

LEMMA ClientPropagates ==
  ASSUME LimitNotLower, ScalingAgreed, primary \in Node, ErrorsAreNotPropagated,
         NEW c \in Commands, NEW rnd \in RandomSeeds
  PROVE  Propagates(primary.keys, c.key, ClientOutcome(c, rnd))
<1> DEFINE keys == primary.keys
           m == primary.metrics
           v == keys[c.key]
           out == ClientOutcome(c, rnd)
           cfg == PrimaryConfig
           no == FALSE
<1>1. /\ keys \in [Key -> Value] /\ m \in Counters /\ v \in Value
      /\ c \in CommandType /\ c.key \in Key /\ c.items \in Seq(Item)
      /\ c.name \in {"BF.ADD", "BF.MADD", "BF.RESERVE", "BF.INSERT"}
      /\ c.name = "BF.ADD" => Len(c.items) = 1
      /\ cfg \in Config /\ cfg.limit \in Int /\ rnd \in Draws /\ no \in BOOLEAN
  BY Configured, DrawsAreSeeds, NodeFields DEF Config
<1>2. Properties(c, cfg, rnd) \in PropertyType
  BY <1>1, PropertiesTyped DEF Draws
<1>3. /\ v \in Object \union {Absent, Foreign}
      /\ IsObject(v) => WellFormed(v)
  BY <1>1 DEF Value
<1>4. out.repl # <<>> => out.reply.err = Ok
  BY DEF ErrorsAreNotPropagated
<1>5. /\ ReplicaConfig.limit \in Nat /\ cfg.limit \in Nat /\ cfg.limit <= ReplicaConfig.limit
      /\ c.scaleTo # Unset
           => (IF c.expansion = Unset THEN ReplicaConfig.expansion ELSE c.expansion) # 0
  BY Configured DEF LimitNotLower, ScalingAgreed, Given, Config
<1> DEFINE ok(o) == Sound(c, v, o) /\ Announced(v, o)
<1>6. ASSUME NEW o, Sound(c, v, o) PROVE o.val \in Value /\ o.metrics \in Counters
  BY <1>6 DEF Sound, Value
<1>7. CASE c.name = "BF.INSERT"
  <2>1. out = BloomFilterInsert(c, v, cfg, m, no, rnd)
    BY <1>7 DEF ClientOutcome
  <2>. HIDE DEF keys, m, v, out, cfg, no
  <2>2. Sound(c, v, out)
    BY <1>1, <1>2, <1>3, <2>1, InsertIsSound
  <2>3. Announced(v, out)
    BY <1>1, <1>2, <1>3, <2>1, InsertAccounts DEF Kept
  <2>4. out.repl # <<>> /\ out.reply.err = Ok =>
          /\ Single(out.repl)
          /\ Logical(out.val) # Logical(keys[c.key])
          /\ Leads(out.repl[1], LogicalOf(keys),
                   LogicalOf([keys EXCEPT ![c.key] = out.val]), ReplicaConfig)
    <3> DEFINE b == BloomFilterInsert(c, keys[c.key], cfg, m, no, rnd)
    <3>1. b.repl # <<>> /\ b.reply.err = Ok =>
            /\ Single(b.repl)
            /\ Logical(b.val) # Logical(keys[c.key])
            /\ Leads(b.repl[1], LogicalOf(keys),
                     LogicalOf([keys EXCEPT ![c.key] = b.val]), ReplicaConfig)
      BY <1>1, <1>5, <1>7, InsertLeads
    <3>2. out = b
      BY <2>1 DEF v
    <3>. HIDE DEF b
    <3>. QED BY <3>1, <3>2
  <2>. QED BY <1>4, <1>6, <2>2, <2>3, <2>4 DEF Propagates, Announced, keys, out, v
<1>8. CASE c.name = "BF.RESERVE"
  <2>1. out = BloomFilterReserve(c, v, cfg, m, no, rnd)
    BY <1>8 DEF ClientOutcome
  <2>. HIDE DEF keys, m, v, out, cfg, no
  <2>2. out.val \in Value /\ out.metrics \in Counters
    BY <1>1, <1>2, <2>1, ReserveTyped
  <2>3. Announced(v, out)
    BY <1>1, <1>2, <1>3, <2>1, ReserveAccounts DEF Kept
  <2>4. out.repl # <<>> =>
          /\ Single(out.repl)
          /\ Logical(out.val) # Logical(keys[c.key])
          /\ Leads(out.repl[1], LogicalOf(keys),
                   LogicalOf([keys EXCEPT ![c.key] = out.val]), ReplicaConfig)
    <3> DEFINE b == BloomFilterReserve(c, keys[c.key], cfg, m, no, rnd)
    <3>1. b.repl # <<>> =>
            /\ Single(b.repl)
            /\ Logical(b.val) # Logical(keys[c.key])
            /\ Leads(b.repl[1], LogicalOf(keys),
                     LogicalOf([keys EXCEPT ![c.key] = b.val]), ReplicaConfig)
      BY <1>1, <1>5, ReserveLeads
    <3>2. out = b
      BY <2>1 DEF v
    <3>. HIDE DEF b
    <3>. QED BY <3>1, <3>2
  <2>. QED BY <2>2, <2>3, <2>4 DEF Propagates, Announced, keys, out, v
<1>9. CASE c.name \in {"BF.ADD", "BF.MADD"}
  <2>1. out = BloomFilterAddValue(c, v, cfg, m, no, rnd)
    BY <1>9 DEF ClientOutcome
  <2>. HIDE DEF keys, m, v, out, cfg, no
  <2>2. Sound(c, v, out)
    BY <1>1, <1>2, <1>3, <1>9, <2>1, AddValueIsSound
  <2>3. Announced(v, out)
    BY <1>1, <1>2, <1>3, <1>9, <2>1, AddValueAccounts DEF Kept
  <2>4. out.repl # <<>> /\ out.reply.err = Ok =>
          /\ Single(out.repl)
          /\ Logical(out.val) # Logical(keys[c.key])
          /\ Leads(out.repl[1], LogicalOf(keys),
                   LogicalOf([keys EXCEPT ![c.key] = out.val]), ReplicaConfig)
    <3> DEFINE b == BloomFilterAddValue(c, keys[c.key], cfg, m, no, rnd)
    <3>1. b.repl # <<>> /\ b.reply.err = Ok =>
            /\ Single(b.repl)
            /\ Logical(b.val) # Logical(keys[c.key])
            /\ Leads(b.repl[1], LogicalOf(keys),
                     LogicalOf([keys EXCEPT ![c.key] = b.val]), ReplicaConfig)
      BY <1>1, <1>5, <1>9, AddValueLeads
    <3>2. out = b
      BY <2>1 DEF v
    <3>. HIDE DEF b
    <3>. QED BY <3>1, <3>2
  <2>. QED BY <1>4, <1>6, <2>2, <2>3, <2>4 DEF Propagates, Announced, keys, out, v
<1>. QED BY <1>1, <1>7, <1>8, <1>9

(****************************** the stream *********************************)

\* The states recorded in a stream.
States(s) == [i \in DOMAIN s |-> s[i].after]

LEMMA StreamGrows ==
  ASSUME NEW S, NEW s \in Seq(S), NEW x
  PROVE  /\ \E Q : Append(s, x) \in Seq(Q)
         /\ Len(s) \in Nat /\ Len(Append(s, x)) = Len(s) + 1
         /\ Append(s, x)[Len(s) + 1] = x
         /\ \A i \in 1..Len(s) : Append(s, x)[i] = s[i]
         /\ States(Append(s, x)) = Append(States(s), x.after)
<1>1. s \in Seq(S \union {x}) /\ x \in S \union {x} /\ Len(s) \in Nat /\ DOMAIN s = 1..Len(s)
  OBVIOUS
<1>2. /\ Append(s, x) \in Seq(S \union {x}) /\ Len(Append(s, x)) = Len(s) + 1
      /\ Append(s, x)[Len(s) + 1] = x
      /\ \A i \in 1..Len(s) : Append(s, x)[i] = s[i]
  BY <1>1
<1> DEFINE n == Len(s)
           T == {s[i].after : i \in 1..n} \union {x.after}
           p == States(s)
           q == States(Append(s, x))
<1>3. p \in Seq(T) /\ Len(p) = n /\ \A i \in 1..n : p[i] = s[i].after
  <2>1. p = [i \in 1..n |-> s[i].after]
    BY <1>1 DEF States
  <2>2. p \in [1..n -> T]
    BY <2>1
  <2>3. p \in Seq(T) /\ Len(p) = n
    BY <1>1, <2>1, <2>2
  <2>. QED BY <2>1, <2>3
<1>4. Append(p, x.after) \in Seq(T) /\ Len(Append(p, x.after)) = n + 1
      /\ Append(p, x.after)[n + 1] = x.after
      /\ \A i \in 1..n : Append(p, x.after)[i] = p[i]
  <2>. HIDE DEF p
  <2>. QED BY <1>3
<1>5. q = [i \in 1..(n + 1) |-> Append(s, x)[i].after]
  BY <1>1, <1>2 DEF States
<1>6. Append(p, x.after) = [i \in 1..(n + 1) |-> Append(p, x.after)[i]]
  <2>. HIDE DEF p, T
  <2>. QED BY <1>1, <1>4
<1>7. \A i \in 1..(n + 1) : Append(p, x.after)[i] = Append(s, x)[i].after
  <2>1. \A i \in 1..(n + 1) : i \in 1..n \/ i = n + 1
    BY <1>1
  <2>. HIDE DEF p, n
  <2>. QED BY <1>2, <1>3, <1>4, <2>1 DEF n
<1>8. q = Append(p, x.after)
  <2>. HIDE DEF p, q, n
  <2>. QED BY <1>5, <1>6, <1>7
<1>. QED BY <1>1, <1>2, <1>8

LEMMA StreamShrinks ==
  ASSUME NEW S, NEW s \in Seq(S), s # <<>>
  PROVE  /\ Tail(s) \in Seq(S) /\ Head(s) = s[1]
         /\ Len(s) \in Nat \ {0} /\ Len(Tail(s)) = Len(s) - 1
         /\ \A i \in 1..Len(Tail(s)) : Tail(s)[i] = s[i + 1]
         /\ States(s) # <<>> /\ Head(States(s)) = s[1].after
         /\ States(Tail(s)) = Tail(States(s))
<1>1. /\ Tail(s) \in Seq(S) /\ Head(s) = s[1]
      /\ Len(s) \in Nat \ {0} /\ Len(Tail(s)) = Len(s) - 1
      /\ \A i \in 1..Len(Tail(s)) : Tail(s)[i] = s[i + 1]
      /\ DOMAIN s = 1..Len(s) /\ DOMAIN Tail(s) = 1..(Len(s) - 1)
  OBVIOUS
<1> DEFINE n == Len(s)
           T == {s[i].after : i \in 1..n}
           p == States(s)
           q == States(Tail(s))
<1>2. p \in Seq(T) /\ Len(p) = n /\ \A i \in 1..n : p[i] = s[i].after
  <2>1. p = [i \in 1..n |-> s[i].after]
    BY <1>1 DEF States
  <2>2. p \in [1..n -> T]
    BY <2>1
  <2>3. p \in Seq(T) /\ Len(p) = n
    BY <1>1, <2>1, <2>2
  <2>. QED BY <2>1, <2>3
<1>3. /\ p # <<>> /\ Head(p) = p[1] /\ Tail(p) = [i \in 1..(n - 1) |-> p[i + 1]]
      /\ 1 \in 1..n
  <2>. HIDE DEF p, T
  <2>1. p # <<>> /\ Head(p) = p[1] /\ 1 \in 1..n
    BY <1>1, <1>2
  <2>2. Tail(p) \in Seq(T) /\ Len(Tail(p)) = n - 1 /\ \A i \in 1..(n - 1) : Tail(p)[i] = p[i + 1]
    BY <1>1, <1>2, <2>1
  <2> DEFINE t == Tail(p)
  <2>3. t \in Seq(T) /\ Len(t) = n - 1 /\ n - 1 \in Nat
    BY <1>1, <2>2
  <2>. HIDE DEF t
  <2>4. t = [i \in 1..(n - 1) |-> t[i]]
    BY <2>3
  <2>5. [i \in 1..(n - 1) |-> t[i]] = [i \in 1..(n - 1) |-> p[i + 1]]
    <3>1. \A i \in 1..(n - 1) : t[i] = p[i + 1]
      BY <2>2 DEF t
    <3>. HIDE DEF n
    <3>. QED BY <3>1
  <2>. QED BY <2>1, <2>4, <2>5 DEF t
<1>4. q = [i \in 1..(n - 1) |-> Tail(s)[i].after]
  BY <1>1 DEF States
<1>5. \A i \in 1..(n - 1) : Tail(s)[i].after = p[i + 1]
  <2>1. \A i \in 1..(n - 1) : i + 1 \in 1..n
    BY <1>1
  <2>. HIDE DEF p
  <2>. QED BY <1>1, <1>2, <2>1
<1>6. q = Tail(p)
  <2>. HIDE DEF p, q, n
  <2>. QED BY <1>3, <1>4, <1>5
<1>. QED BY <1>1, <1>2, <1>3, <1>6

\* No states are recorded in an empty stream.
LEMMA NothingStreamed ==
  States(<<>>) = <<>> /\ \A S : <<>> \in Seq(S) /\ Len(<<>>) = 0
BY DEF States

\* A command that leads on from the end of a stream prolongs it.
LEMMA OneMoreCommand ==
  ASSUME NEW S, NEW s \in Seq(S), NEW from, NEW to, LeadsThrough(from, s, to),
         NEW x, Leads(x.cmd, to, x.after, ReplicaConfig)
  PROVE  LeadsThrough(from, Append(s, x), x.after)
<1> DEFINE t == Append(s, x)
           n == Len(s)
<1>1. /\ n \in Nat /\ Len(t) = n + 1 /\ t[n + 1] = x
      /\ \A i \in 1..n : t[i] = s[i]
  BY StreamGrows
<1>. HIDE DEF t, n
<1>2. \A i \in 0..n : Reached(from, t, i) = Reached(from, s, i)
  <2>1. \A i \in 0..n : i = 0 \/ i \in 1..n
    BY <1>1
  <2>. QED BY <1>1, <2>1 DEF Reached
<1>3. Reached(from, t, n) = to /\ Reached(from, t, n + 1) = x.after
  <2>1. n \in 0..n /\ n + 1 # 0
    BY <1>1
  <2>. QED BY <1>1, <1>2, <2>1 DEF LeadsThrough, Reached, n
<1>4. ASSUME NEW i \in 1..Len(t)
      PROVE  Leads(t[i].cmd, Reached(from, t, i - 1), Reached(from, t, i), ReplicaConfig)
  <2>1. CASE i = n + 1
    <3>1. i - 1 = n
      BY <1>1, <2>1
    <3>. QED BY <1>1, <1>3, <2>1, <3>1
  <2>2. CASE i # n + 1
    <3>1. i \in 1..n /\ i - 1 \in 0..n /\ i \in 0..n
      BY <1>1, <2>2
    <3>2. Leads(s[i].cmd, Reached(from, s, i - 1), Reached(from, s, i), ReplicaConfig)
      BY <3>1 DEF LeadsThrough, n
    <3>. QED BY <1>1, <1>2, <3>1, <3>2
  <2>. QED BY <2>1, <2>2
<1>. QED BY <1>1, <1>3, <1>4 DEF LeadsThrough, t

\* Without its first command a stream leads on from where that command leads.
LEMMA OneCommandLess ==
  ASSUME NEW S, NEW s \in Seq(S), s # <<>>, NEW from, NEW to, LeadsThrough(from, s, to)
  PROVE  /\ Leads(s[1].cmd, from, s[1].after, ReplicaConfig)
         /\ LeadsThrough(s[1].after, Tail(s), to)
<1> DEFINE t == Tail(s)
           n == Len(s)
<1>1. /\ n \in Nat \ {0} /\ Len(t) = n - 1 /\ \A i \in 1..(n - 1) : t[i] = s[i + 1]
  BY StreamShrinks
<1>2. \A i \in 1..n : Leads(s[i].cmd, Reached(from, s, i - 1), Reached(from, s, i), ReplicaConfig)
  BY DEF LeadsThrough
<1>. HIDE DEF t, n
<1>3. Reached(from, s, 0) = from /\ Reached(from, s, 1) = s[1].after /\ 1 \in 1..n /\ 1 - 1 = 0
  BY <1>1 DEF Reached
<1>4. Leads(s[1].cmd, from, s[1].after, ReplicaConfig)
  <2>1. Leads(s[1].cmd, Reached(from, s, 1 - 1), Reached(from, s, 1), ReplicaConfig)
    BY <1>2, <1>3
  <2>. QED BY <1>3, <2>1
<1>5. ASSUME NEW i \in 0..(n - 1)
      PROVE  Reached(s[1].after, t, i) = Reached(from, s, i + 1)
  <2>1. CASE i = 0
    BY <1>3, <2>1 DEF Reached
  <2>2. CASE i # 0
    <3>1. i \in 1..(n - 1) /\ i + 1 # 0
      BY <1>1, <2>2
    <3>. QED BY <1>1, <2>2, <3>1 DEF Reached
  <2>. QED BY <2>1, <2>2
<1>6. ASSUME NEW i \in 1..(n - 1)
      PROVE  Leads(t[i].cmd, Reached(s[1].after, t, i - 1), Reached(s[1].after, t, i), ReplicaConfig)
  <2>1. i \in 0..(n - 1) /\ i - 1 \in 0..(n - 1) /\ (i - 1) + 1 = i /\ i + 1 \in 1..n /\ (i + 1) - 1 = i
    BY <1>1
  <2>2. Reached(s[1].after, t, i) = Reached(from, s, i + 1)
    BY <1>5, <2>1
  <2>3. Reached(s[1].after, t, i - 1) = Reached(from, s, i)
    BY <1>5, <2>1
  <2>4. Leads(s[i + 1].cmd, Reached(from, s, i), Reached(from, s, i + 1), ReplicaConfig)
    <3>1. Leads(s[i + 1].cmd, Reached(from, s, (i + 1) - 1), Reached(from, s, i + 1), ReplicaConfig)
      BY <1>2, <2>1
    <3>. QED BY <2>1, <3>1
  <2>5. t[i] = s[i + 1]
    BY <1>1
  <2>. QED BY <2>2, <2>3, <2>4, <2>5
<1>7. Reached(s[1].after, t, Len(t)) = to
  <2>1. n - 1 \in 0..(n - 1) /\ (n - 1) + 1 = n
    BY <1>1
  <2>2. Reached(s[1].after, t, n - 1) = Reached(from, s, n)
    BY <1>5, <2>1
  <2>3. Reached(from, s, n) = to
    BY DEF LeadsThrough, n
  <2>. QED BY <1>1, <2>2, <2>3
<1>. QED BY <1>1, <1>4, <1>6, <1>7 DEF LeadsThrough, t

\* An empty stream leads nowhere.
LEMMA NothingLeads ==
  \A from : LeadsThrough(from, <<>>, from)
BY DEF LeadsThrough, Reached

(******************************* steps *************************************)

\* A step of the primary is a change of one key, recorded in the stream, or none.
LEMMA PrimaryStep ==
  ASSUME RInv, NEW k \in Key, NEW out, Propagates(primary.keys, k, out), Primary(k, out)
  PROVE  RInv' /\ [Lag!Next]_Lag!vars
<1> DEFINE keys == primary.keys
           w == [keys EXCEPT ![k] = out.val]
           new == [cmd |-> out.repl[1], after |-> LogicalOf(w)]
<1>1. PICK S : stream \in Seq(S)
  BY DEF RInv
<1>2. /\ keys \in [Key -> Value] /\ out.val \in Value /\ out.metrics \in Counters
      /\ w \in [Key -> Value] /\ w[k] = out.val /\ primary.err = Ok
      /\ primary = [keys |-> keys, metrics |-> primary.metrics, err |-> Ok]
  BY NodeFields DEF RInv, Propagates
<1>3. /\ primary' = [keys |-> w, metrics |-> out.metrics, err |-> Ok]
      /\ replica' = replica
  <2>1. primary' = [primary EXCEPT !.keys[k] = out.val, !.metrics = out.metrics]
    BY DEF Primary
  <2>. QED BY <1>2, <2>1 DEF Primary
<1>4. /\ primary' \in Node /\ LogicalKeys(primary') = LogicalOf(w)
      /\ LogicalKeys(primary) = LogicalOf(keys) /\ LogicalKeys(replica') = LogicalKeys(replica)
  <2>. HIDE DEF w
  <2>. QED BY <1>2, <1>3, KeysAreLogical DEF Node
<1>5. stream' = stream \o [i \in DOMAIN out.repl |->
                             [cmd |-> out.repl[i], after |-> LogicalOf(w)]]
  BY <1>4 DEF Primary
<1>6. CASE ~ (out.repl # <<>>)
  <2>1. w = keys
    BY <1>2, <1>6 DEF Propagates
  <2>2. stream' = stream
    <3>1. [i \in DOMAIN out.repl |-> [cmd |-> out.repl[i], after |-> LogicalOf(w)]] = <<>>
      BY <1>6
    <3>2. stream' = stream \o <<>>
      BY <1>5, <3>1
    <3>. HIDE DEF w
    <3>. QED BY <1>1, <3>2
  <2>3. LogicalKeys(primary') = LogicalKeys(primary)
    BY <1>4, <2>1
  <2>4. RInv'
    BY <1>1, <1>3, <1>4, <2>2, <2>3 DEF RInv
  <2>. QED BY <1>4, <2>2, <2>3, <2>4 DEF Lag!vars
<1>7. CASE out.repl # <<>>
  <2>1. /\ Single(out.repl) /\ Logical(out.val) # Logical(keys[k])
        /\ Leads(out.repl[1], LogicalOf(keys), LogicalOf(w), ReplicaConfig)
    BY <1>7 DEF Propagates
  <2>2. stream' = Append(stream, new)
    <3> DEFINE x == out.repl[1]
    <3>1. out.repl = <<x>>
      BY <2>1 DEF Single
    <3>. HIDE DEF x, w
    <3>2. [i \in DOMAIN out.repl |-> [cmd |-> out.repl[i], after |-> LogicalOf(w)]]
            = <<[cmd |-> x, after |-> LogicalOf(w)]>>
      BY <3>1
    <3>3. stream' = stream \o <<[cmd |-> x, after |-> LogicalOf(w)]>>
      BY <1>5, <3>2
    <3>4. stream' = Append(stream, [cmd |-> x, after |-> LogicalOf(w)])
      <4> DEFINE e == [cmd |-> x, after |-> LogicalOf(w)]
                 Q == S \union {e}
      <4>1. stream \in Seq(Q) /\ e \in Q
        BY <1>1
      <4>2. stream' = stream \o <<e>>
        BY <3>3
      <4>. HIDE DEF e, Q
      <4>3. stream' = Append(stream, e)
        BY <4>1, <4>2
      <4>. QED BY <4>3 DEF e
    <3>. QED BY <3>4 DEF x
  <2>3. new.cmd = out.repl[1] /\ new.after = LogicalOf(w)
    OBVIOUS
  <2>. HIDE DEF new
  <2>4. /\ \E Q : stream' \in Seq(Q)
        /\ States(stream') = Append(States(stream), LogicalOf(w))
    <3>1. /\ \E Q : Append(stream, new) \in Seq(Q)
          /\ States(Append(stream, new)) = Append(States(stream), new.after)
      BY <1>1, StreamGrows
    <3>. QED BY <2>2, <2>3, <3>1
  <2>5. LeadsThrough(LogicalKeys(replica), stream', LogicalOf(w))
    <3>1. LeadsThrough(LogicalKeys(replica), stream, LogicalOf(keys))
      BY <1>4 DEF RInv
    <3>2. Leads(new.cmd, LogicalOf(keys), new.after, ReplicaConfig)
      BY <2>1, <2>3
    <3>. QED BY <1>1, <2>2, <2>3, <3>1, <3>2, OneMoreCommand
  <2>6. RInv'
    <3>1. replica' \in Node
      BY <1>3 DEF RInv
    <3>. QED BY <1>4, <2>4, <2>5, <3>1 DEF RInv
  <2>7. /\ LogicalOf(w) = [LogicalOf(keys) EXCEPT ![k] = LogicalOf(w)[k]]
        /\ LogicalOf(w) # LogicalOf(keys)
    <3>1. /\ LogicalOf(w)[k] = Logical(out.val) /\ LogicalOf(keys)[k] = Logical(keys[k])
          /\ \A j \in Key : j # k => LogicalOf(w)[j] = LogicalOf(keys)[j]
      BY <1>2 DEF LogicalOf
    <3>2. /\ LogicalOf(w) = [j \in Key |-> LogicalOf(w)[j]]
          /\ LogicalOf(keys) = [j \in Key |-> LogicalOf(keys)[j]]
      BY DEF LogicalOf
    <3>. HIDE DEF w, keys
    <3>. QED BY <2>1, <3>1, <3>2
  <2>. HIDE DEF w, keys
  <2>8. Lag!Change(k)
    BY <1>4, <2>4, <2>7 DEF Lag!Change, States
  <2>. QED BY <2>6, <2>8 DEF Lag!Next
<1>. QED BY <1>6, <1>7

\* DEL, expiry and eviction.
LEMMA DeletePropagates ==
  ASSUME RInv, NEW k \in Key, Delete(k)
  PROVE  \E out : Propagates(primary.keys, k, out) /\ Primary(k, out)
<1> DEFINE keys == primary.keys
           v == keys[k]
           gone == Absent
           cmd == DelCommand(k)
           out == Outcome(gone, DropValue(primary.metrics, v), Ok, <<>>, <<cmd>>, {})
<1>1. keys \in [Key -> Value] /\ primary.metrics \in Counters /\ v \in Value
  BY NodeFields DEF RInv
<1>2. Primary(k, out) /\ v # gone
  BY DEF Delete
<1>3. out.val = gone /\ out.metrics = DropValue(primary.metrics, v) /\ out.repl = <<cmd>>
  BY DEF Outcome
<1>. HIDE DEF out
<1>4. DropValue(primary.metrics, v) \in Counters /\ gone \in Value
  BY <1>1, DropTracks, ValueFields
<1>5. Leads(cmd, LogicalOf(keys), LogicalOf([keys EXCEPT ![k] = gone]), ReplicaConfig)
  <2>1. gone \in {Absent, Foreign} /\ (IF gone = Absent THEN DelCommand(k) ELSE SetCommand(k)) = cmd
    OBVIOUS
  <2>. HIDE DEF gone, keys, cmd
  <2>2. Leads(IF gone = Absent THEN DelCommand(k) ELSE SetCommand(k),
              LogicalOf(keys), LogicalOf([keys EXCEPT ![k] = gone]), ReplicaConfig)
    BY <1>1, <2>1, OverwriteLeads
  <2>. QED BY <2>1, <2>2
<1>6. Logical(gone) # Logical(v)
  <2>1. CASE IsObject(v)
    BY <1>1, <2>1, LogicalApart
  <2>2. CASE ~ IsObject(v)
    <3>1. v = Foreign /\ Logical(v) = v /\ Logical(gone) = Absent
      BY <1>1, <1>2, <2>2, ValueFields DEF Logical
    <3>. QED BY <3>1, ValueAssumption
  <2>. QED BY <2>1, <2>2
<1>. HIDE DEF keys, gone, cmd
<1>7. Single(out.repl) /\ out.repl[1] = cmd /\ out.repl # <<>>
  BY <1>3 DEF Single
<1>8. Propagates(keys, k, out)
  BY <1>3, <1>4, <1>5, <1>6, <1>7 DEF Propagates, v
<1>. QED BY <1>2, <1>8 DEF keys

LEMMA CopyPropagates ==
  ASSUME RInv, NEW src \in Key, NEW dst \in Key, Copy(src, dst)
  PROVE  \E out : Propagates(primary.keys, dst, out) /\ Primary(dst, out)
<1> DEFINE keys == primary.keys
           o == keys[src]
           cmd == CopyCommand(src, dst)
           out == Outcome(o, CopyMetrics(primary.metrics, o), Ok, <<>>, <<cmd>>, {})
<1>1. keys \in [Key -> Value] /\ primary.metrics \in Counters /\ o \in Value
  BY NodeFields DEF RInv
<1>2. /\ Primary(dst, out) /\ IsObject(o) /\ keys[dst] = Absent /\ ~ IsObject(keys[dst])
  BY NothingCounts DEF Copy
<1>3. out.val = o /\ out.metrics = CopyMetrics(primary.metrics, o) /\ out.repl = <<cmd>>
  BY DEF Outcome
<1>. HIDE DEF out
<1>4. out.metrics \in Counters
  <2>1. o \in Object /\ WellFormed(o)
    BY <1>1, <1>2, ValueFields
  <2>. HIDE DEF o
  <2>. QED BY <1>1, <1>3, <2>1, ObjectTracks DEF CopyMetrics
<1>5. Leads(cmd, LogicalOf(keys), LogicalOf([keys EXCEPT ![dst] = o]), ReplicaConfig)
  BY <1>1, <1>2, CopyLeads
<1>6. Logical(o) # Logical(keys[dst])
  BY <1>1, <1>2, LogicalApart
<1>. HIDE DEF keys, cmd, o
<1>7. Single(out.repl) /\ out.repl[1] = cmd /\ out.repl # <<>>
  BY <1>3 DEF Single
<1>8. Propagates(keys, dst, out)
  BY <1>1, <1>3, <1>4, <1>5, <1>6, <1>7 DEF Propagates
<1>. QED BY <1>2, <1>8 DEF keys

\* Defragmentation changes nothing that the digest compares.
LEMMA DefragIsInvisible ==
  ASSUME NEW n \in Node, NEW k \in Key, Slack(n, k)
  PROVE  Defragged(n, k) \in Node /\ LogicalKeys(Defragged(n, k)) = LogicalKeys(n)
<1> DEFINE o == n.keys[k]
           d == [o EXCEPT !.vcap = Len(o.filters)]
           m == Lose(n.metrics, [NoMetrics EXCEPT !.bytes = (o.vcap - Len(o.filters)) * BoxBytes])
           t == Defragged(n, k)
<1>1. /\ n.keys \in [Key -> Value] /\ n.metrics \in Counters /\ n.err = Ok /\ o \in Value
      /\ n = [keys |-> n.keys, metrics |-> n.metrics, err |-> n.err]
  BY NodeFields
<1>2. IsObject(o) /\ o \in Object /\ WellFormed(o)
  BY <1>1, ValueFields DEF Slack
<1>3. d = Decoded(o) /\ d \in Object /\ WellFormed(d)
  BY <1>2, DecodedPreserves DEF Decoded
<1>4. t = [keys |-> [n.keys EXCEPT ![k] = d], metrics |-> m, err |-> Ok]
  <2>1. t = [n EXCEPT !.keys[k].vcap = Len(o.filters),
                      !.metrics = Lose(@, [NoMetrics EXCEPT
                        !.bytes = (o.vcap - Len(o.filters)) * BoxBytes])]
    BY DEF Defragged
  <2> DEFINE x == n.keys
             len == Len(o.filters)
             w == [NoMetrics EXCEPT !.bytes = (o.vcap - len) * BoxBytes]
  <2>2. t = [n EXCEPT !.keys = [x EXCEPT ![k] = [x[k] EXCEPT !.vcap = len]],
                      !.metrics = Lose(n.metrics, w)]
    <3>1. n.keys = x
      OBVIOUS
    <3>. HIDE DEF len, w
    <3>. QED BY <2>1 DEF len, w
  <2>3. d = [x[k] EXCEPT !.vcap = len] /\ m = Lose(n.metrics, w) /\ n.keys = x
    OBVIOUS
  <2>. HIDE DEF d, m, t, x, w, len
  <2>. QED BY <1>1, <2>2, <2>3
<1>5. m \in Counters
  <2> DEFINE w == [NoMetrics EXCEPT !.bytes = (o.vcap - Len(o.filters)) * BoxBytes]
  <2>1. (o.vcap - Len(o.filters)) * BoxBytes \in Int
    <3>1. o.vcap \in Nat /\ Len(o.filters) \in Nat /\ BoxBytes \in Int
      BY <1>2, LastFilter, SizeAssumption DEF Object
    <3>. QED BY <3>1
  <2>2. w \in Weights
    <3>1. NoMetrics \in [Names -> Int]
      BY DEF NoMetrics, Names
    <3>. HIDE DEF o
    <3>. QED BY <2>1, <3>1 DEF Weights
  <2>3. m = Lose(n.metrics, w)
    OBVIOUS
  <2>. HIDE DEF w, m
  <2>. QED BY <1>1, <2>2, <2>3, GainAndLose
<1>6. Logical(d) = Logical(o)
  <2>1. Logical(d) = Decoded(d) /\ Logical(o) = d
    BY <1>2, <1>3, AlikeIsLogical
  <2>2. Alike(d, o)
    <3>1. o = [expansion |-> o.expansion, fp |-> o.fp, tr |-> o.tr,
               seedRandom |-> o.seedRandom, vcap |-> o.vcap, filters |-> o.filters]
      BY <1>2 DEF Object
    <3>. HIDE DEF o
    <3>. QED BY <3>1 DEF Alike
  <2>. HIDE DEF d, o
  <2>. QED BY <1>2, <1>3, <2>2, AlikeIsLogical
<1>. HIDE DEF d, m, t
<1>7. d \in Value
  BY <1>3, ValueFields
<1>8. t.keys = [n.keys EXCEPT ![k] = d] /\ t.keys \in [Key -> Value]
  BY <1>1, <1>4, <1>7
<1>9. t \in Node
  BY <1>4, <1>5, <1>8 DEF Node
<1>10. LogicalOf(t.keys) = LogicalOf(n.keys)
  <2>1. \A j \in Key : Logical(t.keys[j]) = Logical(n.keys[j])
    BY <1>1, <1>6, <1>8
  <2>. HIDE DEF o
  <2>. QED BY <2>1 DEF LogicalOf
<1>. QED BY <1>9, <1>10, KeysAreLogical DEF t

LEMMA DefragStep ==
  ASSUME RInv, NEW k \in Key, DefragPrimary(k) \/ DefragReplica(k)
  PROVE  RInv' /\ [Lag!Next]_Lag!vars
<1>1. primary \in Node /\ replica \in Node
  BY DEF RInv
<1>2. /\ primary' \in Node /\ LogicalKeys(primary') = LogicalKeys(primary)
      /\ replica' \in Node /\ LogicalKeys(replica') = LogicalKeys(replica)
      /\ stream' = stream
  BY <1>1, DefragIsInvisible DEF DefragPrimary, DefragReplica
<1>3. RInv'
  BY <1>2 DEF RInv
<1>. QED BY <1>2, <1>3 DEF Lag!vars

\* Executing the next command takes the replica to the next state.
LEMMA DeliverStep ==
  ASSUME RInv, Deliver
  PROVE  RInv' /\ [Lag!Next]_Lag!vars
<1>1. PICK S : stream \in Seq(S)
  BY DEF RInv
<1>2. PICK rnd \in RandomSeeds : replica' = Obey(replica, Head(stream).cmd, ReplicaConfig, rnd)
  BY DEF Deliver
<1>3. /\ stream # <<>> /\ stream' = Tail(stream) /\ primary' = primary
      /\ rnd \in Draws /\ replica \in Node /\ primary \in Node
      /\ LeadsThrough(LogicalKeys(replica), stream, LogicalKeys(primary))
  BY DrawsAreSeeds DEF Deliver, RInv
<1>4. /\ Leads(stream[1].cmd, LogicalKeys(replica), stream[1].after, ReplicaConfig)
      /\ LeadsThrough(stream[1].after, Tail(stream), LogicalKeys(primary))
  BY <1>1, <1>3, OneCommandLess
<1>5. /\ Tail(stream) \in Seq(S) /\ Head(stream) = stream[1]
      /\ States(stream) # <<>> /\ Head(States(stream)) = stream[1].after
      /\ States(Tail(stream)) = Tail(States(stream))
  BY <1>1, <1>3, StreamShrinks
<1>6. replica' \in Node /\ LogicalKeys(replica') = stream[1].after
  BY <1>2, <1>3, <1>4, <1>5, KeysAreLogical DEF Leads
<1>7. RInv'
  BY <1>3, <1>4, <1>5, <1>6 DEF RInv
<1>8. Lag!CatchUp
  BY <1>3, <1>5, <1>6 DEF Lag!CatchUp, States
<1>. QED BY <1>7, <1>8 DEF Lag!Next

\* A synchronisation takes the replica to where the primary is.
LEMMA FullSyncStep ==
  ASSUME RInv, FullSync
  PROVE  RInv' /\ [Lag!Next]_Lag!vars
<1> DEFINE loaded == LoadSnapshot(Snapshot(primary.keys), ReplicaConfig.limit)
<1>1. /\ loaded.err = Ok /\ replica' = [loaded EXCEPT !.err = replica.err]
      /\ stream' = <<>> /\ primary' = primary
      /\ primary \in Node /\ primary.keys \in [Key -> Value] /\ replica.err = Ok
  BY NodeFields DEF FullSync, RInv
<1>2. loaded \in Node /\ LogicalOf(loaded.keys) = LogicalOf(primary.keys)
  BY <1>1, SnapshotIsCopy
<1>. HIDE DEF loaded
<1>3. replica' = loaded
  <2>1. loaded = [keys |-> loaded.keys, metrics |-> loaded.metrics, err |-> loaded.err]
    BY <1>2, NodeFields
  <2>. QED BY <1>1, <2>1
<1>4. LogicalKeys(replica') = LogicalKeys(primary')
  BY <1>1, <1>2, <1>3, KeysAreLogical
<1>5. LeadsThrough(LogicalKeys(replica'), stream', LogicalKeys(primary')) /\ \E S : stream' \in Seq(S)
  BY <1>1, <1>4, NothingLeads, NothingStreamed
<1>6. RInv'
  BY <1>1, <1>2, <1>3, <1>5 DEF RInv
<1>7. Lag!SkipAhead
  BY <1>1, <1>4, NothingStreamed DEF Lag!SkipAhead, States
<1>. QED BY <1>6, <1>7 DEF Lag!Next

LEMMA RInitially ==
  ASSUME Init
  PROVE  RInv /\ Lag!Init
<1>1. EmptyNode \in Node /\ primary = EmptyNode /\ replica = EmptyNode /\ stream = <<>>
  BY EmptyNodeFields DEF Init, Reading, Node
<1>2. LogicalKeys(EmptyNode) = [k \in Key |-> Absent]
  BY EmptyNodeFields, NothingCounts DEF LogicalKeys, Logical
<1>3. LeadsThrough(LogicalKeys(replica), stream, LogicalKeys(primary)) /\ \E S : stream \in Seq(S)
  BY <1>1, NothingLeads, NothingStreamed
<1>4. RInv
  BY <1>1, <1>3 DEF RInv
<1>. QED BY <1>1, <1>2, <1>4, NothingStreamed DEF Lag!Init, States

\* Every step, as long as no command that fails is propagated.
LEMMA RStep ==
  ASSUME LimitNotLower, ScalingAgreed, RInv, ErrorsAreNotPropagated, [Next]_vars
  PROVE  RInv' /\ [Lag!Next]_Lag!vars
<1>1. CASE UNCHANGED vars
  <2>1. primary' = primary /\ replica' = replica /\ stream' = stream
    BY <1>1 DEF vars
  <2>2. LogicalKeys(primary') = LogicalKeys(primary) /\ LogicalKeys(replica') = LogicalKeys(replica)
    BY <2>1
  <2>3. RInv'
    BY <2>1, <2>2 DEF RInv
  <2>. QED BY <2>1, <2>2, <2>3 DEF Lag!vars
<1>2. ASSUME NEW c \in Commands, Client(c) PROVE RInv' /\ [Lag!Next]_Lag!vars
  <2>1. PICK rnd \in RandomSeeds : Primary(c.key, ClientOutcome(c, rnd))
    BY <1>2 DEF Client
  <2>2. primary \in Node /\ c.key \in Key
    BY Configured DEF RInv
  <2>3. Propagates(primary.keys, c.key, ClientOutcome(c, rnd))
    BY <2>2, ClientPropagates
  <2>. QED BY <2>1, <2>2, <2>3, PrimaryStep
<1>3. ASSUME NEW k \in Key, Delete(k) PROVE RInv' /\ [Lag!Next]_Lag!vars
  BY <1>3, DeletePropagates, PrimaryStep
<1>4. ASSUME NEW src \in Key, NEW dst \in Key, Copy(src, dst)
      PROVE  RInv' /\ [Lag!Next]_Lag!vars
  BY <1>4, CopyPropagates, PrimaryStep
<1>5. ASSUME NEW k \in Key, DefragPrimary(k) \/ DefragReplica(k)
      PROVE  RInv' /\ [Lag!Next]_Lag!vars
  BY <1>5, DefragStep
<1>6. CASE Deliver
  BY <1>6, DeliverStep
<1>7. CASE FullSync
  BY <1>7, FullSyncStep
<1>. QED BY <1>1, <1>2, <1>3, <1>4, <1>5, <1>6, <1>7 DEF Next

(****************************** theorems ***********************************)

\* Replication is deterministic (src/bloom/command_handler.rs:112): a replica goes
\* through the states of its primary, in their order, each change of a key
\* propagating one command; it never stops at a state the primary was not in.
THEOREM ReplicationIsDeterministic ==
  ASSUME LimitNotLower, ScalingAgreed
  PROVE  Spec /\ []ErrorsAreNotPropagated => ReplicaFollowsPrimary
<1>1. Init => RInv /\ Lag!Init
  BY RInitially
<1>2. RInv /\ ErrorsAreNotPropagated /\ [Next]_vars => RInv' /\ [Lag!Next]_Lag!vars
  BY RStep
<1>. QED BY <1>1, <1>2, PTL DEF Spec, ReplicaFollowsPrimary, Lag!Spec

\* No propagated command is answered with an error by a replica, which may be
\* configured to panic on one (src/bloom/command_handler.rs:17).
THEOREM NoReplicaErrors ==
  ASSUME LimitNotLower, ScalingAgreed
  PROVE  Spec /\ []ErrorsAreNotPropagated => []ReplicaNeverErrs
<1>1. Init => RInv
  BY RInitially
<1>2. RInv /\ ErrorsAreNotPropagated /\ [Next]_vars => RInv'
  BY RStep
<1>3. RInv => ReplicaNeverErrs
  BY NodeFields DEF RInv, ReplicaNeverErrs
<1>. QED BY <1>1, <1>2, <1>3, PTL DEF Spec

\* A replica that has executed its whole stream holds what the primary holds.
THEOREM StreamConverges ==
  ASSUME LimitNotLower, ScalingAgreed
  PROVE  Spec /\ []ErrorsAreNotPropagated => []InSync
<1>1. Init => RInv
  BY RInitially
<1>2. RInv /\ ErrorsAreNotPropagated /\ [Next]_vars => RInv'
  BY RStep
<1>3. RInv => InSync
  BY NothingStreamed DEF RInv, InSync, LeadsThrough, Reached
<1>. QED BY <1>1, <1>2, <1>3, PTL DEF Spec

(*************************** commands of one item **************************)

\* Commands of at most one item.
OneItemCommands == \A c \in Commands : Len(c.items) \in {0, 1}

LEMMA OneItemErrors ==
  ASSUME OneItemCommands, primary \in Node
  PROVE  ErrorsAreNotPropagated
<1> DEFINE m == primary.metrics
           no == FALSE
<1>1. SUFFICES ASSUME NEW c \in Commands, NEW rnd \in RandomSeeds
               PROVE  Silent(ClientOutcome(c, rnd))
  BY DEF ErrorsAreNotPropagated, Silent
<1> DEFINE v == primary.keys[c.key]
           out == ClientOutcome(c, rnd)
<1>2. /\ m \in Counters /\ v \in Value /\ (IsObject(v) => v \in Object /\ WellFormed(v))
      /\ c \in CommandType /\ Len(c.items) \in {0, 1}
      /\ c.name \in {"BF.ADD", "BF.MADD", "BF.RESERVE", "BF.INSERT"}
      /\ c.name = "BF.ADD" => Len(c.items) = 1
      /\ PrimaryConfig \in Config /\ rnd \in Seeds \ {FixedSeed} /\ no \in BOOLEAN
  BY Configured, NodeFields, ValueFields DEF OneItemCommands, RandomSeeds
<1>3. out \in {BloomFilterInsert(c, v, PrimaryConfig, m, no, rnd),
               BloomFilterReserve(c, v, PrimaryConfig, m, no, rnd)}
      \/ /\ c.name \in {"BF.ADD", "BF.MADD"}
         /\ out = BloomFilterAddValue(c, v, PrimaryConfig, m, no, rnd)
  BY <1>2 DEF ClientOutcome
<1>. HIDE DEF v, m, no, out
<1>4. Silent(out)
  BY <1>2, <1>3, OneItemOutcomes
<1>. QED BY <1>4 DEF out

\* What is replicated succeeded (src/bloom/command_handler.rs:109), when clients
\* send one item at a time: then nothing is left to assume of the commands.
THEOREM OneItemCommandsSucceed ==
  ASSUME LimitNotLower, ScalingAgreed, OneItemCommands
  PROVE  Spec => []ErrorsAreNotPropagated
<1>1. Init => RInv
  BY RInitially
<1>2. RInv => ErrorsAreNotPropagated
  BY OneItemErrors DEF RInv
<1>3. RInv /\ [Next]_vars => RInv'
  BY <1>2, RStep
<1>. QED BY <1>1, <1>2, <1>3, PTL DEF Spec

=============================================================================
