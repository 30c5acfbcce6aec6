---------------------------- MODULE BloomRequests ----------------------------
(***************************************************************************)
(* What src/bloom/command_handler.rs does with the arguments of a request: *)
(* the parsers in front of the write handlers of BloomCommands, the vector *)
(* of arguments that a creation is propagated as, and the read handlers.   *)
(* A vector is what follows the command's name, the key first.             *)
(*                                                                         *)
(* An argument is a Token.  It is read as whatever the parser expects at   *)
(* its place: the functions below say what each token is as a word, as a   *)
(* rate, as an integer and as a seed; as an item it is what it is.         *)
(***************************************************************************)
EXTENDS BloomCommands

CONSTANTS
  Token,          \* the byte strings that clients use
  AsWord,         \* the token in upper case
  AsRate,         \* its exponent e for the rate 2^-e, Outside of (0,1), or Malformed
  AsInteger,      \* an integer, or Malformed
  AsSeed,         \* 32 bytes, or Malformed
  Outside, Malformed,
  ExpansionMax,   \* BLOOM_EXPANSION_MAX
  Configs,        \* the configurations of the nodes that execute a request
  MaxArguments, MaxItems   \* bounds: the arguments of a vector, the items among them

ASSUME TokenAssumption ==
  /\ Key \subseteq Token /\ Token \subseteq Item
  /\ AsWord \in [Token -> STRING]
  /\ AsRate \in [Token -> (Nat \ {0}) \union {Outside, Malformed}]
  /\ AsInteger \in [Token -> Int \union {Malformed}]
  /\ AsSeed \in [Token -> Seeds \union {Malformed}]
  /\ {Outside, Malformed} \intersect (Int \union Seeds) = {}
  /\ {ExpansionMax, MaxArguments, MaxItems} \subseteq Nat
  /\ Configs \subseteq Config

Parsed(c) == [err |-> Ok, cmd |-> c]
Refused(err) == [err |-> err, cmd |-> Unset]

(************************** one argument's value ***************************)

RateError(t, range, bad) ==
  CASE AsRate[t] = Malformed -> bad [] AsRate[t] = Outside -> range [] OTHER -> Ok

\* Variant of CapacityError that lets 0 through.
CapacityErrorZero(t) ==
  IF AsInteger[t] # Malformed /\ AsInteger[t] \in 0..CapacityMax THEN Ok ELSE "BadCapacity"

CapacityError(t) ==
  CASE AsInteger[t] = Malformed         -> "BadCapacity"
    [] AsInteger[t] = 0                 -> "CapacityLargerThan0"
    [] AsInteger[t] \in 1..CapacityMax  -> Ok
    [] OTHER                            -> "BadCapacity"

ExpansionError(t) ==
  IF AsInteger[t] # Malformed /\ AsInteger[t] \in 1..ExpansionMax THEN Ok ELSE "BadExpansion"

(********************** BF.ADD, BF.MADD and BF.RESERVE *********************)

ParseAdd(name, args) ==
  IF (name = "BF.ADD" /\ Len(args) # 2) \/ Len(args) < 2 THEN Refused("WrongArity")
  ELSE Parsed(Command(name, args[1], SubSeq(args, 2, Len(args))))

\* The fourth argument and the fifth, when there are any.
ReserveExpansion(args) ==
  CASE Len(args) = 3 -> [err |-> Ok, expansion |-> Unset]
    [] Len(args) = 4 /\ AsWord[args[4]] = "NONSCALING" -> [err |-> Ok, expansion |-> 0]
    [] Len(args) = 5 /\ AsWord[args[4]] = "EXPANSION" ->
         [err |-> ExpansionError(args[5]), expansion |-> AsInteger[args[5]]]
    [] OTHER -> [err |-> "Error", expansion |-> Unset]

ParseReserve(args) ==
  LET rate == RateError(args[2], "ErrorRateRange", "BadErrorRate")
      e    == ReserveExpansion(args)
  IN  IF Len(args) \notin 3..5 THEN Refused("WrongArity")
      ELSE IF rate # Ok THEN Refused(rate)
      ELSE IF CapacityError(args[3]) # Ok THEN Refused(CapacityError(args[3]))
      ELSE IF e.err # Ok THEN Refused(e.err)
      ELSE Parsed([Command("BF.RESERVE", args[1], <<>>) EXCEPT
                     !.fp = AsRate[args[2]], !.cap = AsInteger[args[3]],
                     !.expansion = e.expansion])

(******************************** BF.INSERT ********************************)

\* The options that take a value, and the field of the command it goes to.
Field ==
  [ERROR |-> "fp", TIGHTENING |-> "tr", CAPACITY |-> "cap", SEED |-> "seed",
   EXPANSION |-> "expansion", VALIDATESCALETO |-> "scaleTo"]

ValueError(word, t) ==
  CASE word = "ERROR"      -> RateError(t, "ErrorRateRange", "BadErrorRate")
    [] word = "TIGHTENING" -> RateError(t, "TighteningRatioRange", "BadTighteningRatio")
    [] word \in {"CAPACITY", "VALIDATESCALETO"} -> CapacityError(t)
    [] word = "SEED"       -> IF AsSeed[t] = Malformed THEN "InvalidSeed" ELSE Ok
    [] word = "EXPANSION"  -> ExpansionError(t)

ValueOf(word, t) ==
  CASE word \in {"ERROR", "TIGHTENING"} -> AsRate[t]
    [] word = "SEED"                    -> AsSeed[t]
    [] OTHER                            -> AsInteger[t]

\* Variant of InsertTurn in which NONSCALING does not override EXPANSION.
InsertTurnKeepsExpansion(s, args) ==
  LET word == AsWord[args[s.idx]]
      next == s.idx + 1
  IN  IF s.err # Ok \/ s.idx > Len(args) THEN s
      ELSE CASE word = "NONSCALING" /\ s.cmd.expansion # Unset -> [s EXCEPT !.idx = next]
             [] word = "NONSCALING" -> [s EXCEPT !.cmd.expansion = 0, !.idx = next]
             [] word = "NOCREATE"   -> [s EXCEPT !.cmd.nocreate = TRUE, !.idx = next]
             [] word \in DOMAIN Field /\ s.idx = Len(args) -> [s EXCEPT !.err = "WrongArity"]
             [] word \in DOMAIN Field /\ s.idx < Len(args) ->
                  [s EXCEPT !.err = ValueError(word, args[next]),
                            !.cmd[Field[word]] = ValueOf(word, args[next]),
                            !.idx = next + 1]
             [] word = "ITEMS" /\ s.idx = Len(args) -> [s EXCEPT !.err = "WrongArity"]
             [] word = "ITEMS" /\ s.idx < Len(args) ->
                  [s EXCEPT !.cmd.items = SubSeq(args, next, Len(args)), !.idx = Len(args) + 1]
             [] OTHER -> [s EXCEPT !.err = "UnknownArgument"]

\* One turn of the loop over the arguments, at the index idx.
InsertTurn(s, args) ==
  LET word == AsWord[args[s.idx]]
      next == s.idx + 1
  IN  IF s.err # Ok \/ s.idx > Len(args) THEN s
      ELSE CASE word = "NONSCALING" -> [s EXCEPT !.cmd.expansion = 0, !.idx = next]
             [] word = "NOCREATE"   -> [s EXCEPT !.cmd.nocreate = TRUE, !.idx = next]
             [] word \in DOMAIN Field /\ s.idx = Len(args) -> [s EXCEPT !.err = "WrongArity"]
             [] word \in DOMAIN Field /\ s.idx < Len(args) ->
                  [s EXCEPT !.err = ValueError(word, args[next]),
                            !.cmd[Field[word]] = ValueOf(word, args[next]),
                            !.idx = next + 1]
             [] word = "ITEMS" /\ s.idx = Len(args) -> [s EXCEPT !.err = "WrongArity"]
             [] word = "ITEMS" /\ s.idx < Len(args) ->
                  [s EXCEPT !.cmd.items = SubSeq(args, next, Len(args)), !.idx = Len(args) + 1]
             [] OTHER -> [s EXCEPT !.err = "UnknownArgument"]

ParseInsert(args) ==
  LET start == [idx |-> 2, err |-> Ok, cmd |-> Command("BF.INSERT", args[1], <<>>)]
      turn[i \in 0..Len(args)] == IF i = 0 THEN start ELSE InsertTurn(turn[i - 1], args)
      done  == turn[Len(args)]
  IN  IF args = <<>> THEN Refused("WrongArity")
      ELSE IF done.err # Ok THEN Refused(done.err)
      ELSE Parsed(done.cmd)

Parse(name, args) ==
  CASE name \in {"BF.ADD", "BF.MADD"} -> ParseAdd(name, args)
    [] name = "BF.RESERVE"            -> ParseReserve(args)
    [] name = "BF.INSERT"             -> ParseInsert(args)

(***************************** write commands ******************************)

Handle(c, v, cfg, m, obey, rnd) ==
  CASE c.name = "BF.INSERT"  -> BloomFilterInsert(c, v, cfg, m, obey, rnd)
    [] c.name = "BF.RESERVE" -> BloomFilterReserve(c, v, cfg, m, obey, rnd)
    [] OTHER                 -> BloomFilterAddValue(c, v, cfg, m, obey, rnd)

Execute(name, args, v, cfg, m, obey, rnd) ==
  LET p == Parse(name, args)
  IN  IF p.err # Ok THEN Rejected(v, m, p.err) ELSE Handle(p.cmd, v, cfg, m, obey, rnd)

\* The token whose reading under as is x.
TokenFor(as, x) == CHOOSE t \in Token : as[t] = x

ExpansionArguments(c) ==
  IF c.expansion = 0 THEN <<TokenFor(AsWord, "NONSCALING")>>
  ELSE <<TokenFor(AsWord, "EXPANSION"), TokenFor(AsInteger, c.expansion)>>

\* Variant of Rendered whose items are not announced.
RenderedBare(c) ==
  <<c.key,
    TokenFor(AsWord, "CAPACITY"), TokenFor(AsInteger, c.cap),
    TokenFor(AsWord, "ERROR"), TokenFor(AsRate, c.fp),
    TokenFor(AsWord, "TIGHTENING"), TokenFor(AsRate, c.tr),
    TokenFor(AsWord, "SEED"), TokenFor(AsSeed, c.seed)>>
  \o ExpansionArguments(c)
  \o c.items

\* The arguments of the BF.INSERT that a creation propagates.
Rendered(c) ==
  <<c.key,
    TokenFor(AsWord, "CAPACITY"), TokenFor(AsInteger, c.cap),
    TokenFor(AsWord, "ERROR"), TokenFor(AsRate, c.fp),
    TokenFor(AsWord, "TIGHTENING"), TokenFor(AsRate, c.tr),
    TokenFor(AsWord, "SEED"), TokenFor(AsSeed, c.seed)>>
  \o ExpansionArguments(c)
  \o (IF c.items = <<>> THEN <<>> ELSE <<TokenFor(AsWord, "ITEMS")>>)
  \o c.items

(****************************** read commands ******************************)

Answer(err, val) == [err |-> err, val |-> val]

\* handle_item_exists.
ItemExistsIn(v, x) == IF IsObject(v) /\ ItemExists(v, x) THEN 1 ELSE 0

BloomFilterExists(name, args, v) ==
  IF (name = "BF.EXISTS" /\ Len(args) # 2) \/ Len(args) < 2 THEN Answer("WrongArity", <<>>)
  ELSE IF v = Foreign THEN Answer("WrongType", <<>>)
  ELSE Answer(Ok, [i \in 1..(Len(args) - 1) |-> ItemExistsIn(v, args[i + 1])])

BloomFilterCard(args, v) ==
  IF Len(args) # 1 THEN Answer("WrongArity", 0)
  ELSE IF v = Foreign THEN Answer("WrongType", 0)
  ELSE Answer(Ok, IF IsObject(v) THEN NumItems(v) ELSE 0)

Null == Unset

InfoField(o, word, limit) ==
  LET max == MaxScaledCapacity(o, limit)
  IN  CASE word = "CAPACITY"  -> Answer(Ok, Capacity(o))
        [] word = "SIZE"      -> Answer(Ok, MemoryUsage(o))
        [] word = "FILTERS"   -> Answer(Ok, Len(o.filters))
        [] word = "ITEMS"     -> Answer(Ok, NumItems(o))
        [] word = "ERROR"     -> Answer(Ok, o.fp)
        [] word = "EXPANSION" -> Answer(Ok, IF o.expansion = 0 THEN Null ELSE o.expansion)
        [] word = "TIGHTENING" /\ o.expansion > 0        -> Answer(Ok, o.tr)
        [] word = "MAXSCALEDCAPACITY" /\ o.expansion > 0 -> Answer(max.err, max.capacity)
        [] OTHER -> Answer("InvalidInfoValue", 0)

\* Variant of InfoAll with the tightening ratio of non scaling objects, too.
InfoAllTightened(o, limit) ==
  LET max  == MaxScaledCapacity(o, limit)
      main == <<Capacity(o), MemoryUsage(o), Len(o.filters), NumItems(o), o.fp>>
  IN  IF o.expansion = 0 THEN Answer(Ok, main \o <<Null, o.tr>>)
      ELSE IF max.err # Ok THEN Answer(max.err, <<>>)
      ELSE Answer(Ok, main \o <<o.expansion, o.tr, max.capacity>>)

\* The values of the whole section, without their names.
InfoAll(o, limit) ==
  LET max  == MaxScaledCapacity(o, limit)
      main == <<Capacity(o), MemoryUsage(o), Len(o.filters), NumItems(o), o.fp>>
  IN  IF o.expansion = 0 THEN Answer(Ok, main \o <<Null>>)
      ELSE IF max.err # Ok THEN Answer(max.err, <<>>)
      ELSE Answer(Ok, main \o <<o.expansion, o.tr, max.capacity>>)

BloomFilterInfo(args, v, limit) ==
  IF Len(args) \notin 1..2 THEN Answer("WrongArity", <<>>)
  ELSE IF v = Foreign THEN Answer("WrongType", <<>>)
  ELSE IF ~ IsObject(v) THEN Answer("NotFound", <<>>)
  ELSE IF Len(args) = 2 THEN InfoField(v, AsWord[args[2]], limit)
  ELSE InfoAll(v, limit)

(************************ a client composes requests ***********************)

VARIABLES
  name,    \* the command
  args     \* the arguments so far

rvars == <<name, args>>

CommandNames == {"BF.ADD", "BF.MADD", "BF.RESERVE", "BF.INSERT"}

Init == name \in CommandNames /\ args = <<>>

\* A vector is continued when it may be accepted as it is or with more behind it.
Open ==
  LET err == Parse(name, args).err
  IN  \/ err = Ok
      \/ err = "WrongArity" /\ (name = "BF.INSERT" \/ Len(args) < 3)
      \/ err = "Error" /\ Len(args) = 4

ItemsIn == IF Parse(name, args).err = Ok THEN Len(Parse(name, args).cmd.items) ELSE 0

Compose ==
  /\ Open /\ Len(args) < MaxArguments /\ ItemsIn < MaxItems
  /\ \E t \in (IF args = <<>> THEN Key ELSE Token) : args' = Append(args, t)
  /\ UNCHANGED name

\* The client sends the vector and starts another.
Send ==
  /\ args # <<>>
  /\ args' = <<>>
  /\ name' \in CommandNames

Next == Compose \/ Send

Spec == Init /\ [][Next]_rvars

(******************************* properties ********************************)

\* The positions where an option starts: the one behind the key, and what
\* follows each option and its value, up to ITEMS.
Width(word) == IF word \in DOMAIN Field THEN 2 ELSE 1

Options ==
  CHOOSE starts \in SUBSET (2..Len(args)) :
    \A i \in 2..Len(args) :
      i \in starts <=> \/ i = 2
                      \/ \E j \in starts : /\ AsWord[args[j]] # "ITEMS"
                                            /\ i = j + Width(AsWord[args[j]])

Places(words) == {i \in Options : AsWord[args[i]] \in words}

\* The token after the last place of one of words.
LastValue(words, as) ==
  IF Places(words) = {} THEN Unset ELSE as[args[Max(Places(words)) + 1]]

\* bloom_filter_insert reads its options in any order and any number: what
\* counts is the last one of each kind, NONSCALING and EXPANSION being of one
\* kind, and whatever follows the first ITEMS is an item, a word like ERROR or
\* NOCREATE too.
LastOptionCounts ==
  LET p   == Parse(name, args)
      exp == Places({"EXPANSION", "NONSCALING"})
  IN  name = "BF.INSERT" /\ p.err = Ok =>
        /\ p.cmd.fp = LastValue({"ERROR"}, AsRate)
        /\ p.cmd.tr = LastValue({"TIGHTENING"}, AsRate)
        /\ p.cmd.cap = LastValue({"CAPACITY"}, AsInteger)
        /\ p.cmd.seed = LastValue({"SEED"}, AsSeed)
        /\ p.cmd.scaleTo = LastValue({"VALIDATESCALETO"}, AsInteger)
        /\ p.cmd.expansion =
             (IF exp # {} /\ AsWord[args[Max(exp)]] = "NONSCALING" THEN 0
              ELSE LastValue({"EXPANSION"}, AsInteger))
        /\ p.cmd.nocreate <=> Places({"NOCREATE"}) # {}
        /\ p.cmd.items = IF Places({"ITEMS"}) = {} THEN <<>>
                         ELSE SubSeq(args, Max(Places({"ITEMS"})) + 1, Len(args))

\* A parser lets through only what the handlers are written for: every argument
\* in its range, one item for BF.ADD, at least one for BF.MADD, VALIDATESCALETO
\* for BF.INSERT only.  It is what BloomServer takes for granted of its commands.
AcceptedIsWellFormed ==
  LET p == Parse(name, args)
  IN  p.err = Ok =>
        /\ p.cmd \in CommandType
        /\ name = "BF.ADD" => Len(p.cmd.items) = 1
        /\ name = "BF.MADD" => p.cmd.items # <<>>
        /\ name = "BF.RESERVE" => p.cmd.items = <<>>
        /\ name # "BF.INSERT" => p.cmd.scaleTo = Unset

RandomSeeds == Seeds \ {FixedSeed}

\* What the request does on a node with cfg where there is no object.
Created(cfg, rnd) == Execute(name, args, Absent, cfg, NoMetrics, FALSE, rnd)

\* What a replica with cfg makes of the propagated command.
Replicated(cmd, cfg, rnd) ==
  Execute("BF.INSERT", Rendered(cmd), Absent, cfg, NoMetrics, TRUE, rnd)

SameResult(out, copy) == copy.val = out.val /\ copy.reply = out.reply

ReplicatesTo(out, cfg, rnd) ==
  out.repl # <<>> => SameResult(out, Replicated(out.repl[1], cfg, rnd))

\* command_handler.rs:123: the arguments a creation is propagated with are
\* parsed, on a node with other defaults and random draws, to the same object,
\* down to items that are spelled like options.
CreationReplicates ==
  \A cfg, other \in Configs, rnd, rnd2 \in RandomSeeds :
    cfg # other /\ rnd # rnd2 => ReplicatesTo(Created(cfg, rnd), other, rnd2)

\* command_handler.rs:58: what validate_add_items lets through to the loop of
\* handle_bloom_add is added whole to the object that the request creates, none of
\* its items is refused half way.
BatchesFit ==
  LET p     == Parse(name, args)
      items == p.cmd.items
  IN  p.err = Ok =>
        \A cfg \in Configs, rnd \in RandomSeeds :
          LET o == NewReserved(Properties(p.cmd, cfg, rnd))
              m == NewReservedMetrics(NoMetrics, o)
          IN  ValidateAddItems(o, Cardinality(NewItems(o, items)), cfg.limit) = Ok =>
                HandleAdd(o, m, items, TRUE, TRUE, cfg.limit).err = Ok

InfoWords(o) ==
  <<"CAPACITY", "SIZE", "FILTERS", "ITEMS", "ERROR", "EXPANSION">>
    \o (IF o.expansion = 0 THEN <<>> ELSE <<"TIGHTENING", "MAXSCALEDCAPACITY">>)

\* BF.INFO key answers fields, those of BF.INFO key FIELD, or fails if one does.
InfoAgrees(all, fields) ==
  IF \E i \in DOMAIN fields : fields[i].err # Ok THEN all.err # Ok
  ELSE all = Answer(Ok, [i \in DOMAIN fields |-> fields[i].val])

ReadsAgree(o, ints, key, items, limit) ==
  /\ InfoAgrees(BloomFilterInfo(<<key>>, o, limit),
                [i \in DOMAIN InfoWords(o) |-> InfoField(o, InfoWords(o)[i], limit)])
  /\ BloomFilterCard(<<key>>, o).val = Cardinality({i \in DOMAIN ints : ints[i] = 1})
  /\ items # <<>> => BloomFilterExists("BF.MEXISTS", <<key>> \o items, o)
                       = Answer(Ok, [i \in DOMAIN items |-> 1])

ReadsReflect(out, cmd, cfg) ==
  IsObject(out.val) /\ out.reply.err = Ok =>
    /\ ReadsAgree(out.val, out.reply.ints, cmd.key, cmd.items, cfg.limit)
    /\ InfoField(out.val, "ERROR", cfg.limit).val = Given(cmd.fp, cfg.fp)

\* What the read commands answer about an object that was just created is what
\* was asked for: BF.INFO key and BF.INFO key FIELD agree, BF.CARD counts the
\* items that were answered 1, and BF.MEXISTS finds them all.
ReadsReflectRequest ==
  \A cfg \in Configs, rnd \in RandomSeeds :
    ReadsReflect(Created(cfg, rnd), Parse(name, args).cmd, cfg)

=============================================================================
