------------------------ MODULE BloomRequestsProofs ------------------------
(***************************************************************************)
(* Proofs about BloomRequests: for any tokens, however they are spelled    *)
(* and read, and vectors of any length, the parsers accept only commands   *)
(* that the handlers are written for, and BF.INSERT reads the last of each *)
(* kind of option.                                                         *)
(***************************************************************************)
EXTENDS BloomRequests, BloomCommandsProofs

Composed(v) == v \in Seq(Token) /\ (v # <<>> => v[1] \in Key)

RequestsInv == name \in CommandNames /\ Composed(args)

(******************************* one argument ******************************)

LEMMA Tokens ==
  ASSUME NEW t \in Token
  PROVE  /\ t \in Item
         /\ AsRate[t] \in (Nat \ {0}) \union {Outside, Malformed}
         /\ AsInteger[t] \in Int \union {Malformed}
         /\ AsSeed[t] \in Seeds \union {Malformed}
BY TokenAssumption

LEMMA TokensAreItems ==
  ASSUME NEW v \in Seq(Token), NEW i \in Nat \ {0}
  PROVE  SubSeq(v, i, Len(v)) \in Seq(Token) /\ SubSeq(v, i, Len(v)) \in Seq(Item)
<1>1. Token \subseteq Item
  BY TokenAssumption
<1>2. SubSeq(v, i, Len(v)) \in Seq(Token)
  OBVIOUS
<1>. QED BY <1>1, <1>2

\* An argument that is accepted is in its range.
LEMMA AcceptedRate ==
  ASSUME NEW t \in Token, NEW range, NEW bad, range # Ok, bad # Ok,
         RateError(t, range, bad) = Ok
  PROVE  AsRate[t] \in Nat \ {0}
<1>1. AsRate[t] \in (Nat \ {0}) \union {Outside, Malformed}
  BY Tokens
<1>2. AsRate[t] # Malformed
  BY DEF RateError
<1>3. AsRate[t] # Outside
  BY <1>2 DEF RateError
<1>. QED BY <1>1, <1>2, <1>3

LEMMA AcceptedInteger ==
  ASSUME NEW t \in Token
  PROVE  /\ CapacityError(t) = Ok => AsInteger[t] \in 1..CapacityMax
         /\ ExpansionError(t) = Ok => AsInteger[t] \in Nat
<1>1. ASSUME CapacityError(t) = Ok PROVE AsInteger[t] \in 1..CapacityMax
  <2>1. AsInteger[t] # Malformed
    <3>1. Malformed \notin Int
      BY TokenAssumption
    <3>. QED BY <1>1, <3>1, SizesAreNatural DEF CapacityError, Ok
  <2>2. AsInteger[t] # 0
    BY <1>1, <2>1, SizesAreNatural DEF CapacityError, Ok
  <2>. QED BY <1>1, <2>1, <2>2 DEF CapacityError, Ok
<1>2. ASSUME ExpansionError(t) = Ok PROVE AsInteger[t] \in Nat
  BY <1>2, TokenAssumption DEF ExpansionError, Ok
<1>. QED BY <1>1, <1>2

\* What the field of an option may hold.
FieldType(word) ==
  CASE word \in {"ERROR", "TIGHTENING"}          -> Nat \ {0}
    [] word \in {"CAPACITY", "VALIDATESCALETO"}  -> 1..CapacityMax
    [] word = "SEED"                             -> Seeds
    [] word = "EXPANSION"                        -> Nat

LEMMA AcceptedValue ==
  ASSUME NEW word \in DOMAIN Field, NEW t \in Token, ValueError(word, t) = Ok
  PROVE  ValueOf(word, t) \in FieldType(word)
<1>0. DOMAIN Field =
        {"ERROR", "TIGHTENING", "CAPACITY", "SEED", "EXPANSION", "VALIDATESCALETO"}
  BY DEF Field
<1>1. CASE word = "ERROR"
  <2>1. RateError(t, "ErrorRateRange", "BadErrorRate") = Ok
    BY <1>1 DEF ValueError
  <2>2. AsRate[t] \in Nat \ {0}
    BY <2>1, AcceptedRate DEF Ok
  <2>. QED BY <1>1, <2>2 DEF ValueOf, FieldType
<1>2. CASE word = "TIGHTENING"
  <2>1. RateError(t, "TighteningRatioRange", "BadTighteningRatio") = Ok
    BY <1>2 DEF ValueError
  <2>2. AsRate[t] \in Nat \ {0}
    BY <2>1, AcceptedRate DEF Ok
  <2>. QED BY <1>2, <2>2 DEF ValueOf, FieldType
<1>3. CASE word \in {"CAPACITY", "VALIDATESCALETO"}
  <2>1. CapacityError(t) = Ok
    BY <1>3 DEF ValueError
  <2>2. AsInteger[t] \in 1..CapacityMax
    BY <2>1, AcceptedInteger
  <2>. QED BY <1>3, <2>2 DEF ValueOf, FieldType
<1>4. CASE word = "SEED"
  <2>1. AsSeed[t] # Malformed
    BY <1>4 DEF ValueError, Ok
  <2>2. AsSeed[t] \in Seeds
    BY <2>1, Tokens
  <2>. QED BY <1>4, <2>2 DEF ValueOf, FieldType
<1>5. CASE word = "EXPANSION"
  <2>1. ExpansionError(t) = Ok
    BY <1>5 DEF ValueError
  <2>2. AsInteger[t] \in Nat
    BY <2>1, AcceptedInteger
  <2>. QED BY <1>5, <2>2 DEF ValueOf, FieldType
<1>. QED BY <1>0, <1>1, <1>2, <1>3, <1>4, <1>5

(************************* the loop of BF.INSERT ***************************)

\* What a field of a command may hold while an error in it has not ended the
\* loop, or just has.
Draft == Int \union Seeds \union {Unset, Outside, Malformed}

DraftType ==
  [name : {"BF.INSERT"}, key : Key, items : Seq(Item), fp : Draft, tr : Draft, cap : Draft,
   seed : Draft, expansion : Draft, scaleTo : Draft, nocreate : BOOLEAN, dump : {Unset}]

ParserErrors ==
  {Ok, "ErrorRateRange", "BadErrorRate", "TighteningRatioRange", "BadTighteningRatio",
   "BadCapacity", "CapacityLargerThan0", "BadExpansion", "InvalidSeed", "WrongArity",
   "UnknownArgument"}

ParserState == [idx : Nat \ {0, 1}, err : ParserErrors, cmd : DraftType]

\* The parser's state between two turns over the arguments v.
Parsing(v) ==
  {s \in ParserState : s.err = Ok => s.cmd \in CommandType /\ s.idx <= Len(v) + 1}

LEMMA StartOfParsing ==
  ASSUME NEW v, Composed(v), v # <<>>
  PROVE  [idx |-> 2, err |-> Ok, cmd |-> Command("BF.INSERT", v[1], <<>>)] \in Parsing(v)
<1>1. v[1] \in Key /\ <<>> \in Seq(Item) /\ Len(v) \in Nat \ {0}
  BY DEF Composed
<1>2. Command("BF.INSERT", v[1], <<>>) \in DraftType
  BY <1>1 DEF Command, DraftType, Draft
<1>3. Command("BF.INSERT", v[1], <<>>) \in CommandType
  BY <1>1 DEF Command, CommandType
<1>4. Ok \in ParserErrors /\ 2 \in Nat \ {0, 1} /\ 2 <= Len(v) + 1
  BY <1>1 DEF ParserErrors
<1> DEFINE c == Command("BF.INSERT", v[1], <<>>)
<1>. HIDE DEF c
<1>. QED BY <1>2, <1>3, <1>4 DEF Parsing, ParserState, c

\* An option with its value.
LEMMA OptionTaken ==
  ASSUME NEW v \in Seq(Token), NEW s \in Parsing(v), NEW word \in DOMAIN Field,
         s.err = Ok, s.idx < Len(v)
  PROVE  [s EXCEPT !.err = ValueError(word, v[s.idx + 1]),
                   !.cmd[Field[word]] = ValueOf(word, v[s.idx + 1]),
                   !.idx = s.idx + 1 + 1] \in Parsing(v)
<1> DEFINE t == v[s.idx + 1]
           x == ValueOf(word, t)
           err == ValueError(word, t)
           c == [s.cmd EXCEPT ![Field[word]] = x]
           next == s.idx + 1 + 1
<1>1. /\ s \in ParserState /\ s.cmd \in CommandType /\ s.cmd \in DraftType
      /\ s.idx \in Nat \ {0, 1} /\ Len(v) \in Nat /\ t \in Token
  BY DEF Parsing, ParserState
<1>2. next \in Nat \ {0, 1} /\ next <= Len(v) + 1
  BY <1>1
<1>3. word \in {"ERROR", "TIGHTENING", "CAPACITY", "SEED", "EXPANSION", "VALIDATESCALETO"}
  BY DEF Field
<1>4. err \in ParserErrors
  <2>1. /\ RateError(t, "ErrorRateRange", "BadErrorRate") \in ParserErrors
        /\ RateError(t, "TighteningRatioRange", "BadTighteningRatio") \in ParserErrors
    BY DEF RateError, Ok, ParserErrors
  <2>2. CapacityError(t) \in ParserErrors /\ ExpansionError(t) \in ParserErrors
    BY DEF CapacityError, ExpansionError, Ok, ParserErrors
  <2>. QED BY <1>3, <2>1, <2>2 DEF ValueError, Ok, ParserErrors
<1>5. x \in Draft
  <2>1. AsRate[t] \in Draft /\ AsInteger[t] \in Draft /\ AsSeed[t] \in Draft
    BY <1>1, Tokens DEF Draft
  <2>. QED BY <1>3, <2>1 DEF ValueOf
<1>6. Field[word] = CASE word = "ERROR" -> "fp" [] word = "TIGHTENING" -> "tr"
                      [] word = "CAPACITY" -> "cap" [] word = "SEED" -> "seed"
                      [] word = "EXPANSION" -> "expansion" [] word = "VALIDATESCALETO" -> "scaleTo"
  BY <1>3 DEF Field
<1>7. err = Ok => x \in FieldType(word)
  BY <1>1, AcceptedValue
<1>. HIDE DEF x, err, next, t
<1>8. c \in DraftType
  <2>. QED BY <1>1, <1>3, <1>5, <1>6 DEF DraftType
<1>9. err = Ok => c \in CommandType
  <2>1. SUFFICES ASSUME err = Ok PROVE c \in CommandType
    OBVIOUS
  <2>2. x \in FieldType(word)
    BY <1>7, <2>1
  <2>3. CASE word = "ERROR"
    BY <1>1, <1>6, <2>2, <2>3 DEF CommandType, FieldType
  <2>4. CASE word = "TIGHTENING"
    BY <1>1, <1>6, <2>2, <2>4 DEF CommandType, FieldType
  <2>5. CASE word = "CAPACITY"
    BY <1>1, <1>6, <2>2, <2>5 DEF CommandType, FieldType
  <2>6. CASE word = "SEED"
    BY <1>1, <1>6, <2>2, <2>6 DEF CommandType, FieldType
  <2>7. CASE word = "EXPANSION"
    BY <1>1, <1>6, <2>2, <2>7 DEF CommandType, FieldType
  <2>8. CASE word = "VALIDATESCALETO"
    BY <1>1, <1>6, <2>2, <2>8 DEF CommandType, FieldType
  <2>. QED BY <1>3, <2>3, <2>4, <2>5, <2>6, <2>7, <2>8
<1> DEFINE u == [s EXCEPT !.err = err, !.cmd[Field[word]] = x, !.idx = next]
<1>10. u = [s EXCEPT !.err = err, !.cmd = c, !.idx = next]
  BY <1>1 DEF ParserState
<1>. HIDE DEF c
<1>11. u \in Parsing(v)
  <2>1. u \in ParserState
    <3>. HIDE DEF u
    <3>. QED BY <1>1, <1>2, <1>4, <1>8, <1>10 DEF ParserState
  <2>2. u.err = err /\ u.cmd = c /\ u.idx = next
    <3>. HIDE DEF u
    <3>. QED BY <1>1, <1>10 DEF ParserState
  <2>. HIDE DEF u
  <2>. QED BY <1>2, <1>9, <2>1, <2>2 DEF Parsing
<1>. QED BY <1>11 DEF u, x, err, next, t

\* What a turn that found no error did to the command and the index.
TurnTaken(s, v, u) ==
  LET word == AsWord[v[s.idx]]
  IN  \/ /\ word = "NONSCALING"
         /\ u.cmd = [s.cmd EXCEPT !.expansion = 0] /\ u.idx = s.idx + 1
      \/ /\ word = "NOCREATE"
         /\ u.cmd = [s.cmd EXCEPT !.nocreate = TRUE] /\ u.idx = s.idx + 1
      \/ /\ word \in DOMAIN Field /\ s.idx < Len(v)
         /\ u.cmd = [s.cmd EXCEPT ![Field[word]] = ValueOf(word, v[s.idx + 1])]
         /\ u.idx = s.idx + 2
      \/ /\ word = "ITEMS" /\ s.idx < Len(v)
         /\ u.cmd = [s.cmd EXCEPT !.items = SubSeq(v, s.idx + 1, Len(v))]
         /\ u.idx = Len(v) + 1

LEMMA InsertTurnOutcome ==
  ASSUME NEW v \in Seq(Token), NEW s \in Parsing(v)
  PROVE  /\ InsertTurn(s, v) \in Parsing(v)
         /\ s.err # Ok \/ s.idx > Len(v) => InsertTurn(s, v) = s
         /\ s.err = Ok /\ s.idx <= Len(v) /\ InsertTurn(s, v).err = Ok =>
              TurnTaken(s, v, InsertTurn(s, v))
<1> DEFINE u == InsertTurn(s, v)
           word == AsWord[v[s.idx]]
<1>1. /\ s \in ParserState /\ s.idx \in Nat \ {0, 1} /\ Len(v) \in Nat
      /\ s.cmd \in DraftType /\ s.err \in ParserErrors
  BY DEF Parsing, ParserState
<1>2. CASE s.err # Ok \/ s.idx > Len(v)
  <2>1. u = s
    BY <1>2 DEF InsertTurn
  <2>. QED BY <1>1, <1>2, <2>1
<1>3. ASSUME s.err = Ok, s.idx <= Len(v)
      PROVE  u \in Parsing(v) /\ (u.err = Ok => TurnTaken(s, v, u))
  <2>1. s.cmd \in CommandType /\ ~ (s.err # Ok \/ s.idx > Len(v))
    BY <1>1, <1>3 DEF Parsing
  <2>2. \A e \in ParserErrors \ {Ok} :
          [s EXCEPT !.err = e] \in Parsing(v) /\ [s EXCEPT !.err = e].err # Ok
    <3>. TAKE e \in ParserErrors \ {Ok}
    <3> DEFINE w == [s EXCEPT !.err = e]
    <3>1. w \in ParserState /\ w.err = e
      BY <1>1 DEF ParserState
    <3>. HIDE DEF w
    <3>2. w \in Parsing(v)
      BY <3>1 DEF Parsing
    <3>. QED BY <3>1, <3>2 DEF w
  <2>3. "WrongArity" \in ParserErrors \ {Ok} /\ "UnknownArgument" \in ParserErrors \ {Ok}
    BY DEF ParserErrors, Ok
  <2>4. CASE word = "NONSCALING"
    <3> DEFINE c == [s.cmd EXCEPT !.expansion = 0]
    <3>1. u = [s EXCEPT !.cmd.expansion = 0, !.idx = s.idx + 1]
      <4>1. word \notin DOMAIN Field
        BY <2>4 DEF Field
      <4>. QED BY <2>1, <2>4, <4>1 DEF InsertTurn
    <3>2. c \in DraftType
      <4>1. 0 \in Draft
        BY DEF Draft
      <4>. QED BY <1>1, <4>1 DEF DraftType
    <3>3. c \in CommandType
      BY <2>1 DEF CommandType
    <3>4. u = [s EXCEPT !.cmd = c, !.idx = s.idx + 1]
      BY <1>1, <3>1 DEF ParserState
    <3>. HIDE DEF c, u
    <3>5. u \in ParserState /\ u.err = Ok /\ u.cmd = c /\ u.idx = s.idx + 1
      <4>1. s.idx + 1 \in Nat \ {0, 1}
        BY <1>1
      <4>2. u \in ParserState
        BY <1>1, <3>2, <3>4, <4>1 DEF ParserState
      <4>3. u.err = s.err /\ u.cmd = c /\ u.idx = s.idx + 1
        BY <1>1, <3>4 DEF ParserState
      <4>. QED BY <1>3, <4>2, <4>3
    <3>6. u \in Parsing(v)
      BY <1>1, <1>3, <3>3, <3>5 DEF Parsing
    <3>7. TurnTaken(s, v, u)
      BY <2>4, <3>5 DEF TurnTaken, c
    <3>. QED BY <3>6, <3>7
  <2>5. CASE word = "NOCREATE"
    <3> DEFINE c == [s.cmd EXCEPT !.nocreate = TRUE]
    <3>1. u = [s EXCEPT !.cmd.nocreate = TRUE, !.idx = s.idx + 1]
      <4>1. word \notin DOMAIN Field
        BY <2>5 DEF Field
      <4>. QED BY <2>1, <2>5, <4>1 DEF InsertTurn
    <3>2. c \in DraftType
      BY <1>1 DEF DraftType
    <3>3. c \in CommandType
      BY <2>1 DEF CommandType
    <3>4. u = [s EXCEPT !.cmd = c, !.idx = s.idx + 1]
      BY <1>1, <3>1 DEF ParserState
    <3>. HIDE DEF c, u
    <3>5. u \in ParserState /\ u.err = Ok /\ u.cmd = c /\ u.idx = s.idx + 1
      <4>1. s.idx + 1 \in Nat \ {0, 1}
        BY <1>1
      <4>2. u \in ParserState
        BY <1>1, <3>2, <3>4, <4>1 DEF ParserState
      <4>3. u.err = s.err /\ u.cmd = c /\ u.idx = s.idx + 1
        BY <1>1, <3>4 DEF ParserState
      <4>. QED BY <1>3, <4>2, <4>3
    <3>6. u \in Parsing(v)
      BY <1>1, <1>3, <3>3, <3>5 DEF Parsing
    <3>7. TurnTaken(s, v, u)
      BY <2>5, <3>5 DEF TurnTaken, c
    <3>. QED BY <3>6, <3>7
  <2>6. CASE word \in DOMAIN Field
    <3>1. word \in {"ERROR", "TIGHTENING", "CAPACITY", "SEED", "EXPANSION", "VALIDATESCALETO"}
      BY <2>6 DEF Field
    <3>2. CASE s.idx = Len(v)
      <4>1. u = [s EXCEPT !.err = "WrongArity"]
        BY <1>1, <2>1, <2>6, <3>1, <3>2 DEF InsertTurn
      <4>. HIDE DEF u
      <4>. QED BY <2>2, <2>3, <4>1
    <3>3. CASE s.idx < Len(v)
      <4> DEFINE e == ValueError(word, v[s.idx + 1])
                 x == ValueOf(word, v[s.idx + 1])
                 c == [s.cmd EXCEPT ![Field[word]] = x]
      <4>1. u = [s EXCEPT !.err = e, !.cmd[Field[word]] = x, !.idx = s.idx + 1 + 1]
        BY <1>1, <2>1, <2>6, <3>1, <3>3 DEF InsertTurn
      <4>2. u \in Parsing(v)
        <5>. HIDE DEF u, word
        <5>. QED BY <1>3, <2>6, <3>3, <4>1, OptionTaken
      <4>. HIDE DEF e, x
      <4>3. u = [s EXCEPT !.err = e, !.cmd = c, !.idx = s.idx + 1 + 1]
        <5>. HIDE DEF u, word
        <5>. QED BY <1>1, <4>1 DEF ParserState
      <4>. HIDE DEF c
      <4>4. u.cmd = c /\ u.idx = s.idx + 2
        <5>. HIDE DEF u
        <5>. QED BY <1>1, <4>3 DEF ParserState
      <4>. HIDE DEF u
      <4>5. TurnTaken(s, v, u)
        BY <2>6, <3>3, <4>4 DEF TurnTaken, c, x
      <4>. QED BY <4>2, <4>5
    <3>. QED BY <1>1, <1>3, <3>2, <3>3
  <2>7. CASE word = "ITEMS"
    <3>1. word \notin DOMAIN Field
      BY <2>7 DEF Field
    <3>2. CASE s.idx = Len(v)
      <4>1. u = [s EXCEPT !.err = "WrongArity"]
        BY <1>1, <2>1, <2>7, <3>1, <3>2 DEF InsertTurn
      <4>. HIDE DEF u
      <4>. QED BY <2>2, <2>3, <4>1
    <3>3. CASE s.idx < Len(v)
      <4> DEFINE items == SubSeq(v, s.idx + 1, Len(v))
                 c == [s.cmd EXCEPT !.items = items]
      <4>1. u = [s EXCEPT !.cmd.items = items, !.idx = Len(v) + 1]
        BY <1>1, <2>1, <2>7, <3>1, <3>3 DEF InsertTurn
      <4>2. items \in Seq(Item)
        BY <1>1, TokensAreItems
      <4>. HIDE DEF items
      <4>3. c \in DraftType
        BY <1>1, <4>2 DEF DraftType
      <4>4. c \in CommandType
        BY <2>1, <4>2 DEF CommandType
      <4>5. u = [s EXCEPT !.cmd = c, !.idx = Len(v) + 1]
        BY <1>1, <4>1 DEF ParserState
      <4>. HIDE DEF c, u
      <4>6. u \in ParserState /\ u.err = Ok /\ u.cmd = c /\ u.idx = Len(v) + 1
        <5>1. Len(v) + 1 \in Nat \ {0, 1}
          BY <1>1, <3>3
        <5>2. u \in ParserState
          BY <1>1, <4>3, <4>5, <5>1 DEF ParserState
        <5>3. u.err = s.err /\ u.cmd = c /\ u.idx = Len(v) + 1
          BY <1>1, <4>5 DEF ParserState
        <5>. QED BY <1>3, <5>2, <5>3
      <4>7. u \in Parsing(v)
        BY <1>1, <4>4, <4>6 DEF Parsing
      <4>8. TurnTaken(s, v, u)
        BY <2>7, <3>3, <4>6 DEF TurnTaken, c, items
      <4>. QED BY <4>7, <4>8
    <3>. QED BY <1>1, <1>3, <3>2, <3>3
  <2>8. CASE word \notin {"NONSCALING", "NOCREATE", "ITEMS"} \union DOMAIN Field
    <3>1. u = [s EXCEPT !.err = "UnknownArgument"]
      BY <2>1, <2>8 DEF InsertTurn
    <3>. HIDE DEF u
    <3>. QED BY <2>2, <2>3, <3>1
  <2>. QED BY <2>4, <2>5, <2>6, <2>7, <2>8
<1>4. s.err = Ok => s.idx <= Len(v) \/ s.idx > Len(v)
  BY <1>1
<1>. QED BY <1>2, <1>3, <1>4

StartOf(v) == [idx |-> 2, err |-> Ok, cmd |-> Command("BF.INSERT", v[1], <<>>)]

\* The states of the parser along the arguments v.
TurnsOver(v, turn) ==
  /\ turn \in [0..Len(v) -> Parsing(v)]
  /\ turn[0] = StartOf(v)
  /\ \A i \in 1..Len(v) : turn[i] = InsertTurn(turn[i - 1], v)

LEMMA ParseSteps ==
  ASSUME NEW v, Composed(v), v # <<>>
  PROVE  \E turn :
           /\ TurnsOver(v, turn)
           /\ ParseInsert(v) = IF turn[Len(v)].err # Ok THEN Refused(turn[Len(v)].err)
                               ELSE Parsed(turn[Len(v)].cmd)
<1> DEFINE n == Len(v)
           start == StartOf(v)
           step == [i \in 1..n |-> [u \in Parsing(v) |-> InsertTurn(u, v)]]
           R(g) == g = [i \in 0..n |-> IF i = 0 THEN start ELSE InsertTurn(g[i - 1], v)]
<1>1. v \in Seq(Token) /\ n \in Nat
  BY DEF Composed
<1>2. start \in Parsing(v)
  BY StartOfParsing DEF StartOf
<1>3. \A u \in Parsing(v) : InsertTurn(u, v) \in Parsing(v)
  BY <1>1, InsertTurnOutcome
<1>4. step \in [1..n -> [Parsing(v) -> Parsing(v)]]
  BY <1>3
<1>. HIDE DEF n, start
<1>5. PICK g \in [0..n -> Parsing(v)] : g[0] = start /\ \A i \in 1..n : g[i] = step[i][g[i - 1]]
  <2>. HIDE DEF step, R
  <2>1. Iterates(n, Parsing(v), start, step)
    BY <1>1, <1>2, <1>4, IterationExists
  <2>. QED BY <2>1 DEF Iterates
<1>6. R(g)
  <2>1. \A i \in 1..n : g[i - 1] \in Parsing(v)
    BY <1>1
  <2>2. \A i \in 1..n : g[i] = InsertTurn(g[i - 1], v)
    BY <1>5, <2>1
  <2>3. g = [i \in 0..n |-> g[i]]
    OBVIOUS
  <2>4. \A i \in 0..n : g[i] = IF i = 0 THEN start ELSE InsertTurn(g[i - 1], v)
    BY <1>1, <1>5, <2>2
  <2>. QED BY <2>3, <2>4
<1> DEFINE turn == CHOOSE r : R(r)
<1>7. R(turn)
  BY <1>6
<1>8. ParseInsert(v) = IF turn[n].err # Ok THEN Refused(turn[n].err) ELSE Parsed(turn[n].cmd)
  BY DEF ParseInsert, n, start, StartOf
<1>. HIDE DEF turn
<1>9. /\ turn[0] = start
      /\ \A i \in 1..n : turn[i] = InsertTurn(turn[i - 1], v)
  BY <1>1, <1>7
<1> DEFINE T == {i \in Nat : i <= n => turn[i] \in Parsing(v)}
<1>10. 0 \in T
  BY <1>2, <1>9
<1>11. ASSUME NEW i \in Nat, i \in T PROVE i + 1 \in T
  <2>1. SUFFICES ASSUME i + 1 <= n PROVE turn[i + 1] \in Parsing(v)
    OBVIOUS
  <2>2. i + 1 \in 1..n /\ (i + 1) - 1 = i /\ turn[i] \in Parsing(v)
    BY <1>1, <1>11, <2>1
  <2>. QED BY <1>3, <1>9, <2>2
<1>12. Nat \subseteq T
  <2>. HIDE DEF T
  <2>. QED BY <1>10, <1>11, SetInduction
<1>13. \A i \in 0..n : turn[i] \in Parsing(v)
  BY <1>1, <1>12
<1>14. turn = [i \in 0..n |-> turn[i]]
  BY <1>7
<1>15. turn \in [0..n -> Parsing(v)]
  BY <1>13, <1>14
<1>. QED BY <1>8, <1>9, <1>15 DEF n, start, TurnsOver

LEMMA InsertAccepts ==
  ASSUME NEW v, Composed(v), ParseInsert(v).err = Ok
  PROVE  ParseInsert(v).cmd \in CommandType
<1>1. v # <<>>
  BY DEF ParseInsert, Refused, Ok
<1>2. PICK turn :
         /\ TurnsOver(v, turn)
         /\ ParseInsert(v) = IF turn[Len(v)].err # Ok THEN Refused(turn[Len(v)].err)
                             ELSE Parsed(turn[Len(v)].cmd)
  BY <1>1, ParseSteps
<1>3. Len(v) \in 0..Len(v)
  BY DEF Composed
<1>4. turn[Len(v)] \in Parsing(v)
  BY <1>2, <1>3 DEF TurnsOver
<1>5. turn[Len(v)].err = Ok /\ ParseInsert(v).cmd = turn[Len(v)].cmd
  BY <1>2 DEF Refused, Parsed
<1>. QED BY <1>4, <1>5 DEF Parsing

(******************* BF.ADD, BF.MADD and BF.RESERVE ************************)

LEMMA AddAccepts ==
  ASSUME NEW n \in {"BF.ADD", "BF.MADD"}, NEW v, Composed(v), ParseAdd(n, v).err = Ok
  PROVE  /\ ParseAdd(n, v).cmd \in CommandType
         /\ n = "BF.ADD" => Len(ParseAdd(n, v).cmd.items) = 1
         /\ ParseAdd(n, v).cmd.items # <<>> /\ ParseAdd(n, v).cmd.scaleTo = Unset
<1> DEFINE items == SubSeq(v, 2, Len(v))
<1>1. v \in Seq(Token) /\ Len(v) \in Nat
  BY DEF Composed
<1>2. Len(v) >= 2 /\ (n = "BF.ADD" => Len(v) = 2)
  BY <1>1 DEF ParseAdd, Refused, Ok
<1>3. ParseAdd(n, v) = Parsed(Command(n, v[1], items))
  BY <1>1, <1>2 DEF ParseAdd
<1>4. items \in Seq(Item) /\ Len(items) = Len(v) - 1
  BY <1>1, <1>2, TokensAreItems
<1>5. v[1] \in Key
  BY <1>1, <1>2 DEF Composed
<1>. HIDE DEF items
<1>6. Command(n, v[1], items) \in CommandType
  BY <1>4, <1>5 DEF Command, CommandType
<1>7. Command(n, v[1], items).items = items /\ Command(n, v[1], items).scaleTo = Unset
  BY DEF Command
<1>8. /\ ParseAdd(n, v).cmd.items = items /\ ParseAdd(n, v).cmd \in CommandType
      /\ ParseAdd(n, v).cmd.scaleTo = Unset
  BY <1>3, <1>6, <1>7 DEF Parsed
<1>9. items # <<>> /\ (n = "BF.ADD" => Len(items) = 1)
  BY <1>1, <1>2, <1>4
<1>. QED BY <1>8, <1>9

LEMMA ReserveAccepts ==
  ASSUME NEW v, Composed(v), ParseReserve(v).err = Ok
  PROVE  /\ ParseReserve(v).cmd \in CommandType /\ ParseReserve(v).cmd.items = <<>>
         /\ ParseReserve(v).cmd.scaleTo = Unset
<1> DEFINE rate == RateError(v[2], "ErrorRateRange", "BadErrorRate")
           e == ReserveExpansion(v)
           c0 == Command("BF.RESERVE", v[1], <<>>)
           c == [c0 EXCEPT !.fp = AsRate[v[2]], !.cap = AsInteger[v[3]],
                           !.expansion = e.expansion]
<1>1. v \in Seq(Token) /\ Len(v) \in Nat
  BY DEF Composed
<1>2. Len(v) \in 3..5
  BY DEF ParseReserve, Refused, Ok
<1>3. rate = Ok
  BY <1>2 DEF ParseReserve, Refused
<1>4. CapacityError(v[3]) = Ok
  BY <1>2, <1>3 DEF ParseReserve, Refused
<1>5. e.err = Ok
  BY <1>2, <1>3, <1>4 DEF ParseReserve, Refused
<1>6. ParseReserve(v) = Parsed(c)
  BY <1>2, <1>3, <1>4, <1>5 DEF ParseReserve
<1>7. v[1] \in Key /\ v[2] \in Token /\ v[3] \in Token
  BY <1>1, <1>2 DEF Composed
<1>8. AsRate[v[2]] \in Nat \ {0}
  BY <1>3, <1>7, AcceptedRate DEF Ok
<1>9. AsInteger[v[3]] \in 1..CapacityMax
  BY <1>4, <1>7, AcceptedInteger
<1>10. e.expansion \in {Unset} \union Nat
  <2>1. CASE Len(v) = 3
    BY <2>1 DEF ReserveExpansion
  <2>2. CASE Len(v) = 4
    <3>1. AsWord[v[4]] = "NONSCALING"
      BY <1>5, <2>2 DEF ReserveExpansion, Ok
    <3>. QED BY <2>2, <3>1 DEF ReserveExpansion
  <2>3. CASE Len(v) = 5
    <3>1. AsWord[v[4]] = "EXPANSION"
      BY <1>5, <2>3 DEF ReserveExpansion, Ok
    <3>2. e = [err |-> ExpansionError(v[5]), expansion |-> AsInteger[v[5]]]
      BY <2>3, <3>1 DEF ReserveExpansion
    <3>3. v[5] \in Token
      <4>1. 5 \in 1..Len(v)
        BY <2>3
      <4>. QED BY <1>1, <4>1
    <3>4. ExpansionError(v[5]) = Ok
      BY <1>5, <3>2
    <3>5. AsInteger[v[5]] \in Nat
      BY <3>3, <3>4, AcceptedInteger
    <3>. QED BY <3>2, <3>5
  <2>. QED BY <1>2, <2>1, <2>2, <2>3
<1>11. c0 \in CommandType /\ c0.items = <<>> /\ c0.scaleTo = Unset
  BY <1>7 DEF Command, CommandType
<1>. HIDE DEF c0, e
<1>12. c \in CommandType /\ c.items = <<>> /\ c.scaleTo = Unset
  BY <1>8, <1>9, <1>10, <1>11 DEF CommandType
<1>. HIDE DEF c
<1>. QED BY <1>6, <1>12 DEF Parsed

LEMMA ParserAccepts ==
  ASSUME NEW n \in CommandNames, NEW v, Composed(v), Parse(n, v).err = Ok
  PROVE  /\ Parse(n, v).cmd \in CommandType
         /\ n = "BF.ADD" => Len(Parse(n, v).cmd.items) = 1
         /\ n = "BF.MADD" => Parse(n, v).cmd.items # <<>>
         /\ n = "BF.RESERVE" => Parse(n, v).cmd.items = <<>>
         /\ n # "BF.INSERT" => Parse(n, v).cmd.scaleTo = Unset
<1>1. CASE n \in {"BF.ADD", "BF.MADD"}
  <2>1. Parse(n, v) = ParseAdd(n, v)
    BY <1>1 DEF Parse
  <2>. QED BY <1>1, <2>1, AddAccepts
<1>2. CASE n = "BF.RESERVE"
  <2>1. Parse(n, v) = ParseReserve(v)
    BY <1>2 DEF Parse
  <2>. QED BY <1>2, <2>1, ReserveAccepts
<1>3. CASE n = "BF.INSERT"
  <2>1. Parse(n, v) = ParseInsert(v)
    BY <1>3 DEF Parse
  <2>. QED BY <1>3, <2>1, InsertAccepts
<1>4. n \in {"BF.ADD", "BF.MADD"} \/ n = "BF.RESERVE" \/ n = "BF.INSERT"
  BY DEF CommandNames
<1>. QED BY <1>1, <1>2, <1>3, <1>4

(************************** the composing client ***************************)

LEMMA Composing ==
  ASSUME RequestsInv, [Next]_rvars
  PROVE  RequestsInv'
<1>1. CASE Compose
  <2>1. PICK t \in (IF args = <<>> THEN Key ELSE Token) : args' = Append(args, t)
    BY <1>1 DEF Compose
  <2>2. args \in Seq(Token) /\ t \in Token /\ name' = name
    BY <1>1, <2>1, TokenAssumption DEF Compose, RequestsInv, Composed
  <2>3. args' \in Seq(Token)
    BY <2>1, <2>2
  <2>4. args'[1] \in Key
    <3>1. CASE args = <<>>
      BY <2>1, <2>2, <3>1
    <3>2. CASE args # <<>>
      <4>1. args[1] \in Key /\ Len(args) \in Nat \ {0}
        BY <2>2, <3>2 DEF RequestsInv, Composed
      <4>2. Append(args, t)[1] = args[1]
        BY <2>2, <4>1
      <4>. QED BY <2>1, <4>1, <4>2
    <3>. QED BY <3>1, <3>2
  <2>. QED BY <2>2, <2>3, <2>4 DEF RequestsInv, Composed
<1>2. CASE Send
  BY <1>2 DEF Send, RequestsInv, Composed
<1>3. CASE UNCHANGED rvars
  BY <1>3 DEF rvars, RequestsInv, Composed
<1>. QED BY <1>1, <1>2, <1>3 DEF Next

LEMMA InitiallyComposed ==
  Init => RequestsInv
BY DEF Init, RequestsInv, Composed

\* The parsers of command_handler.rs let through only what the handlers are
\* written for, whatever the arguments: every property in its range, one item for
\* BF.ADD, at least one for BF.MADD, VALIDATESCALETO for BF.INSERT.  BloomServer and BloomReplication assume it of
\* their commands.
THEOREM ParsersAccept ==
  Spec => []AcceptedIsWellFormed
<1>1. Init => RequestsInv
  BY InitiallyComposed
<1>2. RequestsInv /\ [Next]_rvars => RequestsInv'
  BY Composing
<1>3. RequestsInv => AcceptedIsWellFormed
  <2>1. SUFFICES ASSUME RequestsInv, Parse(name, args).err = Ok
                 PROVE  /\ Parse(name, args).cmd \in CommandType
                        /\ name = "BF.ADD" => Len(Parse(name, args).cmd.items) = 1
                        /\ name = "BF.MADD" => Parse(name, args).cmd.items # <<>>
                        /\ name = "BF.RESERVE" => Parse(name, args).cmd.items = <<>>
                        /\ name # "BF.INSERT" => Parse(name, args).cmd.scaleTo = Unset
    BY DEF AcceptedIsWellFormed
  <2>. QED BY <2>1, ParserAccepts DEF RequestsInv
<1>. QED BY <1>1, <1>2, <1>3, PTL DEF Spec

(************************ the options of BF.INSERT *************************)

\* Where the option behind the one at j starts.
End(j) == j + Width(AsWord[args[j]])

Follows(i, S) == i = 2 \/ \E j \in S : AsWord[args[j]] # "ITEMS" /\ i = End(j)

LEMMA WidthIsOneOrTwo ==
  \A word : Width(word) \in {1, 2}
BY DEF Width

LEMMA OptionsFollow ==
  /\ Options \in SUBSET (2..Len(args))
  /\ \A i \in 2..Len(args) : i \in Options <=> Follows(i, Options)
<1> DEFINE D == 2..Len(args)
           Closed(C) == \A i \in D : Follows(i, C) => i \in C
           S == {i \in D : \A C \in SUBSET D : Closed(C) => i \in C}
           Q(C) == \A i \in D : i \in C <=> Follows(i, C)
<1>1. S \in SUBSET D
  OBVIOUS
<1>2. Closed(S)
  <2>1. SUFFICES ASSUME NEW i \in D, Follows(i, S), NEW C \in SUBSET D, Closed(C)
                 PROVE  i \in C
    OBVIOUS
  <2>2. S \subseteq C
    BY <2>1
  <2>3. Follows(i, C)
    BY <2>1, <2>2 DEF Follows
  <2>. QED BY <2>1, <2>3
<1>3. ASSUME NEW i \in S, ~ Follows(i, S) PROVE FALSE
  <2> DEFINE C == S \ {i}
  <2>1. ASSUME NEW k \in D, Follows(k, C) PROVE k \in C
    <3>1. Follows(k, S)
      BY <2>1 DEF Follows
    <3>. QED BY <1>2, <1>3, <2>1, <3>1
  <2>2. Closed(C) /\ C \in SUBSET D
    BY <2>1
  <2>. QED BY <1>3, <2>2
<1>4. Q(S)
  BY <1>1, <1>2, <1>3
<1> DEFINE chosen == CHOOSE C \in SUBSET D : Q(C)
<1>5. Options = chosen
  BY DEF Options, Follows, End
<1>. HIDE DEF D, Q, S
<1>6. chosen \in SUBSET D /\ Q(chosen)
  BY <1>1, <1>4
<1>. QED BY <1>5, <1>6 DEF D, Q

\* The options before n that are one of words.
Below(words, n) == {i \in Options : i < n /\ AsWord[args[i]] \in words}

\* n is where the parser stands: at an option all before it end by n, and none of
\* them is ITEMS; or behind the last argument.
ReadUpTo(n) ==
  /\ n \in 2..(Len(args) + 1)
  /\ n <= Len(args) =>
       n \in Options /\ \A j \in Options : j < n => AsWord[args[j]] # "ITEMS" /\ End(j) <= n

NextStart(n) == IF AsWord[args[n]] = "ITEMS" THEN Len(args) + 1 ELSE End(n)

LEMMA StartsReading ==
  ASSUME Len(args) \in Nat \ {0}
  PROVE  ReadUpTo(2) /\ \A words : Below(words, 2) = {}
<1>1. Options \in SUBSET (2..Len(args))
  BY OptionsFollow
<1>2. 2 <= Len(args) => 2 \in Options
  BY OptionsFollow DEF Follows
<1>3. \A j \in Options : j \in Nat /\ j >= 2
  BY <1>1
<1>4. ReadUpTo(2)
  BY <1>2, <1>3 DEF ReadUpTo
<1>5. \A words : Below(words, 2) = {}
  BY <1>3 DEF Below
<1>. QED BY <1>4, <1>5

\* Between an option and where the parser goes from it, no option starts.
LEMMA NoneBetween ==
  ASSUME Len(args) \in Nat \ {0}, NEW n \in 2..Len(args), ReadUpTo(n),
         NEW i \in Options, i > n, i < NextStart(n)
  PROVE  FALSE
<1> DEFINE T == {j \in Options : j > n /\ j < NextStart(n)}
<1>1. Options \in SUBSET (2..Len(args)) /\ Options \in SUBSET Nat
  BY OptionsFollow
<1>2. T \in SUBSET Nat /\ T # {}
  BY <1>1
<1>3. PICK x \in T : \A y \in T : x <= y
  BY <1>2, LeastNat
<1>4. x \in Options /\ x \in 2..Len(args) /\ x > n /\ x < NextStart(n) /\ x # 2
  BY <1>1, <1>3
<1>5. PICK j \in Options : AsWord[args[j]] # "ITEMS" /\ x = End(j)
  BY <1>4, OptionsFollow DEF Follows
<1>6. j \in Nat /\ j < x
  BY <1>1, <1>5, WidthIsOneOrTwo DEF End
<1>7. CASE j < n
  <2>1. End(j) <= n
    BY <1>7 DEF ReadUpTo
  <2>. QED BY <1>1, <1>4, <1>5, <2>1
<1>8. CASE j = n
  BY <1>4, <1>5, <1>8 DEF NextStart
<1>9. CASE j > n
  <2>1. NextStart(n) \in Int
    <3>1. Width(AsWord[args[n]]) \in Nat
      BY WidthIsOneOrTwo
    <3>. QED BY <3>1 DEF NextStart, End
  <2>2. j < NextStart(n)
    BY <1>4, <1>6, <2>1
  <2>3. j \in T
    BY <1>9, <2>2
  <2>. HIDE DEF T
  <2>4. x <= j
    BY <1>3, <2>3
  <2>. QED BY <1>4, <1>6, <2>4
<1>. QED BY <1>6, <1>7, <1>8, <1>9

\* A turn reads one option: the one it stood at.
LEMMA OneOptionRead ==
  ASSUME Len(args) \in Nat \ {0}, NEW n \in 2..Len(args), ReadUpTo(n),
         NextStart(n) \in 2..(Len(args) + 1)
  PROVE  /\ ReadUpTo(NextStart(n))
         /\ NextStart(n) > n
         /\ \A words : Below(words, NextStart(n)) =
                         IF AsWord[args[n]] \in words THEN Below(words, n) \union {n}
                         ELSE Below(words, n)
<1> DEFINE next == NextStart(n)
<1>1. Options \in SUBSET (2..Len(args)) /\ Options \in SUBSET Nat
  BY OptionsFollow
<1>2. n \in Options /\ \A j \in Options : j < n => AsWord[args[j]] # "ITEMS" /\ End(j) <= n
  BY DEF ReadUpTo
<1>3. next > n
  BY WidthIsOneOrTwo DEF NextStart, End
<1>4. \A j \in Options : j < next <=> j <= n
  BY <1>1, <1>3, NoneBetween
<1>5. ASSUME next <= Len(args)
      PROVE  next \in Options /\ \A j \in Options : j < next => AsWord[args[j]] # "ITEMS" /\ End(j) <= next
  <2>1. AsWord[args[n]] # "ITEMS" /\ next = End(n)
    BY <1>5 DEF NextStart
  <2>2. next \in Options
    <3>1. Follows(next, Options)
      BY <1>2, <2>1 DEF Follows
    <3>2. next \in 2..Len(args)
      BY <1>5
    <3>. QED BY <3>1, <3>2, OptionsFollow
  <2>3. ASSUME NEW j \in Options, j < next PROVE AsWord[args[j]] # "ITEMS" /\ End(j) <= next
    <3>1. j <= n /\ j \in Nat
      BY <1>1, <1>4, <2>3
    <3>2. CASE j = n
      BY <2>1, <3>2
    <3>3. CASE j < n
      <4>1. End(j) \in Nat
        BY <3>1, WidthIsOneOrTwo DEF End
      <4>. QED BY <1>2, <1>3, <3>3, <4>1
    <3>. QED BY <3>1, <3>2, <3>3
  <2>. QED BY <2>2, <2>3
<1>6. ReadUpTo(next)
  BY <1>5 DEF ReadUpTo
<1>. HIDE DEF next
<1>7. ASSUME NEW words
      PROVE  Below(words, next) = IF AsWord[args[n]] \in words THEN Below(words, n) \union {n}
                                  ELSE Below(words, n)
  <2>1. \A j \in Options : j < next <=> j < n \/ j = n
    BY <1>1, <1>4
  <2>. QED BY <1>2, <2>1 DEF Below
<1>. QED BY <1>3, <1>6, <1>7 DEF next

\* The option just read is the last of its kind.
LEMMA LastOfItsKind ==
  ASSUME Len(args) \in Nat \ {0}, NEW n \in 2..Len(args), NEW words
  PROVE  Max(Below(words, n) \union {n}) = n
<1>1. Options \in SUBSET (2..Len(args))
  BY OptionsFollow
<1>2. Below(words, n) \union {n} \in SUBSET (1..n)
  BY <1>1 DEF Below
<1>. HIDE DEF Below
<1>. QED BY <1>2, MaxIsGreatest

\* Behind the last argument everything has been read.
LEMMA AllRead ==
  ASSUME Len(args) \in Nat, NEW words
  PROVE  Below(words, Len(args) + 1) = Places(words)
<1>1. \A j \in Options : j < Len(args) + 1
  BY OptionsFollow
<1>. QED BY <1>1 DEF Below, Places

\* What the options before n say, read as LastOptionCounts reads all of them.
LastBelow(words, as, n) ==
  IF Below(words, n) = {} THEN Unset ELSE as[args[Max(Below(words, n)) + 1]]

ExpansionBelow(n) ==
  LET exp == Below({"EXPANSION", "NONSCALING"}, n)
  IN  IF exp # {} /\ AsWord[args[Max(exp)]] = "NONSCALING" THEN 0
      ELSE LastBelow({"EXPANSION"}, AsInteger, n)

ItemsBelow(n) ==
  IF Below({"ITEMS"}, n) = {} THEN <<>>
  ELSE SubSeq(args, Max(Below({"ITEMS"}, n)) + 1, Len(args))

Reflects(cmd, n) ==
  /\ cmd.fp = LastBelow({"ERROR"}, AsRate, n)
  /\ cmd.tr = LastBelow({"TIGHTENING"}, AsRate, n)
  /\ cmd.cap = LastBelow({"CAPACITY"}, AsInteger, n)
  /\ cmd.seed = LastBelow({"SEED"}, AsSeed, n)
  /\ cmd.scaleTo = LastBelow({"VALIDATESCALETO"}, AsInteger, n)
  /\ cmd.expansion = ExpansionBelow(n)
  /\ cmd.nocreate <=> Below({"NOCREATE"}, n) # {}
  /\ cmd.items = ItemsBelow(n)

LEMMA ReflectsNothing ==
  ASSUME Len(args) \in Nat \ {0}
  PROVE  Reflects(Command("BF.INSERT", args[1], <<>>), 2)
<1>1. \A words : Below(words, 2) = {}
  BY StartsReading
<1>. QED BY <1>1 DEF Reflects, LastBelow, ExpansionBelow, ItemsBelow, Command

\* What one more option changes.
LEMMA OptionAdded ==
  ASSUME Len(args) \in Nat \ {0}, NEW n \in 2..Len(args), ReadUpTo(n),
         NextStart(n) \in 2..(Len(args) + 1), NEW next, next = NextStart(n)
  PROVE  LET word == AsWord[args[n]]
         IN  /\ \A words, as :
                  LastBelow(words, as, next) = IF word \in words THEN as[args[n + 1]]
                                               ELSE LastBelow(words, as, n)
             /\ ExpansionBelow(next) =
                  IF word = "NONSCALING" THEN 0
                  ELSE IF word = "EXPANSION" THEN AsInteger[args[n + 1]]
                  ELSE ExpansionBelow(n)
             /\ ItemsBelow(next) = IF word = "ITEMS" THEN SubSeq(args, n + 1, Len(args))
                                   ELSE ItemsBelow(n)
             /\ Below({"NOCREATE"}, next) # {} <=>
                  word = "NOCREATE" \/ Below({"NOCREATE"}, n) # {}
<1> DEFINE word == AsWord[args[n]]
<1>1. \A words : Below(words, next) = IF word \in words THEN Below(words, n) \union {n}
                                      ELSE Below(words, n)
  BY OneOptionRead
<1>2. \A words : word \in words => Below(words, next) # {} /\ Max(Below(words, next)) = n
  <2>1. SUFFICES ASSUME NEW words, word \in words
                 PROVE  Below(words, next) # {} /\ Max(Below(words, next)) = n
    OBVIOUS
  <2>2. Below(words, next) = Below(words, n) \union {n}
    BY <1>1, <2>1
  <2>. QED BY <2>2, LastOfItsKind
<1>. HIDE DEF Below
<1>3. ASSUME NEW words, NEW as
      PROVE  LastBelow(words, as, next) = IF word \in words THEN as[args[n + 1]]
                                          ELSE LastBelow(words, as, n)
  BY <1>1, <1>2 DEF LastBelow
<1>4. ExpansionBelow(next) = IF word = "NONSCALING" THEN 0
                             ELSE IF word = "EXPANSION" THEN AsInteger[args[n + 1]]
                             ELSE ExpansionBelow(n)
  <2> DEFINE W == {"EXPANSION", "NONSCALING"}
  <2>1. CASE word = "NONSCALING"
    <3>1. Below(W, next) # {} /\ Max(Below(W, next)) = n
      BY <1>2, <2>1
    <3>. QED BY <2>1, <3>1 DEF ExpansionBelow
  <2>2. CASE word = "EXPANSION"
    <3>1. Below(W, next) # {} /\ Max(Below(W, next)) = n
      BY <1>2, <2>2
    <3>2. LastBelow({"EXPANSION"}, AsInteger, next) = AsInteger[args[n + 1]]
      BY <1>3, <2>2
    <3>. QED BY <2>2, <3>1, <3>2 DEF ExpansionBelow
  <2>3. CASE word \notin W
    <3>1. Below(W, next) = Below(W, n)
      BY <1>1, <2>3
    <3>2. LastBelow({"EXPANSION"}, AsInteger, next) = LastBelow({"EXPANSION"}, AsInteger, n)
      BY <1>3, <2>3
    <3>. QED BY <2>3, <3>1, <3>2 DEF ExpansionBelow
  <2>. QED BY <2>1, <2>2, <2>3
<1>5. ItemsBelow(next) = IF word = "ITEMS" THEN SubSeq(args, n + 1, Len(args)) ELSE ItemsBelow(n)
  BY <1>1, <1>2 DEF ItemsBelow
<1>6. Below({"NOCREATE"}, next) # {} <=> word = "NOCREATE" \/ Below({"NOCREATE"}, n) # {}
  BY <1>1, <1>2
<1>. QED BY <1>3, <1>4, <1>5, <1>6

LEMMA TurnReflects ==
  ASSUME args \in Seq(Token), NEW s \in Parsing(args), s.err = Ok, s.idx <= Len(args),
         ReadUpTo(s.idx), Reflects(s.cmd, s.idx),
         NEW u \in Parsing(args), u.err = Ok, TurnTaken(s, args, u)
  PROVE  ReadUpTo(u.idx) /\ Reflects(u.cmd, u.idx) /\ u.idx > s.idx
<1> DEFINE n == s.idx
           next == u.idx
           word == AsWord[args[n]]
<1>1. /\ n \in 2..Len(args) /\ Len(args) \in Nat \ {0} /\ next \in 2..(Len(args) + 1)
      /\ s.cmd \in CommandType
  BY DEF Parsing, ParserState
<1>2. next = NextStart(n)
  <2>1. CASE word \in DOMAIN Field
    <3>1. word \notin {"NONSCALING", "NOCREATE", "ITEMS"} /\ Width(word) = 2
      BY <2>1 DEF Field, Width
    <3>. QED BY <3>1 DEF TurnTaken, NextStart, End
  <2>2. CASE word \in {"NONSCALING", "NOCREATE", "ITEMS"}
    <3>1. word \notin DOMAIN Field /\ Width(word) = 1
      BY <2>2 DEF Field, Width
    <3>. QED BY <2>2, <3>1 DEF TurnTaken, NextStart, End
  <2>. QED BY <2>1, <2>2 DEF TurnTaken
<1>3. ReadUpTo(next) /\ next > n
  BY <1>1, <1>2, OneOptionRead
<1>4. /\ \A words, as :
           LastBelow(words, as, next) = IF word \in words THEN as[args[n + 1]]
                                        ELSE LastBelow(words, as, n)
      /\ ExpansionBelow(next) = IF word = "NONSCALING" THEN 0
                                ELSE IF word = "EXPANSION" THEN AsInteger[args[n + 1]]
                                ELSE ExpansionBelow(n)
      /\ ItemsBelow(next) = IF word = "ITEMS" THEN SubSeq(args, n + 1, Len(args))
                            ELSE ItemsBelow(n)
      /\ Below({"NOCREATE"}, next) # {} <=> word = "NOCREATE" \/ Below({"NOCREATE"}, n) # {}
  BY <1>1, <1>2, OptionAdded
<1>5. /\ LastBelow({"ERROR"}, AsRate, next) =
           IF word = "ERROR" THEN AsRate[args[n + 1]] ELSE LastBelow({"ERROR"}, AsRate, n)
      /\ LastBelow({"TIGHTENING"}, AsRate, next) =
           IF word = "TIGHTENING" THEN AsRate[args[n + 1]] ELSE LastBelow({"TIGHTENING"}, AsRate, n)
      /\ LastBelow({"CAPACITY"}, AsInteger, next) =
           IF word = "CAPACITY" THEN AsInteger[args[n + 1]] ELSE LastBelow({"CAPACITY"}, AsInteger, n)
      /\ LastBelow({"SEED"}, AsSeed, next) =
           IF word = "SEED" THEN AsSeed[args[n + 1]] ELSE LastBelow({"SEED"}, AsSeed, n)
      /\ LastBelow({"VALIDATESCALETO"}, AsInteger, next) =
           IF word = "VALIDATESCALETO" THEN AsInteger[args[n + 1]]
           ELSE LastBelow({"VALIDATESCALETO"}, AsInteger, n)
  BY <1>4
<1> DEFINE t == args[n + 1]
<1>6. \/ word = "NONSCALING" /\ u.cmd = [s.cmd EXCEPT !.expansion = 0]
      \/ word = "NOCREATE" /\ u.cmd = [s.cmd EXCEPT !.nocreate = TRUE]
      \/ word = "ITEMS" /\ u.cmd = [s.cmd EXCEPT !.items = SubSeq(args, n + 1, Len(args))]
      \/ word = "ERROR" /\ u.cmd = [s.cmd EXCEPT !.fp = AsRate[t]]
      \/ word = "TIGHTENING" /\ u.cmd = [s.cmd EXCEPT !.tr = AsRate[t]]
      \/ word = "CAPACITY" /\ u.cmd = [s.cmd EXCEPT !.cap = AsInteger[t]]
      \/ word = "SEED" /\ u.cmd = [s.cmd EXCEPT !.seed = AsSeed[t]]
      \/ word = "EXPANSION" /\ u.cmd = [s.cmd EXCEPT !.expansion = AsInteger[t]]
      \/ word = "VALIDATESCALETO" /\ u.cmd = [s.cmd EXCEPT !.scaleTo = AsInteger[t]]
  <2>1. CASE word \notin DOMAIN Field
    BY <2>1 DEF TurnTaken
  <2>2. CASE word \in DOMAIN Field
    <3>1. word \in {"ERROR", "TIGHTENING", "CAPACITY", "SEED", "EXPANSION", "VALIDATESCALETO"}
      BY <2>2 DEF Field
    <3>2. u.cmd = [s.cmd EXCEPT ![Field[word]] = ValueOf(word, t)]
      BY <3>1 DEF TurnTaken
    <3>. HIDE DEF word, t
    <3>3. Field[word] = CASE word = "ERROR" -> "fp" [] word = "TIGHTENING" -> "tr"
                          [] word = "CAPACITY" -> "cap" [] word = "SEED" -> "seed"
                          [] word = "EXPANSION" -> "expansion"
                          [] word = "VALIDATESCALETO" -> "scaleTo"
      BY <3>1 DEF Field
    <3>. QED BY <3>1, <3>2, <3>3 DEF ValueOf
  <2>. QED BY <2>1, <2>2
<1> DEFINE items == SubSeq(args, n + 1, Len(args))
<1>. HIDE DEF word, t, items
<1>7. /\ u.cmd.fp = IF word = "ERROR" THEN AsRate[t] ELSE s.cmd.fp
      /\ u.cmd.tr = IF word = "TIGHTENING" THEN AsRate[t] ELSE s.cmd.tr
      /\ u.cmd.cap = IF word = "CAPACITY" THEN AsInteger[t] ELSE s.cmd.cap
      /\ u.cmd.seed = IF word = "SEED" THEN AsSeed[t] ELSE s.cmd.seed
      /\ u.cmd.scaleTo = IF word = "VALIDATESCALETO" THEN AsInteger[t] ELSE s.cmd.scaleTo
      /\ u.cmd.expansion = IF word = "NONSCALING" THEN 0
                           ELSE IF word = "EXPANSION" THEN AsInteger[t] ELSE s.cmd.expansion
      /\ u.cmd.items = IF word = "ITEMS" THEN items ELSE s.cmd.items
      /\ u.cmd.nocreate = IF word = "NOCREATE" THEN TRUE ELSE s.cmd.nocreate
  BY <1>1, <1>6 DEF CommandType, items
<1>8. /\ s.cmd.fp = LastBelow({"ERROR"}, AsRate, n)
      /\ s.cmd.tr = LastBelow({"TIGHTENING"}, AsRate, n)
      /\ s.cmd.cap = LastBelow({"CAPACITY"}, AsInteger, n)
      /\ s.cmd.seed = LastBelow({"SEED"}, AsSeed, n)
      /\ s.cmd.scaleTo = LastBelow({"VALIDATESCALETO"}, AsInteger, n)
      /\ s.cmd.expansion = ExpansionBelow(n)
      /\ s.cmd.items = ItemsBelow(n)
  BY DEF Reflects
<1>9. s.cmd.nocreate <=> Below({"NOCREATE"}, n) # {}
  BY Zenon DEF Reflects
<1>10. u.cmd.nocreate <=> Below({"NOCREATE"}, next) # {}
  <2>1. Below({"NOCREATE"}, next) # {} <=> word = "NOCREATE" \/ Below({"NOCREATE"}, n) # {}
    BY <1>4 DEF word
  <2>2. u.cmd.nocreate = IF word = "NOCREATE" THEN TRUE ELSE s.cmd.nocreate
    BY <1>7
  <2>3. CASE word = "NOCREATE"
    BY <2>1, <2>2, <2>3, Zenon
  <2>4. CASE word # "NOCREATE"
    BY <1>9, <2>1, <2>2, <2>4, Zenon
  <2>. QED BY <2>3, <2>4
<1>11. ExpansionBelow(next) = IF word = "NONSCALING" THEN 0
                              ELSE IF word = "EXPANSION" THEN AsInteger[t] ELSE ExpansionBelow(n)
  BY <1>4 DEF word, t
<1>12. ItemsBelow(next) = IF word = "ITEMS" THEN items ELSE ItemsBelow(n)
  BY <1>4 DEF word, items
<1>. HIDE DEF n, next
<1>13. /\ u.cmd.fp = LastBelow({"ERROR"}, AsRate, next)
       /\ u.cmd.tr = LastBelow({"TIGHTENING"}, AsRate, next)
       /\ u.cmd.cap = LastBelow({"CAPACITY"}, AsInteger, next)
       /\ u.cmd.seed = LastBelow({"SEED"}, AsSeed, next)
       /\ u.cmd.scaleTo = LastBelow({"VALIDATESCALETO"}, AsInteger, next)
       /\ u.cmd.expansion = ExpansionBelow(next)
       /\ u.cmd.items = ItemsBelow(next)
  BY <1>5, <1>7, <1>8, <1>11, <1>12 DEF t
<1>14. Reflects(u.cmd, next)
  BY <1>10, <1>13, Zenon DEF Reflects
<1>. QED BY <1>3, <1>14 DEF n, next

LEMMA TurnsReflect ==
  ASSUME Composed(args), args # <<>>, NEW turn, TurnsOver(args, turn)
  PROVE  turn[Len(args)].err = Ok =>
           Reflects(turn[Len(args)].cmd, Len(args) + 1)
<1> DEFINE L == Len(args)
           Done(k) == turn[k].err = Ok =>
                        /\ ReadUpTo(turn[k].idx) /\ Reflects(turn[k].cmd, turn[k].idx)
                        /\ turn[k].idx > k + 1 \/ turn[k].idx = L + 1
           T == {k \in Nat : k <= L => Done(k)}
<1>1. args \in Seq(Token) /\ L \in Nat \ {0}
  BY DEF Composed
<1>2. /\ turn[0] = StartOf(args)
      /\ \A k \in 0..L : turn[k] \in Parsing(args)
      /\ \A k \in 1..L : turn[k] = InsertTurn(turn[k - 1], args)
  BY DEF TurnsOver
<1>3. 0 \in T
  <2>1. turn[0].idx = 2 /\ turn[0].cmd = Command("BF.INSERT", args[1], <<>>)
    BY <1>2 DEF StartOf
  <2>2. Done(0)
    BY <1>1, <2>1, StartsReading, ReflectsNothing
  <2>. QED BY <2>2
<1>4. ASSUME NEW k \in Nat, k \in T PROVE k + 1 \in T
  <2>1. SUFFICES ASSUME k + 1 <= L, turn[k + 1].err = Ok PROVE Done(k + 1)
    OBVIOUS
  <2> DEFINE s == turn[k]
             u == turn[k + 1]
  <2>2. k \in 0..L /\ k + 1 \in 1..L /\ k + 1 \in 0..L /\ (k + 1) - 1 = k
    BY <1>1, <2>1
  <2>3. s \in Parsing(args) /\ u \in Parsing(args) /\ u = InsertTurn(s, args)
    BY <1>2, <2>2
  <2>. HIDE DEF s, u
  <2>4. s.idx \in Nat
    BY <2>3 DEF Parsing, ParserState
  <2>5. CASE s.err # Ok \/ s.idx > L
    <3>1. u = s
      BY <1>1, <2>3, <2>5, InsertTurnOutcome
    <3>2. ReadUpTo(s.idx) /\ Reflects(s.cmd, s.idx) /\ s.idx = L + 1
      <4>1. s.err = Ok
        BY <2>1, <3>1 DEF u
      <4>2. ReadUpTo(s.idx) /\ Reflects(s.cmd, s.idx)
        BY <1>1, <1>4, <2>2, <4>1 DEF s
      <4>3. s.idx <= L + 1
        BY <2>3, <4>1 DEF Parsing
      <4>. QED BY <1>1, <2>4, <2>5, <4>1, <4>2, <4>3
    <3>. QED BY <3>1, <3>2 DEF u
  <2>6. CASE s.err = Ok /\ s.idx <= L
    <3>1. TurnTaken(s, args, u)
      BY <1>1, <2>1, <2>3, <2>6, InsertTurnOutcome DEF u
    <3>2. ReadUpTo(s.idx) /\ Reflects(s.cmd, s.idx) /\ (s.idx > k + 1 \/ s.idx = L + 1)
      BY <1>1, <1>4, <2>2, <2>6 DEF s
    <3>3. ReadUpTo(u.idx) /\ Reflects(u.cmd, u.idx) /\ u.idx > s.idx
      <4>1. u.err = Ok
        BY <2>1 DEF u
      <4>. QED BY <1>1, <2>3, <2>6, <3>1, <3>2, <4>1, TurnReflects
    <3>4. u.idx \in Nat
      BY <2>3 DEF Parsing, ParserState
    <3>5. u.idx > (k + 1) + 1
      BY <1>1, <2>4, <2>6, <3>2, <3>3, <3>4
    <3>. QED BY <3>3, <3>5 DEF u
  <2>. QED BY <1>1, <2>4, <2>5, <2>6
<1>5. Nat \subseteq T
  <2>. HIDE DEF T
  <2>. QED BY <1>3, <1>4, SetInduction
<1>6. Done(L) /\ L \in 0..L
  BY <1>1, <1>5
<1>7. turn[L] \in Parsing(args)
  BY <1>2, <1>6
<1>8. ASSUME turn[L].err = Ok PROVE turn[L].idx = L + 1
  <2>1. turn[L].idx <= L + 1 /\ turn[L].idx \in Nat
    BY <1>7, <1>8 DEF Parsing, ParserState
  <2>. QED BY <1>1, <1>6, <1>8, <2>1
<1>. QED BY <1>6, <1>8

LEMMA InsertReadsLast ==
  ASSUME Composed(args), ParseInsert(args).err = Ok
  PROVE  Reflects(ParseInsert(args).cmd, Len(args) + 1)
<1>1. args # <<>>
  BY DEF ParseInsert, Refused, Ok
<1>2. PICK turn :
         /\ TurnsOver(args, turn)
         /\ ParseInsert(args) = IF turn[Len(args)].err # Ok THEN Refused(turn[Len(args)].err)
                                ELSE Parsed(turn[Len(args)].cmd)
  BY <1>1, ParseSteps
<1>3. turn[Len(args)].err = Ok /\ ParseInsert(args).cmd = turn[Len(args)].cmd
  BY <1>2 DEF Refused, Parsed
<1>. QED BY <1>1, <1>2, <1>3, TurnsReflect

\* bloom_filter_insert (command_handler.rs:498) reads its options in any order and
\* any number: of each kind the last one counts, NONSCALING and EXPANSION being of
\* one kind, and all that follows the first ITEMS are items.
THEOREM LastOptionOfEachKind ==
  Spec => []LastOptionCounts
<1>1. Init => RequestsInv
  BY InitiallyComposed
<1>2. RequestsInv /\ [Next]_rvars => RequestsInv'
  BY Composing
<1>3. RequestsInv => LastOptionCounts
  <2>1. SUFFICES ASSUME RequestsInv, name = "BF.INSERT", Parse(name, args).err = Ok
                 PROVE  LastOptionCounts
    BY DEF LastOptionCounts
  <2> DEFINE cmd == Parse(name, args).cmd
             exp == Places({"EXPANSION", "NONSCALING"})
  <2>2. Composed(args) /\ Len(args) \in Nat
    BY <2>1 DEF RequestsInv, Composed
  <2>3. Parse(name, args) = ParseInsert(args)
    BY <2>1 DEF Parse
  <2>4. Reflects(cmd, Len(args) + 1)
    BY <2>1, <2>2, <2>3, InsertReadsLast
  <2>5. \A words : Below(words, Len(args) + 1) = Places(words)
    BY <2>2, AllRead
  <2>6. \A words, as : LastBelow(words, as, Len(args) + 1) = LastValue(words, as)
    <3>1. SUFFICES ASSUME NEW words, NEW as
                   PROVE  LastBelow(words, as, Len(args) + 1) = LastValue(words, as)
      OBVIOUS
    <3>2. Below(words, Len(args) + 1) = Places(words)
      BY <2>5
    <3>. HIDE DEF Below, Places
    <3>. QED BY <3>2, Zenon DEF LastBelow, LastValue
  <2>7. ExpansionBelow(Len(args) + 1) =
          IF exp # {} /\ AsWord[args[Max(exp)]] = "NONSCALING" THEN 0
          ELSE LastValue({"EXPANSION"}, AsInteger)
    BY <2>5, <2>6 DEF ExpansionBelow
  <2>8. ItemsBelow(Len(args) + 1) = IF Places({"ITEMS"}) = {} THEN <<>>
                                    ELSE SubSeq(args, Max(Places({"ITEMS"})) + 1, Len(args))
    BY <2>5 DEF ItemsBelow
  <2>. HIDE DEF cmd, exp
  <2>9. /\ cmd.fp = LastValue({"ERROR"}, AsRate)
        /\ cmd.tr = LastValue({"TIGHTENING"}, AsRate)
        /\ cmd.cap = LastValue({"CAPACITY"}, AsInteger)
        /\ cmd.seed = LastValue({"SEED"}, AsSeed)
        /\ cmd.scaleTo = LastValue({"VALIDATESCALETO"}, AsInteger)
        /\ cmd.expansion = ExpansionBelow(Len(args) + 1)
        /\ cmd.items = ItemsBelow(Len(args) + 1)
    BY <2>4, <2>6 DEF Reflects
  <2>10. cmd.nocreate <=> Places({"NOCREATE"}) # {}
    BY <2>4, <2>5, Zenon DEF Reflects
  <2>. QED BY <2>7, <2>8, <2>9, <2>10, Zenon DEF LastOptionCounts, cmd, exp
<1>. QED BY <1>1, <1>2, <1>3, PTL DEF Spec

(****************** what a creation is propagated as ************************)

LEMMA TokenFound ==
  ASSUME NEW as, NEW x, \E t \in Token : as[t] = x
  PROVE  TokenFor(as, x) \in Token /\ as[TokenFor(as, x)] = x
BY DEF TokenFor

\* A command with every property that a creation propagates, each of which can be
\* spelled; its items are tokens already.
Spellable(c) ==
  /\ c \in CommandType /\ c.name = "BF.INSERT" /\ c.items \in Seq(Token)
  /\ c.scaleTo = Unset /\ ~ c.nocreate
  /\ c.cap # Unset /\ \E t \in Token : AsInteger[t] = c.cap
  /\ c.fp # Unset /\ \E t \in Token : AsRate[t] = c.fp
  /\ c.tr # Unset /\ \E t \in Token : AsRate[t] = c.tr
  /\ c.seed # Unset /\ \E t \in Token : AsSeed[t] = c.seed
  /\ c.expansion \in 0..ExpansionMax
  /\ c.expansion # 0 => \E t \in Token : AsInteger[t] = c.expansion

WordsSpelled ==
  \A w \in {"CAPACITY", "ERROR", "TIGHTENING", "SEED", "NONSCALING", "EXPANSION", "ITEMS"} :
    \E t \in Token : AsWord[t] = w

\* The options of a rendered command, where they stand and how they are read.
RenderedOptions(c, v) ==
  /\ v \in Seq(Token) /\ Len(v) >= 10 /\ v[1] = c.key
  /\ AsWord[v[2]] = "CAPACITY" /\ AsInteger[v[3]] = c.cap
  /\ AsWord[v[4]] = "ERROR" /\ AsRate[v[5]] = c.fp
  /\ AsWord[v[6]] = "TIGHTENING" /\ AsRate[v[7]] = c.tr
  /\ AsWord[v[8]] = "SEED" /\ AsSeed[v[9]] = c.seed

RenderedRest(c, v) ==
  \E n \in {11, 12} :
    /\ n <= Len(v) + 1
    /\ IF n = 11 THEN c.expansion = 0 /\ AsWord[v[10]] = "NONSCALING"
       ELSE /\ c.expansion # 0
            /\ AsWord[v[10]] = "EXPANSION" /\ AsInteger[v[11]] = c.expansion
    /\ IF c.items = <<>> THEN Len(v) + 1 = n
       ELSE /\ n < Len(v) /\ AsWord[v[n]] = "ITEMS"
            /\ SubSeq(v, n + 1, Len(v)) = c.items

LEMMA Joined ==
  ASSUME NEW p \in Seq(Token), NEW q \in Seq(Token)
  PROVE  /\ p \o q \in Seq(Token) /\ Len(p \o q) = Len(p) + Len(q)
         /\ \A i \in 1..Len(p) : (p \o q)[i] = p[i]
         /\ \A i \in 1..Len(q) : (p \o q)[Len(p) + i] = q[i]
<1>1. Len(p) \in Nat /\ Len(q) \in Nat
  OBVIOUS
<1>2. p \o q \in Seq(Token) /\ Len(p \o q) = Len(p) + Len(q)
  OBVIOUS
<1>3. ASSUME NEW i \in 1..Len(p) PROVE (p \o q)[i] = p[i]
  OBVIOUS
<1>4. ASSUME NEW i \in 1..Len(q) PROVE (p \o q)[Len(p) + i] = q[i]
  <2>1. Len(p) + i \in 1..(Len(p) + Len(q)) /\ ~ (Len(p) + i <= Len(p)) /\ (Len(p) + i) - Len(p) = i
    BY <1>1
  <2>. QED BY <2>1
<1>. QED BY <1>2, <1>3, <1>4

LEMMA RenderedReads ==
  ASSUME NEW c, Spellable(c), WordsSpelled
  PROVE  RenderedOptions(c, Rendered(c)) /\ RenderedRest(c, Rendered(c))
<1> DEFINE v == Rendered(c)
           W(w) == TokenFor(AsWord, w)
           head == <<c.key, W("CAPACITY"), TokenFor(AsInteger, c.cap),
                     W("ERROR"), TokenFor(AsRate, c.fp),
                     W("TIGHTENING"), TokenFor(AsRate, c.tr),
                     W("SEED"), TokenFor(AsSeed, c.seed)>>
           exp == ExpansionArguments(c)
           announced == IF c.items = <<>> THEN <<>> ELSE <<W("ITEMS")>>
<1>1. \A w \in {"CAPACITY", "ERROR", "TIGHTENING", "SEED", "NONSCALING", "EXPANSION", "ITEMS"} :
        W(w) \in Token /\ AsWord[W(w)] = w
  <2>. HIDE DEF W
  <2>1. \A w : (\E t \in Token : AsWord[t] = w) => W(w) \in Token /\ AsWord[W(w)] = w
    BY TokenFound DEF W
  <2>. QED BY <2>1 DEF WordsSpelled
<1>2. /\ TokenFor(AsInteger, c.cap) \in Token /\ AsInteger[TokenFor(AsInteger, c.cap)] = c.cap
      /\ TokenFor(AsRate, c.fp) \in Token /\ AsRate[TokenFor(AsRate, c.fp)] = c.fp
      /\ TokenFor(AsRate, c.tr) \in Token /\ AsRate[TokenFor(AsRate, c.tr)] = c.tr
      /\ TokenFor(AsSeed, c.seed) \in Token /\ AsSeed[TokenFor(AsSeed, c.seed)] = c.seed
      /\ c.expansion # 0 => /\ TokenFor(AsInteger, c.expansion) \in Token
                            /\ AsInteger[TokenFor(AsInteger, c.expansion)] = c.expansion
  BY TokenFound DEF Spellable
<1>3. c.key \in Token /\ c.items \in Seq(Token)
  BY TokenAssumption DEF Spellable, CommandType
<1>4. v = head \o exp \o announced \o c.items
  BY DEF Rendered
<1>5. head \in Seq(Token) /\ Len(head) = 9
  BY <1>1, <1>2, <1>3
<1>6. /\ exp \in Seq(Token)
      /\ c.expansion = 0 => Len(exp) = 1 /\ AsWord[exp[1]] = "NONSCALING"
      /\ c.expansion # 0 => /\ Len(exp) = 2 /\ AsWord[exp[1]] = "EXPANSION"
                            /\ AsInteger[exp[2]] = c.expansion
  <2>1. CASE c.expansion = 0
    BY <1>1, <2>1 DEF ExpansionArguments
  <2>2. CASE c.expansion # 0
    BY <1>1, <1>2, <2>2 DEF ExpansionArguments
  <2>. QED BY <2>1, <2>2
<1>7. /\ announced \in Seq(Token)
      /\ c.items = <<>> => Len(announced) = 0
      /\ c.items # <<>> => Len(announced) = 1 /\ AsWord[announced[1]] = "ITEMS"
  BY <1>1
<1>8. /\ head[1] = c.key
      /\ AsWord[head[2]] = "CAPACITY" /\ AsInteger[head[3]] = c.cap
      /\ AsWord[head[4]] = "ERROR" /\ AsRate[head[5]] = c.fp
      /\ AsWord[head[6]] = "TIGHTENING" /\ AsRate[head[7]] = c.tr
      /\ AsWord[head[8]] = "SEED" /\ AsSeed[head[9]] = c.seed
  BY <1>1, <1>2
<1>. HIDE DEF head, exp, announced, v, W
<1> DEFINE a == head \o exp
           b == a \o announced
           k == Len(exp)
           m == Len(announced)
           l == Len(c.items)
<1>9. /\ a \in Seq(Token) /\ Len(a) = 9 + k
      /\ \A i \in 1..9 : a[i] = head[i]
      /\ \A i \in 1..k : a[9 + i] = exp[i]
  <2>1. /\ a \in Seq(Token) /\ Len(a) = Len(head) + Len(exp)
        /\ \A i \in 1..Len(head) : a[i] = head[i]
        /\ \A i \in 1..Len(exp) : a[Len(head) + i] = exp[i]
    <3>. HIDE DEF a
    <3>. QED BY <1>5, <1>6, Joined DEF a
  <2>. QED BY <1>5, <2>1
<1>. HIDE DEF a
<1>10. /\ b \in Seq(Token) /\ Len(b) = Len(a) + m
       /\ \A i \in 1..Len(a) : b[i] = a[i]
       /\ \A i \in 1..m : b[Len(a) + i] = announced[i]
  BY <1>7, <1>9, Joined
<1>. HIDE DEF b
<1>11. /\ v \in Seq(Token) /\ Len(v) = Len(b) + l
       /\ \A i \in 1..Len(b) : v[i] = b[i]
       /\ \A i \in 1..l : v[Len(b) + i] = c.items[i]
  <2>1. v = b \o c.items
    BY <1>4 DEF a, b
  <2>. QED BY <1>3, <1>10, <2>1, Joined
<1>12. k \in 1..2 /\ m \in 0..1 /\ l \in Nat
  BY <1>3, <1>6, <1>7
<1>. HIDE DEF k, m, l
<1>13. Len(a) = 9 + k /\ Len(b) = 9 + k + m /\ Len(v) = 9 + k + m + l
  BY <1>9, <1>10, <1>11, <1>12
<1>14. \A i \in 1..9 : v[i] = head[i]
  <2>1. \A i \in 1..9 : i \in 1..Len(a) /\ i \in 1..Len(b)
    BY <1>12, <1>13
  <2>. QED BY <1>9, <1>10, <1>11, <2>1
<1>15. RenderedOptions(c, v)
  <2>1. 9 + k + m + l >= 10
    BY <1>12
  <2>2. Len(v) >= 10
    BY <1>13, <2>1
  <2>3. /\ v[1] = head[1] /\ v[2] = head[2] /\ v[3] = head[3] /\ v[4] = head[4] /\ v[5] = head[5]
        /\ v[6] = head[6] /\ v[7] = head[7] /\ v[8] = head[8] /\ v[9] = head[9]
    BY <1>14
  <2>. QED BY <1>8, <1>11, <2>2, <2>3 DEF RenderedOptions
<1>16. \A i \in 1..k : v[9 + i] = exp[i]
  <2>1. \A i \in 1..k : 9 + i \in 1..(9 + k) /\ 9 + i \in 1..(9 + k + m)
    BY <1>12
  <2>. QED BY <1>9, <1>10, <1>11, <1>13, <2>1
<1>17. \A i \in 1..m : v[9 + k + i] = announced[i]
  <2>1. \A i \in 1..m : 9 + k + i \in 1..(9 + k + m)
    BY <1>12
  <2>. QED BY <1>10, <1>11, <1>13, <2>1
<1>18. SubSeq(v, 9 + k + m + 1, 9 + k + m + l) = c.items
  <2>1. v = b \o c.items
    BY <1>4 DEF a, b
  <2>2. 9 + k + m \in Nat
    BY <1>12
  <2>3. SubSeq(v, Len(b) + 1, Len(b) + Len(c.items)) = c.items
    BY <1>3, <1>10, <2>1
  <2>. QED BY <1>13, <2>3 DEF l
<1> DEFINE n == 10 + k
<1>19. n \in {11, 12} /\ n <= 9 + k + m + l + 1
  BY <1>12
<1>20. IF n = 11 THEN c.expansion = 0 /\ AsWord[v[10]] = "NONSCALING"
       ELSE c.expansion # 0 /\ AsWord[v[10]] = "EXPANSION" /\ AsInteger[v[11]] = c.expansion
  <2>1. CASE c.expansion = 0
    <3>1. k = 1
      BY <1>6, <2>1 DEF k
    <3>2. v[9 + 1] = exp[1] /\ n = 11
      BY <1>16, <3>1
    <3>. QED BY <1>6, <2>1, <3>2
  <2>2. CASE c.expansion # 0
    <3>1. k = 2
      BY <1>6, <2>2 DEF k
    <3>2. v[9 + 1] = exp[1] /\ v[9 + 2] = exp[2] /\ n = 12
      BY <1>16, <3>1
    <3>. QED BY <1>6, <2>2, <3>2
  <2>. QED BY <2>1, <2>2
<1>21. IF c.items = <<>> THEN Len(v) + 1 = n
       ELSE n < Len(v) /\ AsWord[v[n]] = "ITEMS" /\ SubSeq(v, n + 1, Len(v)) = c.items
  <2>1. CASE c.items = <<>>
    <3>1. l = 0 /\ m = 0
      BY <1>7, <2>1 DEF l, m
    <3>2. 9 + k + 0 + 0 + 1 = 10 + k
      BY <1>12
    <3>. QED BY <1>13, <2>1, <3>1, <3>2
  <2>2. CASE c.items # <<>>
    <3>1. m = 1 /\ AsWord[announced[1]] = "ITEMS" /\ l > 0
      BY <1>3, <1>7, <2>2 DEF m, l
    <3>2. v[9 + k + 1] = announced[1] /\ 9 + k + 1 = n
      BY <1>12, <1>17, <3>1
    <3>3. 9 + k + m = n /\ n < 9 + k + m + l
      BY <1>12, <3>1
    <3>4. SubSeq(v, n + 1, Len(v)) = c.items
      BY <1>13, <1>18, <3>3
    <3>. QED BY <1>13, <2>2, <3>1, <3>2, <3>3, <3>4
  <2>. QED BY <2>1, <2>2
<1>22. n <= Len(v) + 1
  BY <1>13, <1>19
<1>. HIDE DEF n
<1>23. RenderedRest(c, v)
  BY <1>19, <1>20, <1>21, <1>22 DEF RenderedRest
<1>. QED BY <1>15, <1>23 DEF v

\* A turn over an option whose value is accepted.
LEMMA OptionTurn ==
  ASSUME NEW v \in Seq(Token), NEW s \in Parsing(v), s.err = Ok, s.idx < Len(v),
         NEW word \in DOMAIN Field, AsWord[v[s.idx]] = word,
         ValueError(word, v[s.idx + 1]) = Ok
  PROVE  LET u == InsertTurn(s, v)
         IN  /\ u \in Parsing(v) /\ u.err = Ok /\ u.idx = s.idx + 2
             /\ u.cmd = [s.cmd EXCEPT ![Field[word]] = ValueOf(word, v[s.idx + 1])]
<1> DEFINE u == InsertTurn(s, v)
           x == ValueOf(word, v[s.idx + 1])
<1>1. s \in ParserState /\ s.idx \in Nat /\ Len(v) \in Nat
  BY DEF Parsing, ParserState
<1>2. word \in {"ERROR", "TIGHTENING", "CAPACITY", "SEED", "EXPANSION", "VALIDATESCALETO"}
  BY DEF Field
<1>3. u = [s EXCEPT !.err = ValueError(word, v[s.idx + 1]), !.cmd[Field[word]] = x,
                    !.idx = s.idx + 1 + 1]
  BY <1>1, <1>2 DEF InsertTurn
<1>. HIDE DEF x
<1>4. u.err = Ok
  <2>. HIDE DEF u
  <2>. QED BY <1>1, <1>3 DEF ParserState
<1>5. u \in Parsing(v) /\ TurnTaken(s, v, u)
  <2>1. s.idx <= Len(v)
    BY <1>1
  <2>. QED BY <1>4, <2>1, InsertTurnOutcome
<1>. HIDE DEF u
<1>6. u.cmd = [s.cmd EXCEPT ![Field[word]] = x] /\ u.idx = s.idx + 2
  BY <1>2, <1>5 DEF TurnTaken, x
<1>. QED BY <1>4, <1>5, <1>6 DEF u, x

LEMMA OptionTurnAt ==
  ASSUME NEW v \in Seq(Token), NEW s \in Parsing(v), s.err = Ok, s.idx < Len(v),
         NEW i, s.idx = i, NEW j, j = i + 1, NEW word \in DOMAIN Field, AsWord[v[i]] = word,
         ValueError(word, v[j]) = Ok,
         NEW f, f = Field[word], NEW x, x = ValueOf(word, v[j]), NEW u, u = InsertTurn(s, v),
         NEW c, c = s.cmd
  PROVE  u.err = Ok /\ u.idx = i + 2 /\ u.cmd = [c EXCEPT ![f] = x]
<1>1. ValueError(word, v[s.idx + 1]) = Ok /\ AsWord[v[s.idx]] = word
  OBVIOUS
<1>2. LET w == InsertTurn(s, v)
      IN  /\ w \in Parsing(v) /\ w.err = Ok /\ w.idx = s.idx + 2
          /\ w.cmd = [s.cmd EXCEPT ![Field[word]] = ValueOf(word, v[s.idx + 1])]
  BY <1>1, OptionTurn
<1>. QED BY <1>2

\* The turns that are left when the last argument has been read do nothing.
LEMMA TurnsEnd ==
  ASSUME NEW v \in Seq(Token), NEW turn, TurnsOver(v, turn), NEW k \in 0..Len(v),
         turn[k].err = Ok, turn[k].idx > Len(v)
  PROVE  turn[Len(v)] = turn[k]
<1> DEFINE s == turn[k]
           T == {i \in Nat : k + i <= Len(v) => turn[k + i] = s}
<1>1. Len(v) \in Nat /\ k \in Nat /\ s \in Parsing(v)
  BY DEF TurnsOver
<1>2. InsertTurn(s, v) = s
  <2>. HIDE DEF s
  <2>1. s.err = Ok /\ s.idx > Len(v)
    BY DEF s
  <2>. QED BY <1>1, <2>1, InsertTurnOutcome
<1>3. 0 \in T
  BY <1>1
<1>4. ASSUME NEW i \in Nat, i \in T PROVE i + 1 \in T
  <2>1. SUFFICES ASSUME k + (i + 1) <= Len(v) PROVE turn[k + (i + 1)] = s
    OBVIOUS
  <2>2. k + (i + 1) \in 1..Len(v) /\ (k + (i + 1)) - 1 = k + i /\ k + i <= Len(v)
    BY <1>1, <2>1
  <2>3. turn[k + i] = s
    BY <1>4, <2>2
  <2>4. turn[k + (i + 1)] = InsertTurn(turn[k + i], v)
    BY <2>2 DEF TurnsOver
  <2>. QED BY <1>2, <2>3, <2>4
<1>5. Nat \subseteq T
  <2>. HIDE DEF T
  <2>. QED BY <1>3, <1>4, SetInduction
<1>6. Len(v) - k \in Nat /\ k + (Len(v) - k) = Len(v)
  BY <1>1
<1>7. Len(v) - k \in T
  <2>. HIDE DEF T
  <2>. QED BY <1>5, <1>6
<1>. QED BY <1>1, <1>6, <1>7

\* Two commands with the same fields are one.
LEMMA SameCommand ==
  ASSUME NEW c \in CommandType, NEW d \in CommandType,
         c.name = d.name, c.key = d.key, c.items = d.items, c.fp = d.fp, c.tr = d.tr,
         c.cap = d.cap, c.seed = d.seed, c.expansion = d.expansion, c.scaleTo = d.scaleTo,
         c.nocreate <=> d.nocreate, c.dump = d.dump
  PROVE  c = d
<1>1. c.nocreate = d.nocreate
  BY DEF CommandType
<1>. QED BY <1>1 DEF CommandType

LEMMA EmptyItems ==
  ASSUME NEW c \in CommandType, c.items = <<>>
  PROVE  [c EXCEPT !.items = <<>>] = c
<1> DEFINE d == [c EXCEPT !.items = <<>>]
<1>1. d \in CommandType
  BY DEF CommandType
<1>2. /\ c.name = d.name /\ c.key = d.key /\ c.items = d.items /\ c.fp = d.fp /\ c.tr = d.tr
      /\ c.cap = d.cap /\ c.seed = d.seed /\ c.expansion = d.expansion
      /\ c.scaleTo = d.scaleTo /\ (c.nocreate <=> d.nocreate) /\ c.dump = d.dump
  BY DEF CommandType
<1>. HIDE DEF d
<1>3. c = d
  BY <1>1, <1>2, SameCommand
<1>. QED BY <1>3 DEF d

LEMMA SpelledValues ==
  ASSUME NEW c, Spellable(c), NEW v, RenderedOptions(c, v)
  PROVE  /\ ValueError("CAPACITY", v[3]) = Ok /\ ValueOf("CAPACITY", v[3]) = c.cap
         /\ ValueError("ERROR", v[5]) = Ok /\ ValueOf("ERROR", v[5]) = c.fp
         /\ ValueError("TIGHTENING", v[7]) = Ok /\ ValueOf("TIGHTENING", v[7]) = c.tr
         /\ ValueError("SEED", v[9]) = Ok /\ ValueOf("SEED", v[9]) = c.seed
         /\ \A t : AsInteger[t] = c.expansion /\ c.expansion # 0 =>
              ValueError("EXPANSION", t) = Ok /\ ValueOf("EXPANSION", t) = c.expansion
<1>1. /\ c.cap \in 1..CapacityMax /\ c.fp \in Nat \ {0} /\ c.tr \in Nat \ {0} /\ c.seed \in Seeds
      /\ c.expansion \in 0..ExpansionMax
  BY DEF Spellable, CommandType
<1>2. ExpansionMax \in Nat /\ CapacityMax \in Nat
  BY TokenAssumption, SizesAreNatural, SizeAssumption
<1>3. Malformed \notin Int /\ Outside \notin Int /\ Malformed \notin Seeds
  BY TokenAssumption
<1>4. /\ AsInteger[v[3]] = c.cap /\ AsRate[v[5]] = c.fp /\ AsRate[v[7]] = c.tr
      /\ AsSeed[v[9]] = c.seed
  BY DEF RenderedOptions
<1>5. CapacityError(v[3]) = Ok
  <2>1. AsInteger[v[3]] # Malformed /\ AsInteger[v[3]] # 0 /\ AsInteger[v[3]] \in 1..CapacityMax
    BY <1>1, <1>2, <1>3, <1>4
  <2>. QED BY <2>1 DEF CapacityError
<1>6. \A range, bad : RateError(v[5], range, bad) = Ok /\ RateError(v[7], range, bad) = Ok
  <2>1. /\ AsRate[v[5]] # Malformed /\ AsRate[v[5]] # Outside
        /\ AsRate[v[7]] # Malformed /\ AsRate[v[7]] # Outside
    BY <1>1, <1>3, <1>4
  <2>. QED BY <2>1 DEF RateError
<1>7. AsSeed[v[9]] # Malformed
  BY <1>1, <1>3, <1>4
<1>8. ASSUME NEW t, AsInteger[t] = c.expansion, c.expansion # 0 PROVE ExpansionError(t) = Ok
  <2>1. AsInteger[t] # Malformed /\ AsInteger[t] \in 1..ExpansionMax
    BY <1>1, <1>2, <1>3, <1>8
  <2>. QED BY <2>1 DEF ExpansionError
<1>9. ValueError("CAPACITY", v[3]) = Ok /\ ValueOf("CAPACITY", v[3]) = c.cap
  BY <1>4, <1>5 DEF ValueError, ValueOf
<1>10. ValueError("ERROR", v[5]) = Ok /\ ValueOf("ERROR", v[5]) = c.fp
  BY <1>4, <1>6 DEF ValueError, ValueOf
<1>11. ValueError("TIGHTENING", v[7]) = Ok /\ ValueOf("TIGHTENING", v[7]) = c.tr
  BY <1>4, <1>6 DEF ValueError, ValueOf
<1>12. ValueError("SEED", v[9]) = Ok /\ ValueOf("SEED", v[9]) = c.seed
  BY <1>4, <1>7 DEF ValueError, ValueOf
<1>13. ASSUME NEW t, AsInteger[t] = c.expansion, c.expansion # 0
       PROVE  ValueError("EXPANSION", t) = Ok /\ ValueOf("EXPANSION", t) = c.expansion
  BY <1>8, <1>13 DEF ValueError, ValueOf
<1>. QED BY <1>9, <1>10, <1>11, <1>12, <1>13

\* What a creation is propagated as is parsed to the command that it spells.
LEMMA RenderedIsParsed ==
  ASSUME NEW c, Spellable(c), NEW v, Composed(v), RenderedOptions(c, v), RenderedRest(c, v)
  PROVE  ParseInsert(v) = Parsed(c)
<1> DEFINE L == Len(v)
           c0 == Command("BF.INSERT", v[1], <<>>)
           c1 == [c0 EXCEPT !.cap = c.cap]
           c2 == [c1 EXCEPT !.fp = c.fp]
           c3 == [c2 EXCEPT !.tr = c.tr]
           c4 == [c3 EXCEPT !.seed = c.seed]
           c5 == [c4 EXCEPT !.expansion = c.expansion]
           c6 == [c5 EXCEPT !.items = c.items]
<1>1. v \in Seq(Token) /\ L \in Nat /\ L >= 10 /\ v[1] = c.key
  BY DEF RenderedOptions
<1>2. v # <<>>
  BY <1>1
<1>3. PICK turn :
         /\ TurnsOver(v, turn)
         /\ ParseInsert(v) = IF turn[L].err # Ok THEN Refused(turn[L].err)
                             ELSE Parsed(turn[L].cmd)
  BY <1>2, ParseSteps
<1>4. /\ \A k \in 0..L : turn[k] \in Parsing(v)
      /\ turn[0] = StartOf(v)
      /\ \A k \in 1..L : turn[k] = InsertTurn(turn[k - 1], v)
  BY <1>3 DEF TurnsOver
<1>5. \A k \in 0..6 : k \in 0..L /\ turn[k] \in Parsing(v)
  BY <1>1, <1>4
<1>6. /\ turn[1] = InsertTurn(turn[0], v) /\ turn[2] = InsertTurn(turn[1], v)
      /\ turn[3] = InsertTurn(turn[2], v) /\ turn[4] = InsertTurn(turn[3], v)
      /\ turn[5] = InsertTurn(turn[4], v) /\ turn[6] = InsertTurn(turn[5], v)
  <2>1. \A k \in 1..6 : k \in 1..L
    BY <1>1
  <2>. QED BY <1>4, <2>1
<1>7. /\ AsWord[v[2]] = "CAPACITY" /\ AsWord[v[4]] = "ERROR" /\ AsWord[v[6]] = "TIGHTENING"
      /\ AsWord[v[8]] = "SEED"
  BY DEF RenderedOptions
<1>8. /\ {"CAPACITY", "ERROR", "TIGHTENING", "SEED", "EXPANSION"} \subseteq DOMAIN Field
      /\ Field["CAPACITY"] = "cap" /\ Field["ERROR"] = "fp" /\ Field["TIGHTENING"] = "tr"
      /\ Field["SEED"] = "seed" /\ Field["EXPANSION"] = "expansion"
  BY DEF Field
<1>. HIDE DEF c0, c1, c2, c3, c4, c5, c6, L
<1>9. turn[0].err = Ok /\ turn[0].idx = 2 /\ turn[0].cmd = c0
  BY <1>4 DEF StartOf, c0
<1>10. turn[1].err = Ok /\ turn[1].idx = 4 /\ turn[1].cmd = c1
  <2> DEFINE word == "CAPACITY"
             s == turn[0]
             u == turn[1]
             f == "cap"
             x == c.cap
             i == 2
             j == 3
  <2>1. s \in Parsing(v) /\ s.err = Ok /\ s.idx = i /\ s.idx < Len(v) /\ c0 = s.cmd
    BY <1>1, <1>5, <1>9 DEF L
  <2>2. /\ ValueError(word, v[j]) = Ok /\ x = ValueOf(word, v[j]) /\ AsWord[v[i]] = word
        /\ word \in DOMAIN Field /\ f = Field[word] /\ u = InsertTurn(s, v) /\ j = i + 1
    BY <1>6, <1>7, <1>8, SpelledValues
  <2>. HIDE DEF word, s, u, f, x, i, j
  <2>3. u.err = Ok /\ u.idx = i + 2 /\ u.cmd = [c0 EXCEPT ![f] = x]
    BY <1>1, <2>1, <2>2, OptionTurnAt
  <2>. QED BY <2>3 DEF u, f, x, i, c1
<1>11. turn[2].err = Ok /\ turn[2].idx = 6 /\ turn[2].cmd = c2
  <2> DEFINE word == "ERROR"
             s == turn[1]
             u == turn[2]
             f == "fp"
             x == c.fp
             i == 4
             j == 5
  <2>1. s \in Parsing(v) /\ s.err = Ok /\ s.idx = i /\ s.idx < Len(v) /\ c1 = s.cmd
    BY <1>1, <1>5, <1>10 DEF L
  <2>2. /\ ValueError(word, v[j]) = Ok /\ x = ValueOf(word, v[j]) /\ AsWord[v[i]] = word
        /\ word \in DOMAIN Field /\ f = Field[word] /\ u = InsertTurn(s, v) /\ j = i + 1
    BY <1>6, <1>7, <1>8, SpelledValues
  <2>. HIDE DEF word, s, u, f, x, i, j
  <2>3. u.err = Ok /\ u.idx = i + 2 /\ u.cmd = [c1 EXCEPT ![f] = x]
    BY <1>1, <2>1, <2>2, OptionTurnAt
  <2>. QED BY <2>3 DEF u, f, x, i, c2
<1>12. turn[3].err = Ok /\ turn[3].idx = 8 /\ turn[3].cmd = c3
  <2> DEFINE word == "TIGHTENING"
             s == turn[2]
             u == turn[3]
             f == "tr"
             x == c.tr
             i == 6
             j == 7
  <2>1. s \in Parsing(v) /\ s.err = Ok /\ s.idx = i /\ s.idx < Len(v) /\ c2 = s.cmd
    BY <1>1, <1>5, <1>11 DEF L
  <2>2. /\ ValueError(word, v[j]) = Ok /\ x = ValueOf(word, v[j]) /\ AsWord[v[i]] = word
        /\ word \in DOMAIN Field /\ f = Field[word] /\ u = InsertTurn(s, v) /\ j = i + 1
    BY <1>6, <1>7, <1>8, SpelledValues
  <2>. HIDE DEF word, s, u, f, x, i, j
  <2>3. u.err = Ok /\ u.idx = i + 2 /\ u.cmd = [c2 EXCEPT ![f] = x]
    BY <1>1, <2>1, <2>2, OptionTurnAt
  <2>. QED BY <2>3 DEF u, f, x, i, c3
<1>13. turn[4].err = Ok /\ turn[4].idx = 10 /\ turn[4].cmd = c4
  <2> DEFINE word == "SEED"
             s == turn[3]
             u == turn[4]
             f == "seed"
             x == c.seed
             i == 8
             j == 9
  <2>1. s \in Parsing(v) /\ s.err = Ok /\ s.idx = i /\ s.idx < Len(v) /\ c3 = s.cmd
    BY <1>1, <1>5, <1>12 DEF L
  <2>2. /\ ValueError(word, v[j]) = Ok /\ x = ValueOf(word, v[j]) /\ AsWord[v[i]] = word
        /\ word \in DOMAIN Field /\ f = Field[word] /\ u = InsertTurn(s, v) /\ j = i + 1
    BY <1>6, <1>7, <1>8, SpelledValues
  <2>. HIDE DEF word, s, u, f, x, i, j
  <2>3. u.err = Ok /\ u.idx = i + 2 /\ u.cmd = [c3 EXCEPT ![f] = x]
    BY <1>1, <2>1, <2>2, OptionTurnAt
  <2>. QED BY <2>3 DEF u, f, x, i, c4

<1>14. PICK n \in {11, 12} :
         /\ n <= L + 1
         /\ IF n = 11 THEN c.expansion = 0 /\ AsWord[v[10]] = "NONSCALING"
            ELSE /\ c.expansion # 0
                 /\ AsWord[v[10]] = "EXPANSION" /\ AsInteger[v[11]] = c.expansion
         /\ IF c.items = <<>> THEN L + 1 = n
            ELSE n < L /\ AsWord[v[n]] = "ITEMS" /\ SubSeq(v, n + 1, L) = c.items
  BY DEF RenderedRest, L
<1>15. turn[4] \in Parsing(v) /\ turn[5] \in Parsing(v) /\ turn[6] \in Parsing(v)
  BY <1>5
<1>16. turn[5].err = Ok /\ turn[5].idx = n /\ turn[5].cmd = c5
  <2>1. CASE n = 11
    <3> DEFINE s == turn[4]
               u == turn[5]
    <3>1. AsWord[v[s.idx]] = "NONSCALING" /\ s.err = Ok /\ ~ (s.err # Ok \/ s.idx > Len(v))
      BY <1>1, <1>13, <1>14, <2>1 DEF L
    <3>2. "NONSCALING" \notin DOMAIN Field
      BY DEF Field
    <3>3. u = [s EXCEPT !.cmd.expansion = 0, !.idx = s.idx + 1]
      BY <1>6, <3>1, <3>2 DEF InsertTurn
    <3>4. s \in ParserState
      BY <1>15 DEF Parsing
    <3>5. s.idx = 10 /\ s.cmd = c4 /\ s.err = Ok
      BY <1>13
    <3>. HIDE DEF s, u
    <3>6. u = [s EXCEPT !.cmd = [c4 EXCEPT !.expansion = 0], !.idx = s.idx + 1]
      BY <3>3, <3>4, <3>5 DEF ParserState
    <3> DEFINE c50 == [c4 EXCEPT !.expansion = 0]
    <3>. HIDE DEF c50
    <3>7. u = [s EXCEPT !.cmd = c50, !.idx = s.idx + 1]
      BY <3>6 DEF c50
    <3>8. u.err = Ok /\ u.idx = 11 /\ u.cmd = c50
      BY <3>4, <3>5, <3>7 DEF ParserState
    <3>9. c50 = c5
      BY <1>14, <2>1 DEF c50, c5
    <3>. QED BY <2>1, <3>8, <3>9 DEF u
  <2>2. CASE n = 12
    <3> DEFINE word == "EXPANSION"
               s == turn[4]
               u == turn[5]
               f == "expansion"
               x == c.expansion
               i == 10
               j == 11
    <3>1. s \in Parsing(v) /\ s.err = Ok /\ s.idx = i /\ s.idx < Len(v) /\ c4 = s.cmd
      BY <1>1, <1>13, <1>14, <1>15, <2>2 DEF L
    <3>2. /\ ValueError(word, v[j]) = Ok /\ x = ValueOf(word, v[j]) /\ AsWord[v[i]] = word
          /\ word \in DOMAIN Field /\ f = Field[word] /\ u = InsertTurn(s, v) /\ j = i + 1
      BY <1>6, <1>8, <1>14, <2>2, SpelledValues
    <3>. HIDE DEF word, s, u, f, x, i, j
    <3>3. u.err = Ok /\ u.idx = i + 2 /\ u.cmd = [c4 EXCEPT ![f] = x]
      BY <1>1, <3>1, <3>2, OptionTurnAt
    <3>. QED BY <2>2, <3>3 DEF u, f, x, i, c5
  <2>. QED BY <2>1, <2>2
<1>17. turn[L].err = Ok /\ turn[L].cmd = c6
  <2>1. CASE c.items = <<>>
    <3>1. turn[5].idx > L
      BY <1>1, <1>14, <1>16, <2>1
    <3>2. turn[L] = turn[5]
      <4>1. 5 \in 0..L
        BY <1>1
      <4> DEFINE k == 5
      <4>2. k \in 0..Len(v) /\ turn[k].err = Ok /\ turn[k].idx > Len(v)
        BY <1>16, <3>1, <4>1 DEF L
      <4>. HIDE DEF k
      <4>3. turn[Len(v)] = turn[k]
        BY <1>1, <1>3, <4>2, TurnsEnd
      <4>. QED BY <4>3 DEF k, L
    <3>3. c5.items = <<>>
      BY DEF c0, c1, c2, c3, c4, c5, Command
    <3>4. c5 \in CommandType
      BY <1>15, <1>16 DEF Parsing
    <3>5. c6 = c5
      BY <2>1, <3>3, <3>4, EmptyItems DEF c6
    <3>. QED BY <1>16, <3>2, <3>5
  <2>2. CASE c.items # <<>>
    <3> DEFINE s == turn[5]
               u == turn[6]
               rest == SubSeq(v, n + 1, L)
    <3>1. /\ n < L /\ AsWord[v[n]] = "ITEMS" /\ rest = c.items
          /\ s.err = Ok /\ s.idx = n /\ s.cmd = c5 /\ s \in ParserState /\ n \in Nat
      BY <1>14, <1>15, <1>16, <2>2 DEF Parsing
    <3>2. "ITEMS" \notin DOMAIN Field
      BY DEF Field
    <3>3. u = [s EXCEPT !.cmd.items = SubSeq(v, s.idx + 1, Len(v)), !.idx = Len(v) + 1]
      <4>1. ~ (s.err # Ok \/ s.idx > Len(v)) /\ s.idx < Len(v) /\ AsWord[v[s.idx]] = "ITEMS"
        BY <1>1, <3>1 DEF L
      <4>. QED BY <1>1, <1>6, <3>2, <4>1 DEF InsertTurn, L
    <3>4. SubSeq(v, s.idx + 1, Len(v)) = c.items
      BY <3>1 DEF L
    <3>. HIDE DEF s, u, rest
    <3>5. u = [s EXCEPT !.cmd = [c5 EXCEPT !.items = c.items], !.idx = L + 1]
      BY <3>1, <3>3, <3>4 DEF ParserState, L
    <3>6. u = [s EXCEPT !.cmd = c6, !.idx = L + 1]
      BY <3>5 DEF c6
    <3>7. u.err = Ok /\ u.cmd = c6 /\ u.idx = L + 1
      BY <3>1, <3>6 DEF ParserState
    <3>8. turn[L] = turn[6]
      <4> DEFINE k == 6
      <4>1. k \in 0..Len(v) /\ turn[k].err = Ok /\ turn[k].idx > Len(v)
        BY <1>1, <3>7 DEF L, u
      <4>. HIDE DEF k
      <4>2. turn[Len(v)] = turn[k]
        BY <1>1, <1>3, <4>1, TurnsEnd
      <4>. QED BY <4>2 DEF k, L
    <3>. QED BY <3>7, <3>8 DEF u
  <2>. QED BY <2>1, <2>2
<1>18. c \in CommandType /\ c.name = "BF.INSERT" /\ c.scaleTo = Unset /\ ~ c.nocreate
  BY DEF Spellable
<1>19. c6 \in CommandType
  <2>1. L \in 0..L
    BY <1>1
  <2>2. turn[L] \in Parsing(v)
    BY <1>4, <2>1 DEF L
  <2>. QED BY <1>17, <2>2 DEF Parsing
<1>20. /\ c6.name = "BF.INSERT" /\ c6.key = v[1] /\ c6.items = c.items /\ c6.fp = c.fp
       /\ c6.tr = c.tr /\ c6.cap = c.cap /\ c6.seed = c.seed /\ c6.expansion = c.expansion
       /\ c6.scaleTo = Unset /\ ~ c6.nocreate /\ c6.dump = Unset
  BY DEF c0, c1, c2, c3, c4, c5, c6, Command
<1>21. c.dump = Unset
  BY <1>18 DEF CommandType
<1>22. c6 = c
  <2>. QED BY <1>1, <1>18, <1>19, <1>20, <1>21, SameCommand
<1>. QED BY <1>3, <1>17, <1>22 DEF L

\* What the parsers hand on can be spelled again.
ReadAs(as, x) == \E t \in Token : as[t] = x

Legible(c) ==
  /\ c.items \in Seq(Token)
  /\ c.fp # Unset => ReadAs(AsRate, c.fp)
  /\ c.tr # Unset => ReadAs(AsRate, c.tr)
  /\ c.cap # Unset => ReadAs(AsInteger, c.cap)
  /\ c.seed # Unset => ReadAs(AsSeed, c.seed)
  /\ c.expansion # Unset => /\ c.expansion \in 0..ExpansionMax
                            /\ c.expansion # 0 => ReadAs(AsInteger, c.expansion)

LEMMA BareIsLegible ==
  ASSUME NEW n, NEW key, NEW items \in Seq(Token)
  PROVE  Legible(Command(n, key, items))
BY DEF Legible, Command

LEMMA LegibleExpansion ==
  ASSUME NEW t \in Token, ExpansionError(t) = Ok
  PROVE  AsInteger[t] \in 0..ExpansionMax /\ ReadAs(AsInteger, AsInteger[t])
<1>1. AsInteger[t] \in 1..ExpansionMax
  BY DEF ExpansionError, Ok
<1>2. ExpansionMax \in Nat
  BY TokenAssumption
<1>. QED BY <1>1, <1>2 DEF ReadAs

\* A turn over an option fails if its value does.
LEMMA ValueAccepted ==
  ASSUME NEW v \in Seq(Token), NEW s \in Parsing(v), s.err = Ok, s.idx < Len(v),
         AsWord[v[s.idx]] \in DOMAIN Field, InsertTurn(s, v).err = Ok
  PROVE  ValueError(AsWord[v[s.idx]], v[s.idx + 1]) = Ok
<1> DEFINE word == AsWord[v[s.idx]]
           e == ValueError(word, v[s.idx + 1])
           x == ValueOf(word, v[s.idx + 1])
           u == InsertTurn(s, v)
<1>1. s \in ParserState /\ s.idx \in Nat /\ Len(v) \in Nat
  BY DEF Parsing, ParserState
<1>2. word \in {"ERROR", "TIGHTENING", "CAPACITY", "SEED", "EXPANSION", "VALIDATESCALETO"}
  BY DEF Field
<1>3. u = [s EXCEPT !.err = e, !.cmd[Field[word]] = x, !.idx = s.idx + 1 + 1]
  BY <1>1, <1>2 DEF InsertTurn
<1>4. u.err = Ok
  OBVIOUS
<1>. HIDE DEF e, x, u
<1>5. u.err = e
  BY <1>1, <1>3 DEF ParserState
<1>. QED BY <1>4, <1>5 DEF e

LEMMA LegibleTurn ==
  ASSUME NEW v \in Seq(Token), NEW s \in Parsing(v), s.err = Ok, s.idx <= Len(v),
         Legible(s.cmd), NEW u, u = InsertTurn(s, v), u.err = Ok
  PROVE  Legible(u.cmd)
<1> DEFINE c == s.cmd
           d == u.cmd
           word == AsWord[v[s.idx]]
           j == s.idx + 1
<1>1. /\ c \in CommandType /\ s.idx \in Nat /\ s.idx >= 2 /\ Len(v) \in Nat /\ TurnTaken(s, v, u)
  BY InsertTurnOutcome DEF Parsing, ParserState
<1>2. CASE word = "NONSCALING" /\ d = [c EXCEPT !.expansion = 0]
  <2>1. 0 \in 0..ExpansionMax
    BY TokenAssumption
  <2>2. /\ d.expansion = 0 /\ d.items = c.items /\ d.fp = c.fp /\ d.tr = c.tr /\ d.cap = c.cap
        /\ d.seed = c.seed
    BY <1>1, <1>2 DEF CommandType
  <2>. HIDE DEF c, d
  <2>. QED BY <2>1, <2>2 DEF Legible, c, d
<1>3. CASE word = "NOCREATE" /\ d = [c EXCEPT !.nocreate = TRUE]
  <2>1. /\ d.expansion = c.expansion /\ d.items = c.items /\ d.fp = c.fp /\ d.tr = c.tr
        /\ d.cap = c.cap /\ d.seed = c.seed
    BY <1>1, <1>3 DEF CommandType
  <2>. QED BY <2>1 DEF Legible
<1>4. CASE word = "ITEMS" /\ d = [c EXCEPT !.items = SubSeq(v, j, Len(v))]
  <2> DEFINE items == SubSeq(v, j, Len(v))
  <2>1. items \in Seq(Token)
    BY <1>1, TokensAreItems
  <2>. HIDE DEF items
  <2>2. /\ d.expansion = c.expansion /\ d.items = items /\ d.fp = c.fp /\ d.tr = c.tr
        /\ d.cap = c.cap /\ d.seed = c.seed
    BY <1>1, <1>4 DEF CommandType, items
  <2>. QED BY <2>1, <2>2 DEF Legible
<1>5. CASE /\ word \in DOMAIN Field /\ s.idx < Len(v)
           /\ d = [c EXCEPT ![Field[word]] = ValueOf(word, v[j])]
  <2> DEFINE t == v[j]
             x == ValueOf(word, t)
  <2>1. t \in Token /\ ValueError(word, t) = Ok
    BY <1>1, <1>5, ValueAccepted
  <2>2. word \in {"ERROR", "TIGHTENING", "CAPACITY", "SEED", "EXPANSION", "VALIDATESCALETO"}
    BY <1>5 DEF Field
  <2>. HIDE DEF t, c, d, word
  <2>3. CASE word \in {"ERROR", "TIGHTENING"}
    <3>1. ReadAs(AsRate, x)
      BY <2>1, <2>3 DEF ReadAs, ValueOf
    <3>2. Field["ERROR"] = "fp" /\ Field["TIGHTENING"] = "tr"
      BY DEF Field
    <3>. HIDE DEF x
    <3>3. \/ d = [c EXCEPT !.fp = x]
          \/ d = [c EXCEPT !.tr = x]
      BY <1>5, <2>3, <3>2 DEF t, x
    <3>4. /\ d.expansion = c.expansion /\ d.items = c.items /\ d.cap = c.cap /\ d.seed = c.seed
          /\ d.fp \in {c.fp, x} /\ d.tr \in {c.tr, x}
      BY <1>1, <3>3 DEF CommandType, c
    <3>. QED BY <3>1, <3>4 DEF Legible, c, d
  <2>4. CASE word \in {"CAPACITY", "VALIDATESCALETO"}
    <3>1. ReadAs(AsInteger, x)
      BY <2>1, <2>4 DEF ReadAs, ValueOf
    <3>2. Field["CAPACITY"] = "cap" /\ Field["VALIDATESCALETO"] = "scaleTo"
      BY DEF Field
    <3>. HIDE DEF x
    <3>3. \/ d = [c EXCEPT !.cap = x]
          \/ d = [c EXCEPT !.scaleTo = x]
      BY <1>5, <2>4, <3>2 DEF t, x
    <3>4. /\ d.expansion = c.expansion /\ d.items = c.items /\ d.cap \in {c.cap, x}
          /\ d.seed = c.seed /\ d.fp = c.fp /\ d.tr = c.tr
      BY <1>1, <3>3 DEF CommandType, c
    <3>. QED BY <3>1, <3>4 DEF Legible, c, d
  <2>5. CASE word = "SEED"
    <3>1. ReadAs(AsSeed, x)
      BY <2>1, <2>5 DEF ReadAs, ValueOf
    <3>2. Field["SEED"] = "seed"
      BY DEF Field
    <3>. HIDE DEF x
    <3>3. d = [c EXCEPT !.seed = x]
      BY <1>5, <2>5, <3>2 DEF t, x
    <3>4. /\ d.expansion = c.expansion /\ d.items = c.items /\ d.cap = c.cap
          /\ d.seed = x /\ d.fp = c.fp /\ d.tr = c.tr
      BY <1>1, <3>3 DEF CommandType, c
    <3>. QED BY <3>1, <3>4 DEF Legible, c, d
  <2>6. CASE word = "EXPANSION"
    <3>1. ExpansionError(t) = Ok
      BY <2>1, <2>6 DEF ValueError
    <3>2. x = AsInteger[t]
      BY <2>6 DEF ValueOf
    <3>3. x \in 0..ExpansionMax /\ ReadAs(AsInteger, x)
      BY <2>1, <3>1, <3>2, LegibleExpansion
    <3>4. Field["EXPANSION"] = "expansion"
      BY DEF Field
    <3>. HIDE DEF x
    <3>5. d = [c EXCEPT !.expansion = x]
      BY <1>5, <2>6, <3>4 DEF t, x
    <3>6. /\ d.expansion = x /\ d.items = c.items /\ d.cap = c.cap
          /\ d.seed = c.seed /\ d.fp = c.fp /\ d.tr = c.tr
      BY <1>1, <3>5 DEF CommandType, c
    <3>. QED BY <3>3, <3>6 DEF Legible, c, d
  <2>. QED BY <2>2, <2>3, <2>4, <2>5, <2>6
<1>. QED BY <1>1, <1>2, <1>3, <1>4, <1>5 DEF TurnTaken

LEMMA InsertIsLegible ==
  ASSUME NEW v, Composed(v), ParseInsert(v).err = Ok
  PROVE  Legible(ParseInsert(v).cmd)
<1> DEFINE L == Len(v)
<1>1. v \in Seq(Token) /\ L \in Nat
  BY DEF Composed
<1>2. v # <<>>
  BY DEF ParseInsert, Refused, Ok
<1>3. PICK turn :
         /\ TurnsOver(v, turn)
         /\ ParseInsert(v) = IF turn[L].err # Ok THEN Refused(turn[L].err)
                             ELSE Parsed(turn[L].cmd)
  BY <1>2, ParseSteps
<1>4. /\ \A k \in 0..L : turn[k] \in Parsing(v)
      /\ turn[0] = StartOf(v)
      /\ \A k \in 1..L : turn[k] = InsertTurn(turn[k - 1], v)
  BY <1>3 DEF TurnsOver
<1> DEFINE T == {k \in Nat : k <= L /\ turn[k].err = Ok => Legible(turn[k].cmd)}
<1>5. 0 \in T
  <2>1. turn[0].cmd = Command("BF.INSERT", v[1], <<>>)
    BY <1>4 DEF StartOf
  <2>2. <<>> \in Seq(Token)
    OBVIOUS
  <2>3. Legible(turn[0].cmd)
    BY <2>1, <2>2, BareIsLegible
  <2>. QED BY <2>3
<1>6. ASSUME NEW k \in Nat, k \in T PROVE k + 1 \in T
  <2> DEFINE s == turn[k]
             u == turn[k + 1]
  <2>1. SUFFICES ASSUME k + 1 <= L, u.err = Ok PROVE Legible(u.cmd)
    OBVIOUS
  <2>2. k \in 0..L /\ k + 1 \in 1..L /\ (k + 1) - 1 = k /\ k <= L
    BY <1>1, <2>1
  <2>3. s \in Parsing(v) /\ u = InsertTurn(s, v) /\ (s.err = Ok => Legible(s.cmd))
    BY <1>4, <1>6, <2>2
  <2>. HIDE DEF s, u
  <2>4. s.idx \in Nat
    BY <2>3 DEF Parsing, ParserState
  <2>5. CASE s.err # Ok \/ s.idx > L
    <3>1. u = s
      BY <1>1, <2>3, <2>5, InsertTurnOutcome
    <3>. QED BY <2>1, <2>3, <3>1
  <2>6. CASE s.err = Ok /\ s.idx <= L
    BY <1>1, <2>1, <2>3, <2>6, LegibleTurn
  <2>. QED BY <1>1, <2>4, <2>5, <2>6
<1>7. Nat \subseteq T
  <2>. HIDE DEF T
  <2>. QED BY <1>5, <1>6, SetInduction
<1>8. turn[L].err = Ok
  BY <1>3 DEF Refused
<1>9. Legible(turn[L].cmd)
  BY <1>1, <1>7, <1>8
<1>. QED BY <1>3, <1>8, <1>9 DEF Parsed

LEMMA ReserveIsLegible ==
  ASSUME NEW v, Composed(v), ParseReserve(v).err = Ok
  PROVE  Legible(ParseReserve(v).cmd)
<1> DEFINE rate == RateError(v[2], "ErrorRateRange", "BadErrorRate")
           e == ReserveExpansion(v)
           c0 == Command("BF.RESERVE", v[1], <<>>)
           c == [c0 EXCEPT !.fp = AsRate[v[2]], !.cap = AsInteger[v[3]],
                           !.expansion = e.expansion]
<1>1. v \in Seq(Token) /\ Len(v) \in Nat
  BY DEF Composed
<1>2. Len(v) \in 3..5
  BY DEF ParseReserve, Refused, Ok
<1>3. rate = Ok
  BY <1>2 DEF ParseReserve, Refused
<1>4. CapacityError(v[3]) = Ok
  BY <1>2, <1>3 DEF ParseReserve, Refused
<1>5. e.err = Ok
  BY <1>2, <1>3, <1>4 DEF ParseReserve, Refused
<1>6. ParseReserve(v) = Parsed(c)
  BY <1>2, <1>3, <1>4, <1>5 DEF ParseReserve
<1>7. v[2] \in Token /\ v[3] \in Token
  BY <1>1, <1>2
<1>8. \/ e.expansion \in {Unset, 0}
      \/ e.expansion \in 0..ExpansionMax /\ ReadAs(AsInteger, e.expansion)
  <2>1. CASE Len(v) = 3
    BY <2>1 DEF ReserveExpansion
  <2>2. CASE Len(v) = 4
    <3>1. AsWord[v[4]] = "NONSCALING"
      BY <1>5, <2>2 DEF ReserveExpansion, Ok
    <3>. QED BY <2>2, <3>1 DEF ReserveExpansion
  <2>3. CASE Len(v) = 5
    <3>1. AsWord[v[4]] = "EXPANSION"
      BY <1>5, <2>3 DEF ReserveExpansion, Ok
    <3>2. e = [err |-> ExpansionError(v[5]), expansion |-> AsInteger[v[5]]]
      BY <2>3, <3>1 DEF ReserveExpansion
    <3>3. v[5] \in Token
      <4>1. 5 \in 1..Len(v)
        BY <2>3
      <4>. QED BY <1>1, <4>1
    <3>4. ExpansionError(v[5]) = Ok
      BY <1>5, <3>2
    <3>. QED BY <3>2, <3>3, <3>4, LegibleExpansion
  <2>. QED BY <1>2, <2>1, <2>2, <2>3
<1>9. 0 \in 0..ExpansionMax /\ Unset # 0
  BY TokenAssumption, ValueAssumption
<1>10. ReadAs(AsRate, AsRate[v[2]]) /\ ReadAs(AsInteger, AsInteger[v[3]])
  BY <1>7 DEF ReadAs
<1>. HIDE DEF e
<1>11. /\ c.items = <<>> /\ c.fp = AsRate[v[2]] /\ c.cap = AsInteger[v[3]]
       /\ c.tr = Unset /\ c.seed = Unset /\ c.expansion = e.expansion
  BY DEF Command
<1>. HIDE DEF c
<1>12. Legible(c)
  BY <1>8, <1>9, <1>10, <1>11 DEF Legible
<1>. QED BY <1>6, <1>12 DEF Parsed

LEMMA ParsedIsLegible ==
  ASSUME NEW n \in CommandNames, NEW v, Composed(v), Parse(n, v).err = Ok
  PROVE  Legible(Parse(n, v).cmd)
<1>1. CASE n \in {"BF.ADD", "BF.MADD"}
  <2> DEFINE items == SubSeq(v, 2, Len(v))
  <2>1. Parse(n, v) = ParseAdd(n, v)
    BY <1>1 DEF Parse
  <2>2. ParseAdd(n, v) = Parsed(Command(n, v[1], items))
    BY <2>1 DEF ParseAdd, Refused, Ok
  <2>3. items \in Seq(Token)
    BY TokensAreItems DEF Composed
  <2>. HIDE DEF items
  <2>. QED BY <2>1, <2>2, <2>3, BareIsLegible DEF Parsed
<1>2. CASE n = "BF.RESERVE"
  BY <1>2, ReserveIsLegible DEF Parse
<1>3. CASE n = "BF.INSERT"
  BY <1>3, InsertIsLegible DEF Parse
<1>. QED BY <1>1, <1>2, <1>3 DEF CommandNames

\* A turn that succeeds is the same for who must be obeyed.
LEMMA FreeTurn ==
  ASSUME NEW s \in Turn, NEW x \in Item, NEW new \in BOOLEAN, NEW validate \in BOOLEAN,
         NEW free \in BOOLEAN, ~ free, NEW limit, NEW most,
         AddTurn(s, x, new, validate, limit).err = Ok
  PROVE  AddTurn(s, x, new, free, most) = AddTurn(s, x, new, validate, limit)
<1> DEFINE o == s.obj
           t == AddTurn(s, x, new, validate, limit)
           e == AddError(o, validate, limit)
<1>1. s = [obj |-> s.obj, metrics |-> s.metrics, err |-> s.err, ints |-> s.ints]
  BY TurnFields
<1>2. s.err = Ok
  BY AddTurnPreserves
<1>3. CASE ~ new
  BY <1>2, <1>3 DEF AddTurn
<1>4. CASE new
  <2>1. e = Ok
    <3>1. SUFFICES ASSUME e # Ok PROVE FALSE
      OBVIOUS
    <3>2. t = [s EXCEPT !.err = e]
      BY <1>2, <1>4, <3>1 DEF AddTurn
    <3>3. t.err = Ok
      OBVIOUS
    <3>. HIDE DEF e, t
    <3>4. t.err = e
      BY <1>1, <3>2
    <3>. QED BY <3>1, <3>3, <3>4
  <2>2. AddError(o, free, most) = Ok
    <3>1. CASE ~ Full(Last(o.filters))
      BY <3>1 DEF AddError
    <3>2. CASE Full(Last(o.filters))
      <4>1. ScaleOutError(o, validate, limit) = Ok
        BY <2>1, <3>2 DEF AddError
      <4>2. ScaleOutError(o, free, most) = Ok
        BY <4>1 DEF ScaleOutError, Ok
      <4>. QED BY <3>2, <4>2 DEF AddError
    <3>. QED BY <3>1, <3>2
  <2>. QED BY <1>2, <1>4, <2>1, <2>2 DEF AddTurn
<1>. QED BY <1>3, <1>4

LEMMA FreeTurns ==
  ASSUME NEW s \in Turn, NEW items \in Seq(Item), NEW validate \in BOOLEAN,
         NEW free \in BOOLEAN, ~ free, NEW limit, NEW most,
         AddTurns(s, items, NewItems(s.obj, items), validate, limit).err = Ok
  PROVE  AddTurns(s, items, NewItems(s.obj, items), free, most)
           = AddTurns(s, items, NewItems(s.obj, items), validate, limit)
<1> DEFINE n == Len(items)
           new == NewItems(s.obj, items)
<1>1. PICK one : /\ TurnsOf(s, items, validate, limit, one)
                 /\ AddTurns(s, items, new, validate, limit) = one[n]
  BY AddTurnsSteps
<1>2. PICK two : /\ TurnsOf(s, items, free, most, two)
                 /\ AddTurns(s, items, new, free, most) = two[n]
  BY AddTurnsSteps
<1>3. /\ one \in [0..n -> Turn] /\ one[0] = s
      /\ \A i \in 1..n : one[i] = AddTurn(one[i - 1], items[i], i \in new, validate, limit)
  BY <1>1 DEF TurnsOf
<1>4. /\ two \in [0..n -> Turn] /\ two[0] = s
      /\ \A i \in 1..n : two[i] = AddTurn(two[i - 1], items[i], i \in new, free, most)
  BY <1>2 DEF TurnsOf
<1>5. n \in Nat /\ n \in 0..n /\ \A i \in 1..n : items[i] \in Item
  OBVIOUS
<1>. HIDE DEF n, new
<1> DEFINE T == {i \in Nat : i <= n /\ one[i].err = Ok => two[i] = one[i]}
<1>6. 0 \in T
  BY <1>3, <1>4
<1>7. ASSUME NEW i \in Nat, i \in T PROVE i + 1 \in T
  <2>1. SUFFICES ASSUME i + 1 <= n, one[i + 1].err = Ok PROVE two[i + 1] = one[i + 1]
    OBVIOUS
  <2>2. i + 1 \in 1..n /\ (i + 1) - 1 = i /\ i \in 0..n /\ i <= n
    BY <1>5, <2>1
  <2> DEFINE new1 == i + 1 \in new
             x == items[i + 1]
             a == one[i]
             b == two[i]
  <2>3. /\ one[i + 1] = AddTurn(a, x, new1, validate, limit) /\ a \in Turn
        /\ two[i + 1] = AddTurn(b, x, new1, free, most)
        /\ x \in Item /\ new1 \in BOOLEAN
    BY <1>3, <1>4, <1>5, <2>2
  <2>4. a.err = Ok => b = a
    BY <1>7, <2>2
  <2>. HIDE DEF a, b, x, new1, T
  <2>5. a.err = Ok
    BY <2>1, <2>3, AddTurnPreserves
  <2>. QED BY <2>1, <2>3, <2>4, <2>5, FreeTurn
<1>8. Nat \subseteq T
  <2>. HIDE DEF T
  <2>. QED BY <1>6, <1>7, SetInduction
<1>9. one[n].err = Ok
  BY <1>1 DEF new
<1>10. two[n] = one[n]
  BY <1>5, <1>8, <1>9
<1>. QED BY <1>1, <1>2, <1>10 DEF n, new

\* A batch does the same unvalidated, if it was added whole or refused as a whole.
LEMMA FreeBatch ==
  ASSUME NEW o \in Object, WellFormed(o), NEW m \in Counters, NEW items \in Seq(Item),
         NEW multi \in BOOLEAN, ~ multi => FALSE,
         NEW free \in BOOLEAN, ~ free, NEW validate \in BOOLEAN, NEW limit,
         ValidateAddItems(o, Cardinality(NewItems(o, items)), limit) = Ok =>
           HandleAdd(o, m, items, multi, validate, limit).err = Ok
  PROVE  HandleAdd(o, m, items, multi, free, limit) = HandleAdd(o, m, items, multi, validate, limit)
<1> DEFINE s == [obj |-> o, metrics |-> m, err |-> Ok, ints |-> <<>>]
           new == NewItems(o, items)
           err == ValidateAddItems(o, Cardinality(new), limit)
<1>1. s \in Turn /\ s.obj = o
  <2>1. <<>> \in Seq({0, 1}) /\ Ok \in AddErrors
    BY DEF AddErrors
  <2>. QED BY <2>1 DEF Turn
<1>2. CASE err # Ok
  BY <1>2 DEF HandleAdd
<1>3. CASE err = Ok
  <2> DEFINE New == NewItems(s.obj, items)
  <2>1. /\ HandleAdd(o, m, items, multi, free, limit) = AddTurns(s, items, New, free, limit)
        /\ HandleAdd(o, m, items, multi, validate, limit) = AddTurns(s, items, New, validate, limit)
    BY <1>1, <1>3 DEF HandleAdd
  <2>2. AddTurns(s, items, New, validate, limit).err = Ok
    BY <1>3, <2>1
  <2>. HIDE DEF s
  <2>3. AddTurns(s, items, New, free, limit) = AddTurns(s, items, New, validate, limit)
    BY <1>1, <2>2, FreeTurns
  <2>. QED BY <2>1, <2>3
<1>. QED BY <1>2, <1>3

LEMMA OneTurn ==
  ASSUME NEW s \in Turn, NEW items \in Seq(Item), NEW validate, NEW limit
  PROVE  Len(items) = 1 =>
           AddTurns(s, items, NewItems(s.obj, items), validate, limit)
             = AddTurn(s, items[1], 1 \in NewItems(s.obj, items), validate, limit)
<1>1. PICK turn : /\ TurnsOf(s, items, validate, limit, turn)
                  /\ AddTurns(s, items, NewItems(s.obj, items), validate, limit)
                       = turn[Len(items)]
  BY AddTurnsSteps
<1>2. /\ Len(items) = 1 =>
           turn[1] = AddTurn(turn[0], items[1], 1 \in NewItems(s.obj, items), validate, limit)
      /\ turn[0] = s
  BY <1>1 DEF TurnsOf
<1>. QED BY <1>1, <1>2

\* One item is added to a new object as a batch of one is.
LEMMA OneIsABatch ==
  ASSUME NEW p \in PropertyType, NEW m \in Counters, NEW items \in Seq(Item),
         NEW multi \in BOOLEAN, ~ multi => FALSE, NEW single \in BOOLEAN, ~ single,
         NEW validate \in BOOLEAN, NEW free \in BOOLEAN, ~ free, NEW limit
  PROVE  LET o == NewReserved(p)
         IN  Len(items) = 1 =>
               HandleAdd(o, m, items, multi, free, limit) = HandleAdd(o, m, items, single, validate, limit)
<1> DEFINE o == NewReserved(p)
           s == [obj |-> o, metrics |-> m, err |-> Ok, ints |-> <<>>]
           x == items[1]
           fresh == ~ ItemExists(o, x)
           new == NewItems(o, items)
<1>. SUFFICES ASSUME Len(items) = 1
              PROVE  HandleAdd(o, m, items, multi, free, limit)
                       = HandleAdd(o, m, items, single, validate, limit)
  OBVIOUS
<1>1. o \in Object /\ WellFormed(o)
  BY NewReservedPreserves
<1>2. s \in Turn /\ s.obj = o /\ s.err = Ok
  <2>1. <<>> \in Seq({0, 1}) /\ Ok \in AddErrors
    BY DEF AddErrors
  <2>. QED BY <1>1, <2>1 DEF Turn
<1>3. x \in Item /\ fresh \in BOOLEAN /\ Len(items) <= 1 /\ (1 \in new <=> fresh)
  BY DEF NewItems
<1>4. ValidateAddItems(o, Cardinality(new), limit) = Ok
  BY <1>3, OneItemFits
<1>5. HandleAdd(o, m, items, multi, free, limit) = AddTurns(s, items, new, free, limit)
  BY <1>4 DEF HandleAdd
<1>6. HandleAdd(o, m, items, single, validate, limit) = AddTurn(s, x, fresh, validate, limit)
  BY DEF HandleAdd
<1>7. AddError(o, validate, limit) = Ok /\ AddError(o, free, limit) = Ok
  <2>1. o.filters = <<NewFilter(p.fp, p.cap, p.seed)>>
    BY DEF NewReserved
  <2>2. Last(o.filters) = NewFilter(p.fp, p.cap, p.seed)
    BY <2>1 DEF Last
  <2>3. ~ Full(Last(o.filters))
    <3>1. NewFilter(p.fp, p.cap, p.seed).num = 0 /\ NewFilter(p.fp, p.cap, p.seed).cap = p.cap
      BY DEF NewFilter
    <3>2. p.cap \in Nat /\ p.cap > 0
      BY SizeAssumption DEF PropertyType
    <3>. QED BY <2>2, <3>1, <3>2 DEF Full
  <2>. QED BY <2>3 DEF AddError
<1>8. AddTurn(s, x, fresh, free, limit) = AddTurn(s, x, fresh, validate, limit)
  <2>1. CASE ~ fresh
    BY <2>1 DEF AddTurn
  <2>2. CASE fresh
    BY <1>2, <1>7, <2>2 DEF AddTurn
  <2>. QED BY <1>3, <2>1, <2>2
<1>9. AddTurns(s, items, new, free, limit) = AddTurn(s, x, fresh, free, limit)
  <2> DEFINE New == NewItems(s.obj, items)
             one == 1 \in New
  <2>1. AddTurns(s, items, New, free, limit) = AddTurn(s, x, one, free, limit)
    <3>. HIDE DEF s
    <3>. QED BY <1>2, OneTurn
  <2>2. New = new /\ one = fresh
    BY <1>2, <1>3
  <2>. QED BY <2>1, <2>2
<1>. QED BY <1>5, <1>6, <1>8, <1>9

\* Every value a node may give a property can be written as an argument: the code
\* writes numbers and seeds out itself (to_string, the 32 bytes of the seed).
EverythingSpelled ==
  /\ WordsSpelled
  /\ \A seed \in Seeds : ReadAs(AsSeed, seed)
  /\ \A cfg \in Configs :
       /\ ReadAs(AsInteger, cfg.cap) /\ ReadAs(AsRate, cfg.fp) /\ ReadAs(AsRate, cfg.tr)
       /\ cfg.expansion \in 0..ExpansionMax
       /\ cfg.expansion # 0 => ReadAs(AsInteger, cfg.expansion)

OneLimit == \A cfg, other \in Configs : cfg.limit = other.limit

LEMMA CreatedIsSpellable ==
  ASSUME EverythingSpelled, NEW c \in CommandType, Legible(c), NEW cfg \in Configs,
         NEW rnd \in RandomSeeds
  PROVE  LET p == Properties(c, cfg, rnd)
         IN  p \in PropertyType /\ Spellable(ReplicaInsert(c.key, NewReserved(p), c.items))
<1> DEFINE p == Properties(c, cfg, rnd)
           d == ReplicaInsert(c.key, NewReserved(p), c.items)
<1>1. cfg \in Config /\ rnd \in Seeds \ {FixedSeed}
  BY TokenAssumption DEF RandomSeeds
<1>2. p \in PropertyType
  BY <1>1, PropertiesTyped
<1>3. /\ ReadAs(AsRate, p.fp) /\ ReadAs(AsRate, p.tr) /\ ReadAs(AsInteger, p.cap)
      /\ p.expansion \in 0..ExpansionMax
      /\ p.expansion # 0 => ReadAs(AsInteger, p.expansion)
  BY DEF EverythingSpelled, Legible, Properties, Given
<1>4. ReadAs(AsSeed, p.seed)
  BY <1>2 DEF EverythingSpelled, PropertyType
<1>5. /\ p.fp \in Nat \ {0} /\ p.tr \in Nat \ {0} /\ p.cap \in 1..CapacityMax /\ p.expansion \in Nat
      /\ p.seed \in Seeds
  BY <1>2 DEF PropertyType
<1>6. Unset \notin Nat /\ Unset \notin Seeds /\ 1..CapacityMax \subseteq Nat
  BY ValueAssumption, SizeAssumption
<1>7. c.key \in Key /\ c.items \in Seq(Item) /\ c.items \in Seq(Token)
  BY DEF CommandType, Legible
<1>. HIDE DEF p
<1>8. /\ Capacity(NewReserved(p)) = p.cap /\ SeedOf(NewReserved(p)) = p.seed
      /\ NewReserved(p).fp = p.fp /\ NewReserved(p).tr = p.tr
      /\ NewReserved(p).expansion = p.expansion
  BY <1>2, NewReservedReads
<1>9. d = [Command("BF.INSERT", c.key, c.items) EXCEPT
             !.fp = p.fp, !.tr = p.tr, !.cap = p.cap, !.seed = p.seed, !.expansion = p.expansion]
  BY <1>8 DEF ReplicaInsert
<1>10. /\ d.name = "BF.INSERT" /\ d.key = c.key /\ d.items = c.items /\ d.fp = p.fp /\ d.tr = p.tr
       /\ d.cap = p.cap /\ d.seed = p.seed /\ d.expansion = p.expansion /\ d.scaleTo = Unset
       /\ ~ d.nocreate /\ d.dump = Unset
  BY <1>9 DEF Command
<1>11. d \in CommandType
  BY <1>5, <1>7, <1>9 DEF Command, CommandType
<1>. HIDE DEF d
<1>12. Spellable(d)
  BY <1>3, <1>4, <1>5, <1>6, <1>7, <1>10, <1>11 DEF Spellable, ReadAs
<1>. QED BY <1>2, <1>12 DEF d, p

\* Items added to a new object as a batch, for who must be obeyed.
AddedFreely(o, items, limit) ==
  HandleAdd(o, NewReservedMetrics(NoMetrics, o), items, TRUE, FALSE, limit)

\* The replica reads the command that was propagated and creates the same object.
LEMMA ReplicaCreates ==
  ASSUME EverythingSpelled, NEW p \in PropertyType, NEW key, NEW items,
         Spellable(ReplicaInsert(key, NewReserved(p), items)), NEW cfg, NEW rnd
  PROVE  LET d == ReplicaInsert(key, NewReserved(p), items)
             h == AddedFreely(NewReserved(p), items, cfg.limit)
             out == Replicated(d, cfg, rnd)
         IN  out.val = h.obj /\ out.reply = [err |-> h.err, ints |-> AddReply(h)]
<1> DEFINE d == ReplicaInsert(key, NewReserved(p), items)
           v == Rendered(d)
           o == NewReserved(p)
           h == HandleAdd(o, NewReservedMetrics(NoMetrics, o), items, TRUE, FALSE, cfg.limit)
           out == Replicated(d, cfg, rnd)
<1>1. RenderedOptions(d, v) /\ RenderedRest(d, v)
  BY RenderedReads DEF EverythingSpelled
<1>2. Properties(d, cfg, rnd) = p /\ d.name = "BF.INSERT" /\ d.key = key /\ d.items = items
      /\ d.scaleTo = Unset /\ ~ d.nocreate
  BY PropertiesReplicated
<1>. HIDE DEF d, v
<1>3. Spellable(d)
  BY DEF d
<1>4. Composed(v)
  <2>1. v \in Seq(Token) /\ v[1] = d.key
    BY <1>1 DEF RenderedOptions
  <2>2. d.key \in Key
    BY <1>3 DEF Spellable, CommandType
  <2>. QED BY <2>1, <2>2 DEF Composed
<1>5. Parse("BF.INSERT", v) = Parsed(d)
  BY <1>1, <1>3, <1>4, RenderedIsParsed DEF Parse
<1>6. out = BloomFilterInsert(d, Absent, cfg, NoMetrics, TRUE, rnd)
  <2>1. Parsed(d).err = Ok /\ Parsed(d).cmd = d
    BY DEF Parsed
  <2>. QED BY <1>2, <1>5, <2>1 DEF Replicated, Execute, Handle, v
<1>7. ScaleToError(d, p, ~ TRUE, cfg.limit) = Ok
  BY <1>2 DEF ScaleToError
<1>8. out = CreateAndAdd(d, p, NoMetrics, TRUE, ~ TRUE, cfg.limit)
  <2>1. Absent # Foreign /\ ~ IsObject(Absent)
    BY ValueAssumption DEF IsObject
  <2>. QED BY <1>2, <1>6, <1>7, <2>1 DEF BloomFilterInsert
<1>9. CreateError(p, FALSE, cfg.limit) = Ok
  BY DEF CreateError
<1>10. out = Outcome(h.obj, h.metrics, h.err, AddReply(h), <<ReplicaInsert(d.key, o, d.items)>>,
                     {"bloom.reserve"} \union (IF AddSucceeded(h) THEN {"bloom.add"} ELSE {}))
  <2>1. (~ TRUE) = FALSE
    OBVIOUS
  <2>2. out = CreateAndAdd(d, p, NoMetrics, TRUE, FALSE, cfg.limit)
    BY <1>8, <2>1
  <2>. QED BY <1>2, <1>9, <2>2 DEF CreateAndAdd
<1>. HIDE DEF out, h
<1>11. out.val = h.obj /\ out.reply = [err |-> h.err, ints |-> AddReply(h)]
  BY <1>10 DEF Outcome
<1>. QED BY <1>11 DEF out, h, d, AddedFreely

LEMMA ParsedName ==
  ASSUME NEW n \in CommandNames, NEW v, Composed(v), Parse(n, v).err = Ok
  PROVE  Parse(n, v).cmd.name = n
<1>1. CASE n \in {"BF.ADD", "BF.MADD"}
  <2>1. Parse(n, v) = ParseAdd(n, v)
    BY <1>1 DEF Parse
  <2>2. ParseAdd(n, v) = Parsed(Command(n, v[1], SubSeq(v, 2, Len(v))))
    BY <2>1 DEF ParseAdd, Refused, Ok
  <2>. QED BY <2>1, <2>2 DEF Parsed, Command
<1>2. CASE n = "BF.RESERVE"
  <2> DEFINE e == ReserveExpansion(v)
             c0 == Command("BF.RESERVE", v[1], <<>>)
             c == [c0 EXCEPT !.fp = AsRate[v[2]], !.cap = AsInteger[v[3]],
                             !.expansion = e.expansion]
  <2>1. Parse(n, v) = ParseReserve(v)
    BY <1>2 DEF Parse
  <2>2. ParseReserve(v) = Parsed(c)
    BY <2>1 DEF ParseReserve, Refused, Ok
  <2>3. c.name = "BF.RESERVE"
    BY DEF Command
  <2>. HIDE DEF c
  <2>. QED BY <1>2, <2>1, <2>2, <2>3 DEF Parsed
<1>3. CASE n = "BF.INSERT"
  <2> DEFINE L == Len(v)
  <2>1. Parse(n, v) = ParseInsert(v)
    BY <1>3 DEF Parse
  <2>2. v # <<>>
    BY <2>1 DEF ParseInsert, Refused, Ok
  <2>3. PICK turn :
           /\ TurnsOver(v, turn)
           /\ ParseInsert(v) = IF turn[L].err # Ok THEN Refused(turn[L].err)
                               ELSE Parsed(turn[L].cmd)
    BY <2>2, ParseSteps
  <2>4. L \in 0..L
    BY DEF Composed
  <2>5. turn[L] \in Parsing(v)
    BY <2>3, <2>4 DEF TurnsOver
  <2>6. turn[L].cmd.name = "BF.INSERT"
    BY <2>5 DEF Parsing, ParserState, DraftType
  <2>7. turn[L].err = Ok
    BY <2>1, <2>3 DEF Refused
  <2>. QED BY <1>3, <2>1, <2>3, <2>6, <2>7 DEF Parsed
<1>. QED BY <1>1, <1>2, <1>3 DEF CommandNames

\* What a creation leaves and answers is what its items, added unvalidated and as
\* a batch, leave and answer.
Copied(c, p, limit, out) ==
  LET o == NewReserved(p)
      h == AddedFreely(o, c.items, limit)
  IN  /\ out.repl[1] = ReplicaInsert(c.key, o, c.items)
      /\ out.val = h.obj /\ out.reply = [err |-> h.err, ints |-> AddReply(h)]

LEMMA EmptyBatch ==
  ASSUME NEW o \in Object, WellFormed(o), NEW m \in Counters, NEW items \in Seq(Item),
         NEW multi \in BOOLEAN, ~ multi => FALSE, NEW validate \in BOOLEAN, NEW limit
  PROVE  Len(items) < 1 =>
           LET g == HandleAdd(o, m, items, multi, validate, limit)
           IN  g.obj = o /\ g.err = Ok /\ g.ints = <<>>
BY NothingToAdd

LEMMA BatchAsOne ==
  ASSUME NEW p \in PropertyType, NEW m \in Counters, NEW items \in Seq(Item), NEW limit,
         NEW yes \in BOOLEAN, ~ yes => FALSE, NEW no \in BOOLEAN, ~ no
  PROVE  LET o == NewReserved(p)
             g == HandleAdd(o, m, items, yes, no, limit)
             h == HandleAdd(o, m, items, yes, yes, limit)
         IN  /\ Len(items) = 1 => g = HandleAdd(o, m, items, no, yes, limit)
             /\ (ValidateAddItems(o, Cardinality(NewItems(o, items)), limit) = Ok => h.err = Ok)
                  => g = h
<1> DEFINE o == NewReserved(p)
           valid == ValidateAddItems(o, Cardinality(NewItems(o, items)), limit) = Ok
           g == HandleAdd(o, m, items, yes, no, limit)
           h == HandleAdd(o, m, items, yes, yes, limit)
           k == HandleAdd(o, m, items, no, yes, limit)
<1>1. Len(items) = 1 => g = k
  BY OneIsABatch
<1>2. (valid => h.err = Ok) => g = h
  <2>1. o \in Object /\ WellFormed(o)
    BY NewReservedPreserves
  <2>. HIDE DEF o
  <2>. QED BY <2>1, FreeBatch
<1>. QED BY <1>1, <1>2

LEMMA CreateAndAddCopied ==
  ASSUME NEW c, NEW p \in PropertyType, c.items \in Seq(Item), NEW limit, NEW multi \in BOOLEAN
  PROVE  LET o == NewReserved(p)
             out == CreateAndAdd(c, p, NoMetrics, multi, TRUE, limit)
         IN  /\ ~ multi => Len(c.items) = 1
             /\ multi /\ ValidateAddItems(o, Cardinality(NewItems(o, c.items)), limit) = Ok =>
                  HandleAdd(o, NewReservedMetrics(NoMetrics, o), c.items, TRUE, TRUE, limit).err = Ok
             => (out.repl # <<>> => Copied(c, p, limit, out))
<1> DEFINE o == NewReserved(p)
           m == NewReservedMetrics(NoMetrics, o)
           items == c.items
           h == HandleAdd(o, m, items, multi, TRUE, limit)
           g == HandleAdd(o, m, items, TRUE, FALSE, limit)
           sent == ReplicaInsert(c.key, o, items)
           ints == AddReply(h)
           events == {"bloom.reserve"} \union (IF AddSucceeded(h) THEN {"bloom.add"} ELSE {})
           out == CreateAndAdd(c, p, NoMetrics, multi, TRUE, limit)
<1>1. SUFFICES ASSUME /\ ~ multi => Len(items) = 1
                      /\ multi /\ ValidateAddItems(o, Cardinality(NewItems(o, items)), limit) = Ok =>
                           HandleAdd(o, m, items, TRUE, TRUE, limit).err = Ok,
                      out.repl # <<>>
               PROVE  Copied(c, p, limit, out)
  OBVIOUS
<1>2. m \in Counters /\ items \in Seq(Item)
  BY NewReservedPreserves, NoMetricsTyped
<1>3. CreateError(p, TRUE, limit) = Ok
  BY <1>1 DEF CreateAndAdd, Rejected, Outcome
<1>4. out = Outcome(h.obj, h.metrics, h.err, ints, <<sent>>, events)
  BY <1>3 DEF CreateAndAdd
<1>5. g = h
  <2> DEFINE yes == TRUE
             no == FALSE
  <2>1. yes \in BOOLEAN /\ (~ yes => FALSE) /\ no \in BOOLEAN /\ ~ no
    OBVIOUS
  <2> DEFINE valid == ValidateAddItems(o, Cardinality(NewItems(o, items)), limit) = Ok
             batch(b) == HandleAdd(o, m, items, yes, b, limit)
             one == HandleAdd(o, m, items, no, yes, limit)
  <2>2. /\ Len(items) = 1 => batch(no) = one
        /\ (valid => batch(yes).err = Ok) => batch(no) = batch(yes)
    <3>. HIDE DEF m, items, yes, no
    <3>. QED BY <1>2, <2>1, BatchAsOne
  <2>3. CASE multi
    <3>1. multi = TRUE
      BY <2>3
    <3>. QED BY <1>1, <2>2, <3>1
  <2>4. CASE ~ multi
    <3>1. multi = FALSE
      BY <2>4
    <3>. QED BY <1>1, <2>2, <3>1
  <2>. QED BY <2>3, <2>4
<1>. HIDE DEF out, h, g, sent, ints, events
<1>6. out.val = h.obj /\ out.reply = [err |-> h.err, ints |-> ints] /\ out.repl[1] = sent
  BY <1>4 DEF Outcome
<1>7. out.reply = [err |-> g.err, ints |-> AddReply(g)]
  BY <1>5, <1>6 DEF ints
<1>. QED BY <1>5, <1>6, <1>7 DEF Copied, AddedFreely, sent, g

LEMMA ReserveCopied ==
  ASSUME NEW c, NEW cfg, NEW rnd, NEW p \in PropertyType, p = Properties(c, cfg, rnd),
         c.items \in Seq(Item)
  PROVE  LET out == BloomFilterReserve(c, Absent, cfg, NoMetrics, FALSE, rnd)
         IN  c.items = <<>> => (out.repl # <<>> => Copied(c, p, cfg.limit, out))
<1> DEFINE o == NewReserved(p)
           m == NewReservedMetrics(NoMetrics, o)
           g == HandleAdd(o, m, c.items, TRUE, FALSE, cfg.limit)
           sent == ReplicaInsert(c.key, o, <<>>)
           out == BloomFilterReserve(c, Absent, cfg, NoMetrics, FALSE, rnd)
<1>1. /\ o \in Object /\ WellFormed(o) /\ m \in Counters
  BY NewReservedPreserves, NoMetricsTyped
<1>2. Absent # Foreign /\ ~ IsObject(Absent)
  BY ValueAssumption DEF IsObject
<1>3. Len(c.items) < 1 => g.obj = o /\ g.err = Ok /\ g.ints = <<>>
  <2> DEFINE items == c.items
             limit == cfg.limit
             yes == TRUE
             no == FALSE
  <2>1. items \in Seq(Item) /\ yes \in BOOLEAN /\ (~ yes => FALSE) /\ no \in BOOLEAN
    OBVIOUS
  <2>. HIDE DEF items, limit, o, m, yes, no
  <2>2. Len(items) < 1 =>
          LET h == HandleAdd(o, m, items, yes, no, limit)
          IN  h.obj = o /\ h.err = Ok /\ h.ints = <<>>
    BY <1>1, <2>1, EmptyBatch
  <2>. QED BY <2>2 DEF items, limit, yes, no
<1>4. SUFFICES ASSUME c.items = <<>>, out.repl # <<>> PROVE Copied(c, p, cfg.limit, out)
  OBVIOUS
<1>5. out = Outcome(o, m, Ok, <<>>, <<sent>>, {"bloom.reserve"})
  BY <1>2, <1>4 DEF BloomFilterReserve, Rejected, Outcome
<1>6. g.obj = o /\ g.err = Ok /\ g.ints = <<>>
  <2>1. Len(c.items) < 1
    BY <1>4
  <2>. HIDE DEF g, o
  <2>. QED BY <1>3, <2>1
<1>7. sent = ReplicaInsert(c.key, o, c.items)
  BY <1>4
<1>. HIDE DEF out, g, sent, o, m
<1>8. out.val = o /\ out.reply = [err |-> Ok, ints |-> <<>>] /\ out.repl[1] = sent
  BY <1>5 DEF Outcome
<1>9. AddReply(g) = <<>>
  BY <1>6 DEF AddReply
<1>10. out.val = g.obj /\ out.reply = [err |-> g.err, ints |-> AddReply(g)]
  BY <1>6, <1>8, <1>9
<1>. QED BY <1>7, <1>8, <1>10 DEF Copied, AddedFreely, g, o, m

LEMMA CreationIsCopied ==
  ASSUME EverythingSpelled, RequestsInv, BatchesFit, NEW cfg \in Configs, NEW rnd \in RandomSeeds,
         Created(cfg, rnd).repl # <<>>
  PROVE  LET c == Parse(name, args).cmd
             p == Properties(c, cfg, rnd)
         IN  /\ p \in PropertyType
             /\ Spellable(ReplicaInsert(c.key, NewReserved(p), c.items))
             /\ Copied(c, p, cfg.limit, Created(cfg, rnd))
<1> DEFINE parse == Parse(name, args)
           c == parse.cmd
           p == Properties(c, cfg, rnd)
           o == NewReserved(p)
           m == NewReservedMetrics(NoMetrics, o)
           out == Created(cfg, rnd)
           limit == cfg.limit
<1>1. name \in CommandNames /\ Composed(args)
  BY DEF RequestsInv
<1>2. parse.err = Ok
  BY DEF Created, Execute, Rejected, Outcome
<1>3. /\ c \in CommandType /\ c.name = name /\ Legible(c)
      /\ name = "BF.ADD" => Len(c.items) = 1
      /\ name = "BF.RESERVE" => c.items = <<>>
  BY <1>1, <1>2, ParserAccepts, ParsedName, ParsedIsLegible
<1>4. p \in PropertyType /\ Spellable(ReplicaInsert(c.key, o, c.items))
  <2>. HIDE DEF c
  <2>. QED BY <1>3, CreatedIsSpellable
<1>5. ValidateAddItems(o, Cardinality(NewItems(o, c.items)), limit) = Ok =>
        HandleAdd(o, m, c.items, TRUE, TRUE, limit).err = Ok
  BY <1>2 DEF BatchesFit
<1>6. out = Handle(c, Absent, cfg, NoMetrics, FALSE, rnd)
  BY <1>2 DEF Created, Execute
<1>7. Absent # Foreign /\ ~ IsObject(Absent)
  BY ValueAssumption DEF IsObject
<1>8. c.items \in Seq(Item) /\ out.repl # <<>>
  BY <1>3 DEF CommandType
<1>. HIDE DEF c, parse, out
<1>9. (~ FALSE) = TRUE
  OBVIOUS
<1>10. CASE name = "BF.RESERVE"
  <2>1. out = BloomFilterReserve(c, Absent, cfg, NoMetrics, FALSE, rnd)
    BY <1>3, <1>6, <1>10 DEF Handle
  <2>2. c.items = <<>>
    BY <1>3, <1>10
  <2>3. LET new == BloomFilterReserve(c, Absent, cfg, NoMetrics, FALSE, rnd)
        IN  c.items = <<>> => (new.repl # <<>> => Copied(c, p, cfg.limit, new))
    <3>. HIDE DEF p
    <3>1. p = Properties(c, cfg, rnd)
      BY DEF p
    <3>. QED BY <1>4, <1>8, <3>1, ReserveCopied
  <2>4. Copied(c, p, cfg.limit, out)
    BY <1>8, <2>1, <2>2, <2>3
  <2>. QED BY <1>4, <2>4 DEF c, parse, out
<1>11. ASSUME NEW multi \in BOOLEAN, ~ multi => Len(c.items) = 1,
              out = CreateAndAdd(c, p, NoMetrics, multi, TRUE, limit)
       PROVE  Copied(c, p, limit, out)
  <2>1. LET new == CreateAndAdd(c, p, NoMetrics, multi, TRUE, limit)
        IN  /\ ~ multi => Len(c.items) = 1
            /\ multi /\ ValidateAddItems(o, Cardinality(NewItems(o, c.items)), limit) = Ok =>
                 HandleAdd(o, m, c.items, TRUE, TRUE, limit).err = Ok
            => (new.repl # <<>> => Copied(c, p, limit, new))
    <3>. HIDE DEF p, limit
    <3>. QED BY <1>4, <1>8, CreateAndAddCopied
  <2>. QED BY <1>5, <1>8, <1>11, <2>1
<1>12. CASE name = "BF.INSERT"
  <2> DEFINE multi == TRUE
  <2>1. out = CreateAndAdd(c, p, NoMetrics, TRUE, TRUE, limit)
    BY <1>3, <1>6, <1>7, <1>8, <1>9, <1>12 DEF Handle, BloomFilterInsert, Rejected, Outcome
  <2>2. multi \in BOOLEAN /\ (~ multi => Len(c.items) = 1)
        /\ out = CreateAndAdd(c, p, NoMetrics, multi, TRUE, limit)
    BY <2>1
  <2>. HIDE DEF multi, p, limit
  <2>3. Copied(c, p, limit, out)
    BY <1>11, <2>2
  <2>. QED BY <1>4, <2>3 DEF c, parse, out, p, limit
<1>13. CASE name \in {"BF.ADD", "BF.MADD"}
  <2> DEFINE multi == c.name = "BF.MADD"
  <2>1. out = BloomFilterAddValue(c, Absent, cfg, NoMetrics, FALSE, rnd)
    BY <1>3, <1>6, <1>13 DEF Handle
  <2>2. out = CreateAndAdd(c, p, NoMetrics, multi, TRUE, limit)
    BY <1>7, <1>9, <2>1 DEF BloomFilterAddValue
  <2>3. multi \in BOOLEAN /\ (~ multi => Len(c.items) = 1)
    BY <1>3, <1>13
  <2>. HIDE DEF multi, p, limit
  <2>4. Copied(c, p, limit, out)
    BY <1>11, <2>2, <2>3
  <2>. QED BY <1>4, <2>4 DEF c, parse, out, p, limit
<1>. QED BY <1>1, <1>10, <1>12, <1>13 DEF CommandNames

\* The memory limits of the nodes exclude objects of MaxFilters filters.
SmallLimits == \A cfg \in Configs : cfg.limit < MaxFilters * FilterBytes

LEMMA CreationsFit ==
  ASSUME SmallLimits, RequestsInv
  PROVE  BatchesFit
<1> DEFINE parse == Parse(name, args)
           c == parse.cmd
<1>1. name \in CommandNames /\ Composed(args) /\ Configs \subseteq Config
  BY TokenAssumption DEF RequestsInv
<1>2. parse.err = Ok => c \in CommandType
  BY <1>1, ParserAccepts
<1>. HIDE DEF c, parse
<1>3. ASSUME parse.err = Ok, NEW cfg \in Configs, NEW rnd \in RandomSeeds
      PROVE  LET o == NewReserved(Properties(c, cfg, rnd))
                 m == NewReservedMetrics(NoMetrics, o)
             IN  ValidateAddItems(o, Cardinality(NewItems(o, c.items)), cfg.limit) = Ok =>
                   HandleAdd(o, m, c.items, TRUE, TRUE, cfg.limit).err = Ok
  <2> DEFINE p == Properties(c, cfg, rnd)
             o == NewReserved(p)
             m == NewReservedMetrics(NoMetrics, o)
             limit == cfg.limit
             items == c.items
             yes == TRUE
  <2>1. cfg \in Config /\ rnd \in Seeds \ {FixedSeed} /\ c \in CommandType
    BY <1>1, <1>2, <1>3 DEF RandomSeeds
  <2>2. p \in PropertyType
    BY <2>1, PropertiesTyped
  <2>3. limit \in Nat /\ limit < MaxFilters * FilterBytes /\ items \in Seq(Item)
    BY <2>1 DEF Config, SmallLimits, CommandType
  <2>4. yes \in BOOLEAN /\ (~ yes => FALSE)
    OBVIOUS
  <2>. HIDE DEF p, limit, items, yes
  <2>5. o \in Object /\ WellFormed(o) /\ m \in Counters /\ Pushed(o.vcap, Len(o.filters))
    BY <2>2, NoMetricsTyped, NewReservedPreserves, NewReservedPushed
  <2>. HIDE DEF o, m
  <2>6. ValidateAddItems(o, Cardinality(NewItems(o, items)), limit) = Ok =>
          HandleAdd(o, m, items, yes, yes, limit).err = Ok
    BY <2>3, <2>4, <2>5, PushedBatchFits
  <2>. QED BY <2>6 DEF p, o, m, limit, items, yes
<1>. QED BY <1>3 DEF BatchesFit, c, parse

\* validate_add_items (command_handler.rs:58) and the loop that adds agree: on the
\* object that a request creates, no item of a batch that is let through is refused
\* half way, for any batch, hash function, rate, tightening and expansion.
THEOREM ValidatedBatchesFit ==
  ASSUME SmallLimits
  PROVE  Spec => []BatchesFit
<1>1. Init => RequestsInv
  BY InitiallyComposed
<1>2. RequestsInv /\ [Next]_rvars => RequestsInv'
  BY Composing
<1>3. RequestsInv => BatchesFit
  BY CreationsFit
<1>. QED BY <1>1, <1>2, <1>3, PTL DEF Spec

\* replicate_and_notify_events (command_handler.rs:123) propagates a creation as a
\* BF.INSERT with every property spelled out: whatever was asked for, a replica
\* parses those arguments to the same object, items and reply, whatever its own
\* defaults and random draws.  The nodes have one limit.
THEOREM CreationsReplicate ==
  ASSUME EverythingSpelled, OneLimit, SmallLimits
  PROVE  Spec => []CreationReplicates
<1>1. Init => RequestsInv
  BY InitiallyComposed
<1>2. RequestsInv /\ [Next]_rvars => RequestsInv'
  BY Composing
<1>3. RequestsInv => CreationReplicates
  <2>1. SUFFICES ASSUME RequestsInv, NEW cfg \in Configs, NEW other \in Configs,
                        NEW rnd \in RandomSeeds, NEW rnd2 \in RandomSeeds
                 PROVE  ReplicatesTo(Created(cfg, rnd), other, rnd2)
    BY DEF CreationReplicates
  <2>8. BatchesFit
    BY <2>1, CreationsFit
  <2> DEFINE out == Created(cfg, rnd)
             c == Parse(name, args).cmd
             p == Properties(c, cfg, rnd)
             o == NewReserved(p)
             d == ReplicaInsert(c.key, o, c.items)
             copy == Replicated(d, other, rnd2)
             limit == cfg.limit
             h == AddedFreely(o, c.items, limit)
  <2>2. SUFFICES ASSUME out.repl # <<>> PROVE SameResult(out, Replicated(out.repl[1], other, rnd2))
    BY DEF ReplicatesTo
  <2>3. p \in PropertyType /\ Spellable(d) /\ Copied(c, p, limit, out)
    BY <2>1, <2>2, <2>8, CreationIsCopied
  <2>4. limit = other.limit
    BY DEF OneLimit
  <2>5. out.repl[1] = d /\ out.val = h.obj /\ out.reply = [err |-> h.err, ints |-> AddReply(h)]
    BY <2>3 DEF Copied
  <2>6. copy.val = h.obj /\ copy.reply = [err |-> h.err, ints |-> AddReply(h)]
    <3> DEFINE key == c.key
               items == c.items
               g == AddedFreely(o, items, other.limit)
    <3>1. copy.val = g.obj /\ copy.reply = [err |-> g.err, ints |-> AddReply(g)]
      <4>. HIDE DEF key, items, p
      <4>1. Spellable(ReplicaInsert(key, NewReserved(p), items))
        BY <2>3 DEF key, items
      <4>2. LET e == ReplicaInsert(key, NewReserved(p), items)
                r == Replicated(e, other, rnd2)
            IN  r.val = g.obj /\ r.reply = [err |-> g.err, ints |-> AddReply(g)]
        BY <2>3, <4>1, ReplicaCreates
      <4>. QED BY <4>2 DEF key, items
    <3>2. g = h
      BY <2>4
    <3>. QED BY <3>1, <3>2
  <2>. HIDE DEF out, copy, h, d
  <2>7. SameResult(out, copy)
    BY <2>5, <2>6 DEF SameResult
  <2>. QED BY <2>5, <2>7 DEF copy, out
<1>. QED BY <1>1, <1>2, <1>3, PTL DEF Spec

(*************** what is read of an object that was created ****************)

LEMMA Glued ==
  ASSUME NEW S, NEW p \in Seq(S), NEW q \in Seq(S), NEW u \in Seq(S),
         Len(u) = Len(p) + Len(q), \A i \in 1..Len(p) : u[i] = p[i],
         \A i \in 1..Len(q) : u[Len(p) + i] = q[i]
  PROVE  p \o q = u
<1> DEFINE t == p \o q
<1>1. t \in Seq(S) /\ Len(t) = Len(p) + Len(q) /\ Len(p) \in Nat /\ Len(q) \in Nat
  OBVIOUS
<1>2. ASSUME NEW i \in 1..Len(t) PROVE t[i] = u[i]
  <2>1. CASE i <= Len(p)
    BY <1>1, <2>1
  <2>2. CASE ~ (i <= Len(p))
    <3>1. i - Len(p) \in 1..Len(q) /\ Len(p) + (i - Len(p)) = i
      BY <1>1, <2>2
    <3>. QED BY <1>1, <2>2, <3>1
  <2>. QED BY <2>1, <2>2
<1>. HIDE DEF t
<1>3. t = u
  BY <1>1, <1>2, SeqEqual
<1>. QED BY <1>3 DEF t

LEMMA FiveAndOne ==
  ASSUME NEW a, NEW b, NEW c, NEW d, NEW e, NEW f
  PROVE  <<a, b, c, d, e>> \o <<f>> = <<a, b, c, d, e, f>>
<1> DEFINE S == {a, b, c, d, e, f}
           p == <<a, b, c, d, e>>
           q == <<f>>
           u == <<a, b, c, d, e, f>>
<1>1. p \in Seq(S) /\ q \in Seq(S) /\ u \in Seq(S) /\ Len(p) = 5 /\ Len(q) = 1 /\ Len(u) = 6
  OBVIOUS
<1>2. (\A i \in 1..5 : u[i] = p[i]) /\ (\A i \in 1..1 : u[5 + i] = q[i])
  OBVIOUS
<1>. HIDE DEF S, p, q, u
<1>3. /\ Len(u) = Len(p) + Len(q) /\ \A i \in 1..Len(p) : u[i] = p[i]
      /\ \A i \in 1..Len(q) : u[Len(p) + i] = q[i]
  BY <1>1, <1>2
<1>4. p \o q = u
  BY <1>1, <1>3, Glued
<1>. QED BY <1>4 DEF p, q, u

LEMMA FiveAndThree ==
  ASSUME NEW a, NEW b, NEW c, NEW d, NEW e, NEW f, NEW g, NEW h
  PROVE  <<a, b, c, d, e>> \o <<f, g, h>> = <<a, b, c, d, e, f, g, h>>
<1> DEFINE S == {a, b, c, d, e, f, g, h}
           p == <<a, b, c, d, e>>
           q == <<f, g, h>>
           u == <<a, b, c, d, e, f, g, h>>
<1>1. p \in Seq(S) /\ q \in Seq(S) /\ u \in Seq(S) /\ Len(p) = 5 /\ Len(q) = 3 /\ Len(u) = 8
  OBVIOUS
<1>2. (\A i \in 1..5 : u[i] = p[i]) /\ (\A i \in 1..3 : u[5 + i] = q[i])
  OBVIOUS
<1>. HIDE DEF S, p, q, u
<1>3. /\ Len(u) = Len(p) + Len(q) /\ \A i \in 1..Len(p) : u[i] = p[i]
      /\ \A i \in 1..Len(q) : u[Len(p) + i] = q[i]
  BY <1>1, <1>2
<1>4. p \o q = u
  BY <1>1, <1>3, Glued
<1>. QED BY <1>4 DEF p, q, u

LEMMA SixAndTwo ==
  ASSUME NEW a, NEW b, NEW c, NEW d, NEW e, NEW f, NEW g, NEW h
  PROVE  <<a, b, c, d, e, f>> \o <<g, h>> = <<a, b, c, d, e, f, g, h>>
<1> DEFINE S == {a, b, c, d, e, f, g, h}
           p == <<a, b, c, d, e, f>>
           q == <<g, h>>
           u == <<a, b, c, d, e, f, g, h>>
<1>1. p \in Seq(S) /\ q \in Seq(S) /\ u \in Seq(S) /\ Len(p) = 6 /\ Len(q) = 2 /\ Len(u) = 8
  OBVIOUS
<1>2. (\A i \in 1..6 : u[i] = p[i]) /\ (\A i \in 1..2 : u[6 + i] = q[i])
  OBVIOUS
<1>. HIDE DEF S, p, q, u
<1>3. /\ Len(u) = Len(p) + Len(q) /\ \A i \in 1..Len(p) : u[i] = p[i]
      /\ \A i \in 1..Len(q) : u[Len(p) + i] = q[i]
  BY <1>1, <1>2
<1>4. p \o q = u
  BY <1>1, <1>3, Glued
<1>. QED BY <1>4 DEF p, q, u

\* BF.INFO key is made of what BF.INFO key FIELD answers.
LEMMA InfoIsItsFields ==
  ASSUME NEW o \in Object, NEW key, NEW limit
  PROVE  InfoAgrees(BloomFilterInfo(<<key>>, o, limit),
                    [i \in DOMAIN InfoWords(o) |-> InfoField(o, InfoWords(o)[i], limit)])
<1> DEFINE words == InfoWords(o)
           F(w) == InfoField(o, w, limit)
           fields == [i \in DOMAIN words |-> F(words[i])]
           max == MaxScaledCapacity(o, limit)
           all == InfoAll(o, limit)
           cap == Capacity(o)
           mem == MemoryUsage(o)
           len == Len(o.filters)
           num == NumItems(o)
           main == <<cap, mem, len, num, o.fp>>
<1>1. BloomFilterInfo(<<key>>, o, limit) = all
  <2>1. IsObject(o) /\ o # Foreign
    BY ObjectsAreValues DEF IsObject
  <2>2. Len(<<key>>) = 1
    OBVIOUS
  <2>. HIDE DEF all
  <2>. QED BY <2>1, <2>2 DEF BloomFilterInfo, all
<1>2. o.expansion \in Nat
  BY DEF Object
<1>3. /\ F("CAPACITY") = Answer(Ok, cap) /\ F("SIZE") = Answer(Ok, mem)
      /\ F("FILTERS") = Answer(Ok, len) /\ F("ITEMS") = Answer(Ok, num)
      /\ F("ERROR") = Answer(Ok, o.fp)
      /\ F("EXPANSION") = Answer(Ok, IF o.expansion = 0 THEN Null ELSE o.expansion)
  BY DEF InfoField
<1>4. o.expansion > 0 =>
        F("TIGHTENING") = Answer(Ok, o.tr) /\ F("MAXSCALEDCAPACITY") = Answer(max.err, max.capacity)
  BY DEF InfoField
<1>5. \A err, val : Answer(err, val).err = err /\ Answer(err, val).val = val
  BY DEF Answer
<1>6. CASE o.expansion = 0
  <2>1. words = <<"CAPACITY", "SIZE", "FILTERS", "ITEMS", "ERROR", "EXPANSION">>
    BY <1>6 DEF InfoWords
  <2>2. all = Answer(Ok, main \o <<Null>>)
    BY <1>6 DEF InfoAll
  <2>3. main \o <<Null>> = <<cap, mem, len, num, o.fp, Null>>
    <3>. HIDE DEF cap, mem, len, num
    <3>. QED BY FiveAndOne
  <2>. HIDE DEF F, all, words, cap, mem, len, num
  <2>4. /\ fields = <<F("CAPACITY"), F("SIZE"), F("FILTERS"), F("ITEMS"), F("ERROR"), F("EXPANSION")>>
    BY <2>1
  <2>5. fields = <<Answer(Ok, cap), Answer(Ok, mem), Answer(Ok, len), Answer(Ok, num),
                   Answer(Ok, o.fp), Answer(Ok, Null)>>
    BY <1>3, <1>6, <2>4
  <2>. HIDE DEF fields
  <2>6. \A i \in DOMAIN fields : fields[i].err = Ok
    BY <1>5, <2>5
  <2>7. [i \in DOMAIN fields |-> fields[i].val] = <<cap, mem, len, num, o.fp, Null>>
    BY <1>5, <2>5
  <2>8. all = Answer(Ok, [i \in DOMAIN fields |-> fields[i].val])
    BY <2>2, <2>3, <2>7
  <2>. QED BY <1>1, <2>6, <2>8 DEF InfoAgrees, fields, words, F
<1>7. CASE o.expansion > 0
  <2> DEFINE e == o.expansion
             r == o.tr
             c == max.capacity
             err == max.err
  <2>1. words = <<"CAPACITY", "SIZE", "FILTERS", "ITEMS", "ERROR", "EXPANSION", "TIGHTENING",
                  "MAXSCALEDCAPACITY">>
    <3>1. words = <<"CAPACITY", "SIZE", "FILTERS", "ITEMS", "ERROR", "EXPANSION">>
                    \o <<"TIGHTENING", "MAXSCALEDCAPACITY">>
      BY <1>7 DEF InfoWords
    <3>. QED BY <3>1, SixAndTwo
  <2>2. all = IF err # Ok THEN Answer(err, <<>>) ELSE Answer(Ok, main \o <<e, r, c>>)
    BY <1>7 DEF InfoAll
  <2>3. main \o <<e, r, c>> = <<cap, mem, len, num, o.fp, e, r, c>>
    <3>. HIDE DEF cap, mem, len, num, e, r, c
    <3>. QED BY FiveAndThree
  <2>4. /\ F("EXPANSION") = Answer(Ok, e) /\ F("TIGHTENING") = Answer(Ok, r)
        /\ F("MAXSCALEDCAPACITY") = Answer(err, c)
    BY <1>3, <1>4, <1>7
  <2>. HIDE DEF F, all, words, cap, mem, len, num, e, r, c, err
  <2>5. fields = <<F("CAPACITY"), F("SIZE"), F("FILTERS"), F("ITEMS"), F("ERROR"), F("EXPANSION"),
                   F("TIGHTENING"), F("MAXSCALEDCAPACITY")>>
    BY <2>1
  <2>6. fields = <<Answer(Ok, cap), Answer(Ok, mem), Answer(Ok, len), Answer(Ok, num),
                   Answer(Ok, o.fp), Answer(Ok, e), Answer(Ok, r), Answer(err, c)>>
    BY <1>3, <2>4, <2>5
  <2>. HIDE DEF fields
  <2>7. /\ 8 \in DOMAIN fields /\ fields[8].err = err
        /\ \A i \in DOMAIN fields : i # 8 => fields[i].err = Ok
    BY <1>5, <2>6
  <2>8. [i \in DOMAIN fields |-> fields[i].val] = <<cap, mem, len, num, o.fp, e, r, c>>
    BY <1>5, <2>6
  <2>9. IF err # Ok THEN all.err # Ok
        ELSE all = Answer(Ok, [i \in DOMAIN fields |-> fields[i].val])
    BY <1>5, <2>2, <2>3, <2>8
  <2>10. InfoAgrees(all, fields)
    BY <2>7, <2>9 DEF InfoAgrees
  <2>. QED BY <1>1, <2>10 DEF fields, words, F
<1>. QED BY <1>2, <1>6, <1>7

\* A key in front of the items, as BF.MEXISTS takes them.
LEMMA KeyInFront ==
  ASSUME NEW key \in Item, NEW items \in Seq(Item)
  PROVE  LET v == <<key>> \o items
         IN  Len(v) - 1 = Len(items) /\ \A i \in 1..Len(items) : v[i + 1] = items[i]
<1>1. <<key>> \in Seq(Item) /\ Len(<<key>>) = 1
  OBVIOUS
<1> DEFINE v == <<key>> \o items
<1>2. Len(v) = 1 + Len(items) /\ \A i \in 1..Len(items) : v[1 + i] = items[i]
  BY <1>1
<1>3. Len(items) \in Nat
  OBVIOUS
<1>. HIDE DEF v
<1>4. \A i \in 1..Len(items) : v[i + 1] = items[i]
  <2>. TAKE i \in 1..Len(items)
  <2>1. i + 1 = 1 + i
    BY <1>3
  <2>. QED BY <1>2, <2>1
<1>. QED BY <1>2, <1>3, <1>4 DEF v

\* bloom_filter_exists answers 1 for every item when the object has them all.
LEMMA AllFound ==
  ASSUME NEW o \in Object, NEW key \in Item, NEW items \in Seq(Item), items # <<>>,
         \A x \in Range(items) : ItemExists(o, x)
  PROVE  BloomFilterExists("BF.MEXISTS", <<key>> \o items, o)
           = Answer(Ok, [i \in DOMAIN items |-> 1])
<1> DEFINE v == <<key>> \o items
           n == Len(items)
           found == [i \in 1..(Len(v) - 1) |-> ItemExistsIn(o, v[i + 1])]
<1>1. n \in Nat /\ n # 0 /\ DOMAIN items = 1..n
  BY EmptySeq
<1>2. Len(v) - 1 = n /\ \A i \in 1..n : v[i + 1] = items[i]
  BY KeyInFront
<1>3. v \in Seq(Item)
  OBVIOUS
<1>4. IsObject(o) /\ o # Foreign
  BY ObjectsAreValues DEF IsObject
<1>. HIDE DEF v, n
<1>5. Len(v) = n + 1
  BY <1>1, <1>2, <1>3
<1>6. \A i \in 1..n : ItemExistsIn(o, v[i + 1]) = 1
  <2>. TAKE i \in 1..n
  <2>1. items[i] \in Range(items)
    BY <1>1 DEF Range
  <2>. QED BY <1>2, <1>4, <2>1 DEF ItemExistsIn
<1>7. found = [i \in DOMAIN items |-> 1]
  BY <1>1, <1>2, <1>6
<1>8. BloomFilterExists("BF.MEXISTS", v, o) = Answer(Ok, found)
  <2>1. ~ (Len(v) < 2) /\ "BF.MEXISTS" # "BF.EXISTS"
    BY <1>1, <1>5
  <2>. HIDE DEF found
  <2>. QED BY <1>4, <2>1 DEF BloomFilterExists, found
<1>. QED BY <1>7, <1>8 DEF v

\* What the reads answer about the outcome of a creation that succeeded.
LEMMA CreationIsRead ==
  ASSUME NEW c, c.key \in Item, c.items \in Seq(Item), NEW out, NEW validate, NEW limit, NEW most,
         Sound(c, Absent, out), Kept(Absent, NoMetrics, out, validate, limit, most),
         IsObject(out.val), out.reply.err = Ok
  PROVE  ReadsAgree(out.val, out.reply.ints, c.key, c.items, limit)
<1> DEFINE o == out.val
           ints == out.reply.ints
<1>1. o \in Object /\ \A x \in Range(c.items) : ItemExists(o, x)
  BY DEF Sound, IsObject
<1>2. NumItemsAt(o) - NumItemsAt(Absent) = Cardinality(Ones(ints))
  BY DEF Kept, Counted
<1>3. NumItemsAt(Absent) = 0 /\ NumItemsAt(o) = NumItems(o) /\ NumItems(o) \in Nat
  BY <1>1, NothingCounts, ChangeTyped, ValueAssumption
<1>4. NumItems(o) = Cardinality(Ones(ints))
  BY <1>2, <1>3
<1>5. BloomFilterCard(<<c.key>>, o).val = NumItems(o)
  <2>1. Len(<<c.key>>) = 1 /\ o # Foreign
    BY DEF IsObject
  <2>. HIDE DEF o
  <2>. QED BY <2>1, <1>1, ObjectsAreValues DEF BloomFilterCard, Answer
<1>. HIDE DEF o, ints
<1>6. InfoAgrees(BloomFilterInfo(<<c.key>>, o, limit),
                 [i \in DOMAIN InfoWords(o) |-> InfoField(o, InfoWords(o)[i], limit)])
  BY <1>1, InfoIsItsFields
<1>7. c.items # <<>> => BloomFilterExists("BF.MEXISTS", <<c.key>> \o c.items, o)
                          = Answer(Ok, [i \in DOMAIN c.items |-> 1])
  BY <1>1, AllFound
<1>8. Cardinality({i \in DOMAIN ints : ints[i] = 1}) = NumItems(o)
  BY <1>4 DEF Ones
<1>9. ReadsAgree(o, ints, c.key, c.items, limit)
  BY <1>5, <1>6, <1>7, <1>8 DEF ReadsAgree
<1>. QED BY <1>9 DEF o, ints

\* A creation stores an object with the false positive rate it was given.
LEMMA CreationKeepsRate ==
  ASSUME NEW c, c.items \in Seq(Item), NEW p \in PropertyType, NEW m \in Counters,
         NEW multi \in BOOLEAN, ~ multi => Len(c.items) = 1, NEW validate, NEW limit
  PROVE  LET out == CreateAndAdd(c, p, m, multi, validate, limit)
         IN  IsObject(out.val) => out.val.fp = p.fp
<1> DEFINE o == NewReserved(p)
           k == NewReservedMetrics(m, o)
           h == HandleAdd(o, k, c.items, multi, validate, limit)
           e == CreateError(p, validate, limit)
           out == CreateAndAdd(c, p, m, multi, validate, limit)
<1>1. CASE e # Ok
  BY <1>1 DEF CreateAndAdd, Rejected, Outcome, IsObject
<1>2. CASE e = Ok
  <2>1. o \in Object /\ WellFormed(o) /\ k \in Counters /\ o.fp = p.fp
    BY NewReservedPreserves, NewReservedReads
  <2>2. out.val = h.obj
    BY <1>2 DEF CreateAndAdd, Outcome
  <2>. HIDE DEF o, k, out
  <2>3. Grown(o, h.obj)
    BY <2>1, HandleAddPreserves
  <2>. QED BY <2>1, <2>2, <2>3 DEF Grown, out
<1>. QED BY <1>1, <1>2

\* What every creation guarantees, whichever of the commands it comes from.
Creation(c, cfg, rnd, validate, out) ==
  /\ Sound(c, Absent, out)
  /\ Kept(Absent, NoMetrics, out, validate, cfg.limit, cfg.limit)
  /\ IsObject(out.val) => out.val.fp = Properties(c, cfg, rnd).fp

LEMMA HandledAsCreation ==
  ASSUME NEW c \in CommandType, c.name = "BF.ADD" => Len(c.items) = 1,
         c.name = "BF.RESERVE" => c.items = <<>>,
         NEW cfg \in Config, NEW rnd \in Seeds \ {FixedSeed}, NEW obey \in BOOLEAN
  PROVE  Creation(c, cfg, rnd, ~ obey, Handle(c, Absent, cfg, NoMetrics, obey, rnd))
<1> DEFINE p == Properties(c, cfg, rnd)
           out == Handle(c, Absent, cfg, NoMetrics, obey, rnd)
           limit == cfg.limit
<1>1. /\ p \in PropertyType /\ c.items \in Seq(Item) /\ NoMetrics \in Counters
      /\ c.name \in {"BF.ADD", "BF.MADD", "BF.RESERVE", "BF.INSERT"}
  BY PropertiesTyped, NoMetricsTyped DEF CommandType
<1>2. limit \in Nat /\ limit \in Int
  BY DEF Config
<1>3. /\ Absent \in Object \union {Absent, Foreign} /\ ~ IsObject(Absent) /\ Absent # Foreign
  BY ValueAssumption DEF IsObject
<1>. HIDE DEF p
<1>4. CASE c.name = "BF.RESERVE"
  <2>1. out = BloomFilterReserve(c, Absent, cfg, NoMetrics, obey, rnd)
    BY <1>4 DEF Handle
  <2>. HIDE DEF out
  <2>2. Sound(c, Absent, out)
    BY <1>1, <1>3, <1>4, <2>1, ReserveIsSound DEF p
  <2>3. Kept(Absent, NoMetrics, out, ~ obey, limit, limit)
    BY <1>1, <1>2, <1>3, <2>1, ReserveAccounts DEF p
  <2>4. IsObject(out.val) => out.val.fp = p.fp
    <3>1. NewReserved(p).fp = p.fp
      BY <1>1, NewReservedReads
    <3>. QED BY <1>3, <2>1, <3>1 DEF BloomFilterReserve, Rejected, Outcome, p
  <2>. QED BY <2>2, <2>3, <2>4 DEF Creation, p, out
<1>5. CASE c.name = "BF.INSERT"
  <2>1. out = BloomFilterInsert(c, Absent, cfg, NoMetrics, obey, rnd)
    BY <1>5 DEF Handle
  <2>. HIDE DEF out
  <2>2. Sound(c, Absent, out)
    BY <1>1, <1>3, <2>1, InsertIsSound DEF p
  <2>3. Kept(Absent, NoMetrics, out, ~ obey, limit, limit)
    BY <1>1, <1>2, <1>3, <2>1, InsertAccounts DEF p
  <2>4. IsObject(out.val) => out.val.fp = p.fp
    <3> DEFINE multi == TRUE
               new == CreateAndAdd(c, p, NoMetrics, multi, ~ obey, limit)
    <3>1. IsObject(out.val) => out = new
      BY <1>3, <2>1 DEF BloomFilterInsert, Rejected, Outcome, p
    <3>2. multi \in BOOLEAN /\ (~ multi => Len(c.items) = 1)
      OBVIOUS
    <3>3. IsObject(new.val) => new.val.fp = p.fp
      <4>. HIDE DEF multi, limit
      <4>. QED BY <1>1, <3>2, CreationKeepsRate
    <3>. HIDE DEF new
    <3>. QED BY <3>1, <3>3
  <2>. QED BY <2>2, <2>3, <2>4 DEF Creation, p, out
<1>6. CASE c.name \in {"BF.ADD", "BF.MADD"}
  <2>1. out = BloomFilterAddValue(c, Absent, cfg, NoMetrics, obey, rnd)
    BY <1>6 DEF Handle
  <2>2. c.name = "BF.MADD" \/ Len(c.items) = 1
    BY <1>6
  <2>. HIDE DEF out
  <2>3. Sound(c, Absent, out)
    BY <1>1, <1>3, <2>1, <2>2, AddValueIsSound DEF p
  <2>4. Kept(Absent, NoMetrics, out, ~ obey, limit, limit)
    BY <1>1, <1>2, <1>3, <2>1, <2>2, AddValueAccounts DEF p
  <2>5. IsObject(out.val) => out.val.fp = p.fp
    <3> DEFINE multi == c.name = "BF.MADD"
               new == CreateAndAdd(c, p, NoMetrics, multi, ~ obey, limit)
    <3>1. IsObject(out.val) => out = new
      BY <1>3, <2>1 DEF BloomFilterAddValue, Rejected, Outcome, p
    <3>2. multi \in BOOLEAN /\ (~ multi => Len(c.items) = 1)
      BY <2>2
    <3>3. IsObject(new.val) => new.val.fp = p.fp
      <4>. HIDE DEF multi, limit
      <4>. QED BY <1>1, <3>2, CreationKeepsRate
    <3>. HIDE DEF new
    <3>. QED BY <3>1, <3>3
  <2>. QED BY <2>3, <2>4, <2>5 DEF Creation, p, out
<1>. QED BY <1>1, <1>4, <1>5, <1>6

LEMMA CreatedIsRead ==
  ASSUME RequestsInv, NEW cfg \in Configs, NEW rnd \in RandomSeeds
  PROVE  ReadsReflect(Created(cfg, rnd), Parse(name, args).cmd, cfg)
<1> DEFINE parse == Parse(name, args)
           c == parse.cmd
           out == Created(cfg, rnd)
<1>1. SUFFICES ASSUME IsObject(out.val), out.reply.err = Ok
               PROVE  /\ ReadsAgree(out.val, out.reply.ints, c.key, c.items, cfg.limit)
                      /\ InfoField(out.val, "ERROR", cfg.limit).val = Given(c.fp, cfg.fp)
  BY DEF ReadsReflect
<1>2. name \in CommandNames /\ Composed(args)
  BY DEF RequestsInv
<1>3. parse.err = Ok
  BY <1>1 DEF Created, Execute, Rejected, Outcome
<1>4. /\ c \in CommandType /\ c.name = name
      /\ name = "BF.ADD" => Len(c.items) = 1
      /\ name = "BF.RESERVE" => c.items = <<>>
  BY <1>2, <1>3, ParserAccepts, ParsedName
<1> DEFINE obey == FALSE
<1>5. out = Handle(c, Absent, cfg, NoMetrics, obey, rnd)
  BY <1>3 DEF Created, Execute
<1>6. /\ cfg \in Config /\ rnd \in Seeds \ {FixedSeed} /\ obey \in BOOLEAN
      /\ c.key \in Item /\ c.items \in Seq(Item)
  BY <1>4, TokenAssumption DEF CommandType, RandomSeeds
<1>. HIDE DEF c, parse, out, obey
<1>7. Creation(c, cfg, rnd, ~ obey, out)
  BY <1>4, <1>5, <1>6, HandledAsCreation
<1>8. ReadsAgree(out.val, out.reply.ints, c.key, c.items, cfg.limit)
  BY <1>1, <1>6, <1>7, CreationIsRead DEF Creation
<1>9. InfoField(out.val, "ERROR", cfg.limit).val = Given(c.fp, cfg.fp)
  BY <1>1, <1>7 DEF Creation, InfoField, Answer, Properties
<1>. QED BY <1>8, <1>9

(***************************************************************************)
(* The read handlers agree with the write handlers: of an object that a    *)
(* request just created, BF.INFO answers the rate that was asked for, as a *)
(* whole what its fields answer one by one, BF.CARD counts the items that  *)
(* were answered 1, and BF.MEXISTS finds every item of the request.        *)
(***************************************************************************)
THEOREM ReadsAgreeWithWrites ==
  Spec => []ReadsReflectRequest
<1>1. Init => RequestsInv
  BY InitiallyComposed
<1>2. RequestsInv /\ [Next]_rvars => RequestsInv'
  BY Composing
<1>3. RequestsInv => ReadsReflectRequest
  BY CreatedIsRead DEF ReadsReflectRequest
<1>. QED BY <1>1, <1>2, <1>3, PTL DEF Spec

=============================================================================
