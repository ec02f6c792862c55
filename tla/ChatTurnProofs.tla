---------------------------- MODULE ChatTurnProofs ----------------------------
(***************************************************************************)
(* Proofs about ChatTurn, for every set of turns, conversations and keys,  *)
(* any length of an answer and any choice and number of failures.          *)
(*                                                                         *)
(* The actions are first put into classes: what a step may do to one turn  *)
(* and to the rows.  The invariants are then shown class by class.         *)
(***************************************************************************)
EXTENDS ChatTurn, FiniteSetTheorems, TLAPS

(***************************************************************************)
(* Types                                                                   *)
(***************************************************************************)

\* A request that has been sent has a conversation.
TypeInv == TypeOK /\ \A t \in Turns : turn[t].pc # "idle" => turn[t].conv \in Convs

TurnOK ==
    /\ turn \in [Turns -> TurnRecord]
    /\ \A t \in Turns : turn[t].pc # "idle" => turn[t].conv \in Convs

\* One turn goes on; it stays the answer to the same question.
Moved(t) ==
    /\ \A v \in Turns : v # t => turn'[v] = turn[v]
    /\ turn[t].pc # "idle" /\ turn'[t].pc # "idle"
    /\ turn'[t].conv = turn[t].conv /\ turn'[t].key = turn[t].key

\* Nothing is added to what the turn has streamed.
SameText(t) == turn'[t].text = turn[t].text /\ turn'[t].cites = turn[t].cites

LEMMA ReplaceTurn ==
    ASSUME TypeInv, NEW t \in Turns, NEW r \in TurnRecord, turn' = [turn EXCEPT ![t] = r],
           r.pc # "idle" => r.conv \in Convs
    PROVE  TurnOK' /\ turn'[t] = r /\ \A v \in Turns : v # t => turn'[v] = turn[v]
  <1>1. turn \in [Turns -> TurnRecord]
    BY DEF TypeInv, TypeOK
  <1>2. turn' \in [Turns -> TurnRecord] /\ turn'[t] = r
        /\ \A v \in Turns : v # t => turn'[v] = turn[v]
    BY <1>1
  <1>3. \A v \in Turns : turn'[v].pc # "idle" => turn'[v].conv \in Convs
    BY <1>2 DEF TypeInv
  <1>4. QED
    BY <1>2, <1>3 DEF TurnOK

LEMMA GotoMoves ==
    ASSUME TypeInv, NEW t \in Turns, NEW pc \in PC \ {"idle"}, turn[t].pc # "idle", Goto(t, pc)
    PROVE  /\ TurnOK' /\ Moved(t)
           /\ turn'[t].pc = pc /\ turn'[t].reply = turn[t].reply
           /\ turn'[t].left = turn[t].left /\ SameText(t)
  <1> DEFINE r == [turn[t] EXCEPT !.pc = pc]
  <1>1. turn \in [Turns -> TurnRecord] /\ turn[t] \in TurnRecord /\ turn[t].conv \in Convs
    BY DEF TypeInv, TypeOK
  <1>2. r \in TurnRecord
    BY <1>1 DEF TurnRecord
  <1>3. /\ r.pc = pc /\ r.conv = turn[t].conv /\ r.key = turn[t].key
        /\ r.reply = turn[t].reply /\ r.left = turn[t].left
        /\ r.text = turn[t].text /\ r.cites = turn[t].cites
    BY <1>1 DEF TurnRecord
  <1>4. turn' = [turn EXCEPT ![t] = r]
    BY <1>1 DEF Goto
  <1> HIDE DEF r
  <1>5. QED
    BY <1>1, <1>2, <1>3, <1>4, ReplaceTurn DEF Moved, SameText

LEMMA LoadMoves ==
    ASSUME TypeInv, NEW t \in Turns, Load(t)
    PROVE  /\ TurnOK' /\ Moved(t) /\ turn'[t].pc = "insert"
           /\ turn'[t].left = turn[t].left /\ SameText(t)
  <1> DEFINE r == [turn[t] EXCEPT !.pc = "insert",
                                  !.untitled = title[turn[t].conv] = "null"]
  <1>1. turn \in [Turns -> TurnRecord] /\ turn[t] \in TurnRecord /\ turn[t].pc = "load"
        /\ turn[t].conv \in Convs
    BY DEF TypeInv, TypeOK, Load, At
  <1>2. r \in TurnRecord
    BY <1>1 DEF TurnRecord, PC, PreparePC
  <1>3. r.pc = "insert" /\ r.conv = turn[t].conv /\ r.key = turn[t].key
        /\ r.left = turn[t].left /\ r.text = turn[t].text /\ r.cites = turn[t].cites
    BY <1>1 DEF TurnRecord
  <1>4. turn' = [turn EXCEPT ![t] = r]
    BY <1>1 DEF Load
  <1> HIDE DEF r
  <1>5. QED
    BY <1>1, <1>2, <1>3, <1>4, ReplaceTurn DEF Moved, SameText

LEMMA RejectedMoves ==
    ASSUME TypeInv, NEW t \in Turns, NEW code \in Reply, turn[t].pc # "idle", Rejected(t, code)
    PROVE  /\ TurnOK' /\ Moved(t) /\ turn'[t].pc = "ended" /\ turn'[t].reply = code
           /\ turn'[t].left = turn[t].left /\ SameText(t)
  <1> DEFINE r == [turn[t] EXCEPT !.pc = "ended", !.reply = code]
  <1>1. turn \in [Turns -> TurnRecord] /\ turn[t] \in TurnRecord /\ turn[t].conv \in Convs
    BY DEF TypeInv, TypeOK
  <1>2. r \in TurnRecord
    BY <1>1 DEF TurnRecord, PC
  <1>3. r.pc = "ended" /\ r.conv = turn[t].conv /\ r.key = turn[t].key /\ r.reply = code
        /\ r.left = turn[t].left /\ r.text = turn[t].text /\ r.cites = turn[t].cites
    BY <1>1 DEF TurnRecord
  <1>4. turn' = [turn EXCEPT ![t] = r]
    BY <1>1 DEF Rejected
  <1> HIDE DEF r
  <1>5. QED
    BY <1>1, <1>2, <1>3, <1>4, ReplaceTurn DEF Moved, SameText

LEMMA CitesMoves ==
    ASSUME TypeInv, NEW t \in Turns, turn[t].pc # "idle",
           turn' = [turn EXCEPT ![t].pc = "stream", ![t].cites = TRUE]
    PROVE  /\ TurnOK' /\ Moved(t) /\ turn'[t].pc = "stream" /\ turn'[t].left = turn[t].left
           /\ turn'[t].text = turn[t].text /\ turn'[t].cites
  <1> DEFINE r == [turn[t] EXCEPT !.pc = "stream", !.cites = TRUE]
  <1>1. turn \in [Turns -> TurnRecord] /\ turn[t] \in TurnRecord /\ turn[t].conv \in Convs
    BY DEF TypeInv, TypeOK
  <1>2. r \in TurnRecord
    BY <1>1 DEF TurnRecord, PC, StreamPC
  <1>3. r.pc = "stream" /\ r.conv = turn[t].conv /\ r.key = turn[t].key
        /\ r.left = turn[t].left /\ r.text = turn[t].text /\ r.cites = TRUE
    BY <1>1 DEF TurnRecord
  <1>4. turn' = [turn EXCEPT ![t] = r]
    BY <1>1
  <1> HIDE DEF r
  <1>5. QED
    BY <1>1, <1>2, <1>3, <1>4, ReplaceTurn DEF Moved, SameText

LEMMA TextMoves ==
    ASSUME TypeInv, NEW t \in Turns, TextDelta(t)
    PROVE  /\ TurnOK' /\ Moved(t) /\ turn'[t].pc = "stream" /\ turn'[t].left = turn[t].left
           /\ turn'[t].text = turn[t].text + 1 /\ turn'[t].cites = turn[t].cites
  <1> DEFINE r == [turn[t] EXCEPT !.text = turn[t].text + 1]
  <1>1. turn \in [Turns -> TurnRecord] /\ turn[t] \in TurnRecord /\ turn[t].pc = "stream"
        /\ turn[t].conv \in Convs
    BY DEF TypeInv, TypeOK, TextDelta, At
  <1>2. turn[t].text + 1 \in 0 .. MaxDeltas
    BY <1>1, ConstantsAssumption DEF TextDelta, TurnRecord
  <1>3. r \in TurnRecord
    BY <1>1, <1>2 DEF TurnRecord
  <1>4. r.pc = "stream" /\ r.conv = turn[t].conv /\ r.key = turn[t].key
        /\ r.left = turn[t].left /\ r.text = turn[t].text + 1 /\ r.cites = turn[t].cites
    BY <1>1 DEF TurnRecord
  <1>5. turn' = [turn EXCEPT ![t] = r]
    BY <1>1 DEF TextDelta
  <1> HIDE DEF r
  <1>6. QED
    BY <1>1, <1>3, <1>4, <1>5, ReplaceTurn DEF Moved, SameText

LEMMA LoggedEnds ==
    ASSUME TypeInv, NEW t \in Turns, turn[t].pc # "idle",
           turn' = [turn EXCEPT ![t].pc = "ended", ![t].logged = TRUE]
    PROVE  /\ TurnOK' /\ Moved(t) /\ turn'[t].pc = "ended" /\ turn'[t].logged
           /\ turn'[t].left = turn[t].left /\ SameText(t)
  <1> DEFINE r == [turn[t] EXCEPT !.pc = "ended", !.logged = TRUE]
  <1>1. turn \in [Turns -> TurnRecord] /\ turn[t] \in TurnRecord /\ turn[t].conv \in Convs
    BY DEF TypeInv, TypeOK
  <1>2. r \in TurnRecord
    BY <1>1 DEF TurnRecord, PC
  <1>3. r.pc = "ended" /\ r.conv = turn[t].conv /\ r.key = turn[t].key /\ r.logged = TRUE
        /\ r.left = turn[t].left /\ r.text = turn[t].text /\ r.cites = turn[t].cites
    BY <1>1 DEF TurnRecord
  <1>4. turn' = [turn EXCEPT ![t] = r]
    BY <1>1
  <1> HIDE DEF r
  <1>5. QED
    BY <1>1, <1>2, <1>3, <1>4, ReplaceTurn DEF Moved, SameText

LEMMA LeftMoves ==
    ASSUME TypeInv, NEW t \in Turns, turn[t].pc \in StreamPC, Left(t)
    PROVE  /\ TurnOK' /\ Moved(t) /\ turn'[t].pc = "ended" /\ turn'[t].left = turn[t].pc
           /\ SameText(t)
  <1> DEFINE r == [turn[t] EXCEPT !.pc = "ended", !.left = turn[t].pc]
  <1>1. turn \in [Turns -> TurnRecord] /\ turn[t] \in TurnRecord /\ turn[t].pc # "idle"
        /\ turn[t].conv \in Convs
    BY DEF TypeInv, TypeOK, StreamPC, PersistPC
  <1>2. r \in TurnRecord
    BY <1>1 DEF TurnRecord, PC
  <1>3. r.pc = "ended" /\ r.conv = turn[t].conv /\ r.key = turn[t].key
        /\ r.left = turn[t].pc /\ r.text = turn[t].text /\ r.cites = turn[t].cites
    BY <1>1 DEF TurnRecord
  <1>4. turn' = [turn EXCEPT ![t] = r]
    BY <1>1 DEF Left
  <1> HIDE DEF r
  <1>5. QED
    BY <1>1, <1>2, <1>3, <1>4, ReplaceTurn DEF Moved, SameText

LEMMA LoggedMoves ==
    ASSUME TypeInv, NEW t \in Turns, turn[t].pc # "idle",
           turn' = [turn EXCEPT ![t].logged = TRUE]
    PROVE  /\ TurnOK' /\ Moved(t) /\ turn'[t].pc = turn[t].pc /\ turn'[t].left = turn[t].left
           /\ turn'[t].logged /\ SameText(t)
  <1> DEFINE r == [turn[t] EXCEPT !.logged = TRUE]
  <1>1. turn \in [Turns -> TurnRecord] /\ turn[t] \in TurnRecord /\ turn[t].conv \in Convs
    BY DEF TypeInv, TypeOK
  <1>2. r \in TurnRecord
    BY <1>1 DEF TurnRecord
  <1>3. r.pc = turn[t].pc /\ r.conv = turn[t].conv /\ r.key = turn[t].key
        /\ r.left = turn[t].left /\ r.logged = TRUE
        /\ r.text = turn[t].text /\ r.cites = turn[t].cites
    BY <1>1 DEF TurnRecord
  <1>4. turn' = [turn EXCEPT ![t] = r]
    BY <1>1
  <1> HIDE DEF r
  <1>5. QED
    BY <1>1, <1>2, <1>3, <1>4, ReplaceTurn DEF Moved, SameText

LEMMA SendMoves ==
    ASSUME TypeInv, NEW t \in Turns, NEW c \in Convs, Send(t, c)
    PROVE  /\ TurnOK' /\ turn[t] = IdleTurn
           /\ turn'[t].pc = "load" /\ turn'[t].conv = c /\ turn'[t].left = "no"
           /\ turn'[t].text = 0 /\ ~turn'[t].cites
           /\ \A v \in Turns : v # t => turn'[v] = turn[v]
  <1>1. PICK k \in Keys \cup {None}, rag \in BOOLEAN :
          turn' = [turn EXCEPT ![t] = [IdleTurn EXCEPT !.pc = "load", !.conv = c,
                                                       !.key = k, !.rag = rag]]
    BY DEF Send
  <1> DEFINE r == [IdleTurn EXCEPT !.pc = "load", !.conv = c, !.key = k, !.rag = rag]
  <1>2. r \in TurnRecord
    <2>1. 0 \in 0 .. MaxDeltas
      BY ConstantsAssumption
    <2>2. IdleTurn \in TurnRecord
      BY <2>1 DEF IdleTurn, TurnRecord, PC, Reply
    <2>3. QED
      BY <2>2 DEF TurnRecord, PC, PreparePC
  <1>3. r.pc = "load" /\ r.conv = c /\ r.left = "no" /\ r.text = 0 /\ r.cites = FALSE
    BY DEF IdleTurn
  <1>4. turn' = [turn EXCEPT ![t] = r]
    BY <1>1
  <1> HIDE DEF r
  <1>5. QED
    <2>1. turn[t] = IdleTurn
      BY DEF Send
    <2>2. TurnOK' /\ turn'[t] = r /\ \A v \in Turns : v # t => turn'[v] = turn[v]
      BY <1>2, <1>3, <1>4, ReplaceTurn
    <2>3. QED
      BY <1>3, <2>1, <2>2

(***************************************************************************)
(* TXN B                                                                   *)
(***************************************************************************)
RowsOK ==
    /\ answer \in [Turns -> AnswerRow]
    /\ usage \in [Turns -> Seq({"ok", "error"})]

\* One log is added for turn t, and the answer if there is one to store, which the
\* constraints allow only for a turn without an answer in a conversation that exists.
Recorded(t) ==
    /\ \A v \in Turns : v # t => answer'[v] = answer[v] /\ usage'[v] = usage[v]
    /\ Len(usage'[t]) = Len(usage[t]) + 1
    /\ \/ answer'[t] = answer[t] /\ turn[t].text = 0
       \/ answer[t] = NoAnswer /\ answer'[t] # NoAnswer /\ Exists(turn[t].conv)

LEMMA StoreRecords ==
    ASSUME TypeInv, NEW t \in Turns, NEW kind \in {"full", "partial"}, NEW log \in {"ok", "error"},
           Store(t, kind, log)
    PROVE  RowsOK' /\ Recorded(t)
  <1>1. /\ answer \in [Turns -> AnswerRow] /\ usage \in [Turns -> Seq({"ok", "error"})]
        /\ turn[t] \in TurnRecord
    BY DEF TypeInv, TypeOK
  <1>2. AnswerOf(t, kind) \in AnswerRow /\ AnswerOf(t, kind) # NoAnswer
    BY <1>1 DEF AnswerOf, AnswerRow, TurnRecord, NoAnswer
  <1>3. usage' = [usage EXCEPT ![t] = Append(usage[t], log)]
    BY <1>1 DEF Store
  <1>4. usage[t] \in Seq({"ok", "error"})
    BY <1>1
  <1>5. /\ Append(usage[t], log) \in Seq({"ok", "error"})
        /\ Len(Append(usage[t], log)) = Len(usage[t]) + 1
    BY <1>4
  <1>6. /\ usage' \in [Turns -> Seq({"ok", "error"})]
        /\ \A v \in Turns : v # t => usage'[v] = usage[v]
        /\ Len(usage'[t]) = Len(usage[t]) + 1
    BY <1>1, <1>3, <1>5
  <1>7. CASE HasMessage(t, kind)
    <2>1. answer' = [answer EXCEPT ![t] = AnswerOf(t, kind)]
      BY <1>7 DEF Store
    <2>2. answer[t] = NoAnswer /\ Exists(turn[t].conv)
      BY <1>7 DEF Store, CanInsert
    <2>3. QED
      BY <1>1, <1>2, <1>6, <2>1, <2>2 DEF RowsOK, Recorded
  <1>8. CASE ~HasMessage(t, kind)
    <2>1. answer' = answer
      BY <1>8 DEF Store
    <2>2. turn[t].text = 0
      BY <1>1, <1>8 DEF HasMessage, TurnRecord
    <2>3. QED
      BY <1>1, <1>6, <2>1, <2>2 DEF RowsOK, Recorded
  <1>9. QED
    BY <1>7, <1>8

\* A transaction that fails leaves the rows, or its commit took effect.
LEMMA FailureRecords ==
    ASSUME TypeInv, NEW t \in Turns, NEW kind \in {"full", "partial"}, NEW log \in {"ok", "error"},
           StoreFails(t, kind, log)
    PROVE  RowsOK' /\ (Recorded(t) \/ UNCHANGED <<answer, usage>>) /\ faults' \in Nat
  <1>1. RowsOK /\ faults \in Nat
    BY DEF TypeInv, TypeOK, RowsOK
  <1>2. CASE UNCHANGED <<answer, usage>>
    BY <1>1, <1>2 DEF RowsOK, StoreFails, Fault
  <1>3. CASE Store(t, kind, log) /\ Fault("commit")
    BY <1>1, <1>3, StoreRecords DEF Fault
  <1>4. QED
    BY <1>2, <1>3 DEF StoreFails

LEMMA CutRecords ==
    ASSUME TypeInv, NEW t \in Turns, NEW kind \in {"full", "partial"}, NEW log \in {"ok", "error"},
           CutShort(t, kind, log)
    PROVE  RowsOK' /\ (Recorded(t) \/ UNCHANGED <<answer, usage>>)
  BY StoreRecords DEF CutShort, RowsOK, TypeInv, TypeOK

(***************************************************************************)
(* The classes of steps                                                    *)
(***************************************************************************)

\* The request is sent.
Asks(t) ==
    /\ turn[t] = IdleTurn /\ turn'[t].pc = "load"
    /\ title[turn'[t].conv] # "absent"
    /\ \A v \in Turns : v # t => turn'[v] = turn[v]
    /\ UNCHANGED <<dbVars, background>>

\* It goes on, before or after its first event.
Advances(t) ==
    /\ Moved(t)
    /\ {turn[t].pc, turn'[t].pc} \subseteq PreparePC \/ {turn[t].pc, turn'[t].pc} \subseteq StreamPC
    /\ turn'[t].pc = "commit" => Insert(t)
    /\ UNCHANGED <<dbVars, background>>

\* TXN A commits and the stream begins.
Begins(t) ==
    /\ Moved(t) /\ turn[t].pc = "commit" /\ turn'[t].pc = "started"
    /\ question' = question \cup {t}
    /\ UNCHANGED <<title, answer, usage, background>>

\* It is answered with an error; the commit may have taken effect.
Refuses(t) ==
    /\ Moved(t) /\ turn[t].pc \in PreparePC
    /\ turn'[t].pc = "ended" /\ turn'[t].reply # "none"
    /\ question' = question \/ (turn[t].pc = "commit" /\ question' = question \cup {t})
    /\ UNCHANGED <<title, answer, usage, background>>

\* TXN B has been tried: it is recorded, or the failure is logged.
Answers(t) ==
    /\ Moved(t) /\ turn[t].pc \in PersistPC /\ turn'[t].pc = "ended"
    /\ Recorded(t) \/ (UNCHANGED <<answer, usage>> /\ turn'[t].logged)
    /\ UNCHANGED <<title, question, background>>

\* The client leaves.
Leaves(t) ==
    /\ Moved(t) /\ turn[t].pc \in StreamPC /\ turn'[t].pc = "ended"
    /\ turn'[t].left = turn[t].pc /\ turn'[t].text = turn[t].text
    /\ Recorded(t) \/ UNCHANGED <<answer, usage>>
    /\ background' = background \/ background' = background \cup {t}
    /\ UNCHANGED <<title, question>>

\* The detached task of a turn the client has left.
Detached(t) ==
    /\ t \in background /\ background' = background \ {t}
    /\ Moved(t) \/ UNCHANGED turn
    /\ turn'[t].pc = turn[t].pc /\ turn'[t].left = turn[t].left
    /\ (turn[t].text > 0 /\ Recorded(t)) \/ UNCHANGED <<answer, usage>>
    /\ UNCHANGED <<title, question>>

TurnStep(t) == Asks(t) \/ Advances(t) \/ Begins(t) \/ Refuses(t) \/ Answers(t) \/ Leaves(t)
               \/ Detached(t)

\* What a step of a turn has to keep to be well typed.
RestOK ==
    /\ question \subseteq Turns /\ RowsOK /\ background \subseteq Turns
    /\ out \in [Turns -> Seq(Event)]
    /\ titleQueue \in [Convs -> Nat] /\ titling \in [Convs -> Nat] /\ faults \in Nat

LEMMA TypeParts ==
    /\ TypeInv => TurnOK /\ RestOK /\ title \in [Convs -> Titles]
    /\ TurnOK /\ RestOK /\ title \in [Convs -> Titles] => TypeInv
  BY DEF TypeInv, TypeOK, TurnOK, RestOK, RowsOK

LEMMA TypePartsNext ==
    ASSUME TurnOK', RestOK', (title \in [Convs -> Titles])'
    PROVE  TypeInv'
  BY DEF TypeInv, TypeOK, TurnOK, RestOK, RowsOK

LEMMA YieldType ==
    ASSUME TypeInv, NEW t \in Turns, NEW ev \in Event, Yield(t, ev)
    PROVE  (out \in [Turns -> Seq(Event)])'
  BY DEF TypeInv, TypeOK, Yield

LEMMA SendStep ==
    ASSUME TypeInv, NEW t \in Turns, NEW c \in Convs, Send(t, c)
    PROVE  TurnOK' /\ RestOK' /\ Asks(t)
  <1>1. UNCHANGED <<dbVars, out, background, titleVars, faults>> /\ title[c] # "absent"
    BY DEF Send
  <1>2. RestOK
    BY TypeParts
  <1>3. QED
    BY <1>1, <1>2, SendMoves DEF Asks, RestOK, RowsOK, dbVars, titleVars

\* The steps that only take the turn further.
LEMMA AdvanceStep ==
    ASSUME TypeInv, NEW t \in Turns,
           Load(t) \/ Insert(t) \/ Serve(t) \/ Retrieve(t) \/ RetrieveFails(t) \/ TextDelta(t)
           \/ StreamEnds(t)
    PROVE  TurnOK' /\ RestOK' /\ Advances(t)
  <1> USE DEF At, PC, PreparePC, StreamPC, PersistPC
  <1>1. RestOK
    BY TypeParts
  <1>2. ASSUME UNCHANGED <<dbVars, background, titleVars, faults>>,
               (out \in [Turns -> Seq(Event)])'
        PROVE  RestOK' /\ UNCHANGED <<dbVars, background>>
    BY <1>1, <1>2 DEF RestOK, RowsOK, dbVars, titleVars
  <1>3. UNCHANGED out => (out \in [Turns -> Seq(Event)])'
    BY <1>1 DEF RestOK
  <1>4. CASE Load(t)
    <2>1. turn[t].pc = "load"
      BY <1>4 DEF Load
    <2>2. QED
      BY <1>2, <1>3, <1>4, <2>1, LoadMoves DEF Load, Advances
  <1>5. CASE Insert(t)
    <2>1. turn[t].pc = "insert"
      BY <1>5 DEF Insert
    <2>2. QED
      BY <1>2, <1>3, <1>5, <2>1, GotoMoves DEF Insert, Advances
  <1>6. CASE Serve(t)
    <2>1. turn[t].pc = "started" /\ \E pc \in {"retrieve", "stream"} : Goto(t, pc)
      BY <1>6 DEF Serve
    <2>2. QED
      BY <1>2, <1>3, <1>6, <2>1, GotoMoves DEF Serve, Advances
  <1>7. CASE Retrieve(t)
    <2>1. turn[t].pc = "retrieve"
      BY <1>7 DEF Retrieve
    <2>2. (out \in [Turns -> Seq(Event)])'
      BY <1>3, <1>7, YieldType DEF Retrieve, Event
    <2>3. TurnOK' /\ Moved(t) /\ turn'[t].pc = "stream"
      BY <1>7, <2>1, CitesMoves, GotoMoves DEF Retrieve
    <2>4. QED
      BY <1>2, <1>7, <2>1, <2>2, <2>3 DEF Retrieve, Advances
  <1>8. CASE RetrieveFails(t)
    <2>1. turn[t].pc = "retrieve"
      BY <1>8 DEF RetrieveFails
    <2>2. QED
      BY <1>2, <1>3, <1>8, <2>1, GotoMoves DEF RetrieveFails, Advances
  <1>9. CASE TextDelta(t)
    <2>1. turn[t].pc = "stream"
      BY <1>9 DEF TextDelta
    <2>2. (out \in [Turns -> Seq(Event)])'
      BY <1>9, YieldType DEF TextDelta, Event
    <2>3. QED
      BY <1>2, <1>9, <2>1, <2>2, TextMoves DEF TextDelta, Advances
  <1>10. CASE StreamEnds(t)
    <2>1. turn[t].pc = "stream"
      BY <1>10 DEF StreamEnds
    <2>2. QED
      BY <1>2, <1>3, <1>10, <2>1, GotoMoves DEF StreamEnds, Advances
  <1>11. QED
    BY <1>4, <1>5, <1>6, <1>7, <1>8, <1>9, <1>10

LEMMA CommitStep ==
    ASSUME TypeInv, NEW t \in Turns, Commit(t)
    PROVE  TurnOK' /\ RestOK' /\ Begins(t)
  <1>1. turn[t].pc = "commit" /\ Goto(t, "started") /\ Yield(t, "message_start")
        /\ question' = question \cup {t}
        /\ UNCHANGED <<title, answer, usage, background, titleVars, faults>>
    BY DEF Commit, At
  <1>2. RestOK
    BY TypeParts
  <1>3. (out \in [Turns -> Seq(Event)])'
    BY <1>1, YieldType DEF Event
  <1>4. RestOK'
    BY <1>1, <1>2, <1>3 DEF RestOK, RowsOK, titleVars
  <1>5. TurnOK' /\ Moved(t) /\ turn'[t].pc = "started"
    BY <1>1, GotoMoves DEF PC, StreamPC
  <1>6. QED
    BY <1>1, <1>4, <1>5 DEF Begins

LEMMA RefuseStep ==
    ASSUME TypeInv, NEW t \in Turns, LoadRejects(t) \/ InsertRejects(t) \/ PrepareFails(t)
    PROVE  TurnOK' /\ RestOK' /\ Refuses(t)
  <1>1. turn[t].pc \in PreparePC
    BY DEF LoadRejects, InsertRejects, PrepareFails, PreparePC, At
  <1>2. \E code \in Reply \ {"none"} : Rejected(t, code)
    BY DEF LoadRejects, InsertRejects, PrepareFails, Reply
  <1>3. UNCHANGED <<title, answer, usage, out, background, titleVars>>
    BY DEF LoadRejects, InsertRejects, PrepareFails, dbVars
  <1>4. question' = question \/ (turn[t].pc = "commit" /\ question' = question \cup {t})
    BY DEF LoadRejects, InsertRejects, PrepareFails, dbVars, At
  <1>5. RestOK
    BY TypeParts
  <1>6. faults' \in Nat
    BY <1>5 DEF LoadRejects, InsertRejects, PrepareFails, Fault, RestOK
  <1>7. RestOK'
    BY <1>3, <1>4, <1>5, <1>6 DEF RestOK, RowsOK, titleVars
  <1>8. TurnOK' /\ Moved(t) /\ turn'[t].pc = "ended" /\ turn'[t].reply # "none"
    BY <1>1, <1>2, RejectedMoves DEF PreparePC
  <1>9. QED
    BY <1>1, <1>3, <1>4, <1>7, <1>8 DEF Refuses

LEMMA AnswerStep ==
    ASSUME TypeInv, NEW t \in Turns,
           PersistSuccess(t) \/ PersistSuccessFails(t) \/ PersistError(t) \/ PersistErrorFails(t)
    PROVE  TurnOK' /\ RestOK' /\ Answers(t)
  <1>1. RestOK
    BY TypeParts
  <1>2. turn[t].pc \in PersistPC /\ turn[t].pc # "idle"
    BY DEF PersistSuccess, PersistSuccessFails, PersistError, PersistErrorFails, PersistPC, At
  <1>3. (out \in [Turns -> Seq(Event)])'
    BY YieldType DEF PersistSuccess, PersistSuccessFails, PersistError, PersistErrorFails, Event
  <1>4. UNCHANGED <<title, question, background, titling>>
    BY DEF PersistSuccess, PersistSuccessFails, PersistError, PersistErrorFails, titleVars
  <1>5. CASE PersistSuccess(t)
    <2>1. Recorded(t) /\ RowsOK'
      BY <1>5, StoreRecords DEF PersistSuccess
    <2>2. (titleQueue \in [Convs -> Nat])' /\ faults' \in Nat
      BY <1>1, <1>5 DEF PersistSuccess, EnqueueTitle, Fault, RestOK
    <2>3. TurnOK' /\ Moved(t) /\ turn'[t].pc = "ended"
      BY <1>2, <1>5, GotoMoves DEF PersistSuccess, PC
    <2>4. QED
      BY <1>1, <1>2, <1>3, <1>4, <2>1, <2>2, <2>3 DEF Answers, RestOK
  <1>6. CASE PersistError(t)
    <2>1. Recorded(t) /\ RowsOK'
      BY <1>6, StoreRecords DEF PersistError
    <2>2. UNCHANGED <<titleQueue, faults>>
      BY <1>6 DEF PersistError, titleVars
    <2>3. TurnOK' /\ Moved(t) /\ turn'[t].pc = "ended"
      BY <1>2, <1>6, GotoMoves DEF PersistError, PC
    <2>4. QED
      BY <1>1, <1>2, <1>3, <1>4, <2>1, <2>2, <2>3 DEF Answers, RestOK
  <1>7. CASE PersistSuccessFails(t) \/ PersistErrorFails(t)
    <2>1. /\ RowsOK' /\ (Recorded(t) \/ UNCHANGED <<answer, usage>>) /\ faults' \in Nat
      BY <1>7, FailureRecords DEF PersistSuccessFails, PersistErrorFails
    <2>2. UNCHANGED titleQueue
      BY <1>7 DEF PersistSuccessFails, PersistErrorFails, titleVars
    <2>3. TurnOK' /\ Moved(t) /\ turn'[t].pc = "ended" /\ turn'[t].logged
      BY <1>2, <1>7, LoggedEnds DEF PersistSuccessFails, PersistErrorFails
    <2>4. QED
      BY <1>1, <1>2, <1>3, <1>4, <2>1, <2>2, <2>3 DEF Answers, RestOK
  <1>8. QED
    BY <1>5, <1>6, <1>7

LEMMA LeaveStep ==
    ASSUME TypeInv, NEW t \in Turns,
           LeaveEarly(t) \/ LeaveStream(t) \/ LeavePersistError(t) \/ LeavePersist(t)
    PROVE  TurnOK' /\ RestOK' /\ Leaves(t)
  <1> USE DEF LeaveEarly, LeaveStream, LeavePersistError, LeavePersist
  <1>1. RestOK
    BY TypeParts
  <1>2. turn[t].pc \in StreamPC /\ Left(t)
    BY DEF At, StreamPC, PersistPC
  <1>3. UNCHANGED <<title, question, out, titleVars, faults>>
    BY DEF dbVars
  <1>4. background' = background \/ background' = background \cup {t}
    OBVIOUS
  <1>5. RowsOK' /\ (Recorded(t) \/ UNCHANGED <<answer, usage>>)
    <2>1. CASE UNCHANGED <<answer, usage>>
      BY <1>1, <2>1 DEF RestOK, RowsOK
    <2>2. CASE CutShort(t, "full", "ok") \/ CutShort(t, "partial", "error")
      BY <2>2, CutRecords
    <2>3. QED
      BY <2>1, <2>2 DEF dbVars
  <1>6. RestOK'
    BY <1>1, <1>3, <1>4, <1>5 DEF RestOK, titleVars
  <1>7. QED
    BY <1>2, <1>3, <1>4, <1>5, <1>6, LeftMoves DEF Leaves, SameText

LEMMA BackgroundStep ==
    ASSUME TypeInv, NEW t \in Turns, BackgroundPersist(t), turn[t].pc # "idle"
    PROVE  TurnOK' /\ RestOK' /\ Detached(t)
  <1>1. RestOK /\ TurnOK
    BY TypeParts
  <1>2. t \in background /\ background' = background \ {t}
        /\ UNCHANGED <<title, question, out, titleVars>>
    BY DEF BackgroundPersist
  <1>3. RowsOK' /\ ((turn[t].text > 0 /\ Recorded(t)) \/ UNCHANGED <<answer, usage>>)
        /\ faults' \in Nat
    <2>1. CASE UNCHANGED <<answer, usage, faults>>
      BY <1>1, <2>1 DEF RestOK, RowsOK
    <2>2. CASE turn[t].text > 0 /\ Store(t, "partial", "ok") /\ UNCHANGED faults
      BY <1>1, <2>2, StoreRecords DEF RestOK
    <2>3. CASE turn[t].text > 0 /\ StoreFails(t, "partial", "ok")
      BY <2>3, FailureRecords
    <2>4. QED
      BY <2>1, <2>2, <2>3 DEF BackgroundPersist
  <1>4. UNCHANGED turn \/ turn' = [turn EXCEPT ![t].logged = TRUE]
    BY DEF BackgroundPersist
  <1>5. TurnOK' /\ (Moved(t) \/ UNCHANGED turn)
        /\ turn'[t].pc = turn[t].pc /\ turn'[t].left = turn[t].left
    <2>1. CASE UNCHANGED turn
      BY <1>1, <2>1 DEF TurnOK
    <2>2. CASE turn' = [turn EXCEPT ![t].logged = TRUE]
      BY <2>2, LoggedMoves
    <2>3. QED
      BY <1>4, <2>1, <2>2
  <1>6. RestOK'
    BY <1>1, <1>2, <1>3 DEF RestOK, titleVars
  <1>7. QED
    BY <1>2, <1>3, <1>5, <1>6 DEF Detached

\* The title of a conversation changes, or it is created.
Retitles ==
    /\ \A c \in Convs : title[c] # "absent" =>
         /\ title'[c] # "absent"
         /\ Exists(c)' => Exists(c)
    /\ UNCHANGED <<question, answer, usage, turn, background>>

\* The process stops: whatever was under way has ended.
Stops ==
    /\ \A t \in Turns :
         /\ turn'[t].conv = turn[t].conv /\ turn'[t].key = turn[t].key
         /\ IF turn[t].pc \in StreamPC
            THEN turn'[t].pc = "ended" /\ turn'[t].left # "no"
            ELSE IF turn[t].pc \in PreparePC
            THEN turn'[t].pc = "ended" /\ turn'[t].reply # "none"
            ELSE /\ turn'[t].pc = turn[t].pc /\ turn'[t].logged = turn[t].logged
                 /\ turn'[t].reply = turn[t].reply
                 /\ turn'[t].left \in {turn[t].left, "stop"}
                 /\ turn'[t] # turn[t] => turn[t].pc = "ended"
    /\ background' = {}
    /\ UNCHANGED dbVars

\* Only a turn that has ended is left to a detached task.
BackgroundEnded == \A t \in background : turn[t].pc = "ended"

LEMMA TitleTypes ==
    ASSUME TypeInv, NEW c \in Convs, ConversationStep(c) \/ TitleStep(c)
    PROVE  TypeInv'
  <1>1. TurnOK /\ RestOK /\ title \in [Convs -> Titles]
    BY TypeParts
  <1>2. UNCHANGED <<usage, turn, out, faults>>
    BY DEF ConversationStep, Create, Rename, Delete, TitleStep, TitleRead, TitleWrite, dbVars,
           titleVars
  <1>3. TurnOK'
    BY <1>1, <1>2 DEF TurnOK
  <1>4. CASE Create(c) \/ Rename(c)
    <2>1. (title \in [Convs -> Titles])'
      BY <1>1, <1>4 DEF Create, Rename, Titles
    <2>2. RestOK'
      BY <1>1, <1>2, <1>4 DEF Create, Rename, RestOK, RowsOK, titleVars
    <2>3. QED
      BY <1>3, <2>1, <2>2, TypePartsNext
  <1>5. CASE Delete(c)
    <2>1. (title \in [Convs -> Titles])'
      BY <1>1, <1>5 DEF Delete, Titles
    <2>2. NoAnswer \in AnswerRow
      BY ConstantsAssumption DEF NoAnswer, AnswerRow
    <2>3. (answer \in [Turns -> AnswerRow])'
      BY <1>1, <1>5, <2>2 DEF Delete, RestOK, RowsOK
    <2>4. RestOK'
      BY <1>1, <1>2, <1>5, <2>3 DEF Delete, RestOK, RowsOK, titleVars
    <2>5. QED
      BY <1>3, <2>1, <2>4, TypePartsNext
  <1>6. CASE TitleRead(c)
    <2>1. UNCHANGED <<title, question, answer, background>>
      BY <1>6 DEF TitleRead, dbVars
    <2>2. (titleQueue \in [Convs -> Nat])'
      BY <1>1, <1>6 DEF TitleRead, RestOK
    <2>3. (titling \in [Convs -> Nat])'
      BY <1>1, <1>6 DEF TitleRead, RestOK
    <2>4. RestOK' /\ (title \in [Convs -> Titles])'
      BY <1>1, <1>2, <2>1, <2>2, <2>3 DEF RestOK, RowsOK
    <2>5. QED
      BY <1>3, <2>4, TypePartsNext
  <1>7. CASE TitleWrite(c)
    <2>1. UNCHANGED <<question, answer, background, titleQueue>>
      BY <1>7 DEF TitleWrite
    <2>2. (titling \in [Convs -> Nat])'
      BY <1>1, <1>7 DEF TitleWrite, RestOK
    <2>3. (title \in [Convs -> Titles])'
      BY <1>1, <1>7 DEF TitleWrite, SetTitleIfNull, Titles
    <2>4. RestOK'
      BY <1>1, <1>2, <2>1, <2>2 DEF RestOK, RowsOK
    <2>5. QED
      BY <1>3, <2>3, <2>4, TypePartsNext
  <1>8. QED
    BY <1>4, <1>5, <1>6, <1>7 DEF ConversationStep, TitleStep

LEMMA TitleClass ==
    ASSUME TypeInv, NEW c \in Convs, ConversationStep(c) \/ TitleStep(c)
    PROVE  Retitles \/ Delete(c)
  <1>1. title \in [Convs -> Titles]
    BY TypeParts
  <1>2. CASE Create(c) \/ Rename(c)
    BY <1>1, <1>2 DEF Create, Rename, Retitles, Exists
  <1>3. CASE TitleRead(c)
    BY <1>3 DEF TitleRead, Retitles, Exists, dbVars
  <1>4. CASE TitleWrite(c)
    BY <1>1, <1>4 DEF TitleWrite, SetTitleIfNull, Retitles, Exists
  <1>5. QED
    BY <1>2, <1>3, <1>4 DEF ConversationStep, TitleStep

LEMMA StopStep ==
    ASSUME TypeInv, BackgroundEnded, ProcessStop
    PROVE  TypeInv' /\ Stops
  <1>1. TurnOK /\ RestOK /\ title \in [Convs -> Titles]
    BY TypeParts
  <1> DEFINE after(t) == IF turn[t].pc \in StreamPC
                         THEN [turn[t] EXCEPT !.pc = "ended", !.left = "stop"]
                         ELSE IF turn[t].pc \in PreparePC
                         THEN [turn[t] EXCEPT !.pc = "ended", !.reply = "failed"]
                         ELSE IF t \in background THEN [turn[t] EXCEPT !.left = "stop"]
                         ELSE turn[t]
  <1>2. turn' = [t \in Turns |-> after(t)]
    BY DEF ProcessStop
  <1>3. ASSUME NEW t \in Turns
        PROVE  /\ after(t) \in TurnRecord
               /\ after(t).conv = turn[t].conv /\ after(t).key = turn[t].key
               /\ IF turn[t].pc \in StreamPC
                  THEN after(t).pc = "ended" /\ after(t).left # "no"
                  ELSE IF turn[t].pc \in PreparePC
                  THEN after(t).pc = "ended" /\ after(t).reply # "none"
                  ELSE /\ after(t).pc = turn[t].pc /\ after(t).logged = turn[t].logged
                       /\ after(t).reply = turn[t].reply
                       /\ after(t).left \in {turn[t].left, "stop"}
                       /\ after(t) # turn[t] => turn[t].pc = "ended"
    <2>1. turn[t] \in TurnRecord
      BY <1>1 DEF TurnOK
    <2>2. CASE turn[t].pc \in StreamPC
      BY <2>1, <2>2 DEF TurnRecord, PC
    <2>3. CASE turn[t].pc \in PreparePC /\ turn[t].pc \notin StreamPC
      BY <2>1, <2>3 DEF TurnRecord, PC, Reply
    <2>4. CASE turn[t].pc \notin StreamPC \cup PreparePC /\ t \in background
      BY <2>1, <2>4 DEF TurnRecord, BackgroundEnded
    <2>5. CASE turn[t].pc \notin StreamPC \cup PreparePC /\ t \notin background
      BY <2>1, <2>5
    <2>6. QED
      BY <2>2, <2>3, <2>4, <2>5
  <1>4. \A t \in Turns : turn'[t] = after(t)
    BY <1>2
  <1>5. turn' \in [Turns -> TurnRecord]
    BY <1>2, <1>3
  <1> HIDE DEF after
  <1>6. TurnOK'
    <2>1. ASSUME NEW t \in Turns, turn'[t].pc # "idle"
          PROVE  turn'[t].conv \in Convs
      <3>1. turn[t].pc # "idle"
        BY <1>3, <1>4, <2>1 DEF StreamPC, PersistPC, PreparePC
      <3>2. QED
        BY <1>1, <1>3, <1>4, <3>1 DEF TurnOK
    <2>2. QED
      BY <1>5, <2>1 DEF TurnOK
  <1>7. Stops
    <2>1. background' = {} /\ UNCHANGED dbVars
      BY DEF ProcessStop
    <2>2. QED
      BY <1>3, <1>4, <2>1 DEF Stops
  <1>8. RestOK' /\ (title \in [Convs -> Titles])'
    <2>1. /\ background' = {} /\ faults' = faults + 1
          /\ UNCHANGED <<title, question, answer, usage, out, titleQueue, titling>>
      BY DEF ProcessStop, Fault, dbVars, titleVars
    <2>2. faults' \in Nat
      BY <1>1, <2>1 DEF RestOK
    <2>3. QED
      BY <1>1, <2>1, <2>2 DEF RestOK, RowsOK
  <1>9. QED
    BY <1>6, <1>7, <1>8, TypePartsNext

LEMMA Classes ==
    ASSUME TypeInv, BackgroundEnded, Next
    PROVE  TypeInv' /\ \/ \E t \in Turns : TurnStep(t)
                       \/ \E c \in Convs : Delete(c)
                       \/ Retitles
                       \/ Stops
  <1>1. ASSUME NEW c \in Convs, ConversationStep(c) \/ TitleStep(c)
        PROVE  TypeInv' /\ (Retitles \/ Delete(c))
    BY <1>1, TitleTypes, TitleClass
  <1>2. ASSUME NEW t \in Turns, ClientStep(t) \/ RequestStep(t) \/ BackgroundPersist(t)
        PROVE  TypeInv' /\ TurnStep(t)
    <2>1. TurnOK' /\ RestOK' /\ TurnStep(t)
      <3>1. CASE \E c \in Convs : Send(t, c)
        BY <3>1, SendStep DEF TurnStep
      <3>2. CASE BackgroundPersist(t)
        <4>1. turn[t].pc # "idle"
          BY <3>2 DEF BackgroundPersist, BackgroundEnded
        <4>2. QED
          BY <3>2, <4>1, BackgroundStep DEF TurnStep
      <3>3. CASE LeaveEarly(t) \/ LeaveStream(t) \/ LeavePersistError(t) \/ LeavePersist(t)
        BY <3>3, LeaveStep DEF TurnStep
      <3>4. CASE RequestStep(t)
        BY <3>4, AdvanceStep, CommitStep, RefuseStep, AnswerStep DEF RequestStep, TurnStep
      <3>5. QED
        BY <1>2, <3>1, <3>2, <3>3, <3>4 DEF ClientStep
    <2>2. UNCHANGED title
      BY <2>1 DEF TurnStep, Asks, Advances, Begins, Refuses, Answers, Leaves, Detached, dbVars
    <2>3. (title \in [Convs -> Titles])'
      BY <2>2, TypeParts
    <2>4. QED
      BY <2>1, <2>3, TypePartsNext
  <1>3. CASE ProcessStop
    BY <1>3, StopStep
  <1>4. QED
    BY <1>1, <1>2, <1>3 DEF Next

(***************************************************************************)
(* One answer, one log                                                     *)
(***************************************************************************)

\* A question is stored by a turn that is past TXN A.
AskedLater == \A t \in question : turn[t].pc \notin {"idle"} \cup PreparePC

\* Nothing is written for an answer before the turn comes to it.
FreshBefore ==
    \A t \in Turns : turn[t].pc \in {"idle"} \cup PreparePC \cup StreamPC =>
        usage[t] = <<>> /\ answer[t] = NoAnswer

\* A turn that streams, or whose answer is left to a detached task, has its
\* question, unless the conversation is gone.
QuestionThere ==
    \A t \in Turns : turn[t].pc \in StreamPC \/ t \in background =>
        t \in question \/ ~Exists(turn[t].conv)

\* A conversation once created is there, or deleted for good.
ConvKnown == \A t \in Turns : turn[t].pc # "idle" => title[turn[t].conv] # "absent"

\* What is left to a detached task has no log yet, or nothing it could still store.
BackgroundOwes ==
    \A t \in background :
        /\ turn[t].left # "no"
        /\ usage[t] = <<>> \/ turn[t].text = 0 \/ Stored(t) \/ ~Exists(turn[t].conv)

LogInv == /\ TypeInv /\ BackgroundEnded /\ AskedLater /\ FreshBefore /\ QuestionThere
          /\ ConvKnown /\ BackgroundOwes /\ OneAnswerOneLog

\* The conjuncts that the classes have to preserve.
LogParts == /\ BackgroundEnded /\ AskedLater /\ FreshBefore /\ QuestionThere
            /\ ConvKnown /\ BackgroundOwes /\ OneAnswerOneLog

LEMMA LogAsks ==
    ASSUME LogInv, NEW t \in Turns, Asks(t), TypeInv'
    PROVE  LogParts'
  <1> USE DEF LogInv, Asks, dbVars
  <1>1. t \notin question /\ t \notin background /\ turn[t].pc = "idle"
    BY DEF AskedLater, BackgroundEnded, IdleTurn
  <1>2. BackgroundEnded' /\ AskedLater'
    BY <1>1 DEF BackgroundEnded, AskedLater, TypeInv, TypeOK
  <1>3. FreshBefore' /\ QuestionThere'
    BY <1>1 DEF FreshBefore, QuestionThere, Exists, StreamPC, PersistPC
  <1>4. ConvKnown' /\ BackgroundOwes'
    <2>1. ConvKnown'
      BY <1>1 DEF ConvKnown, TypeInv, TypeOK, Exists
    <2>2. \A v \in background : v \in Turns /\ v # t
      BY <1>1 DEF TypeInv, TypeOK
    <2>3. /\ \A v \in background : turn'[v] = turn[v]
          /\ UNCHANGED <<title, answer, usage, background>>
      BY <2>2
    <2>4. BackgroundOwes'
      BY <2>3 DEF BackgroundOwes, Exists, Stored
    <2>5. QED
      BY <2>1, <2>4
  <1>5. OneAnswerOneLog'
    BY <1>1 DEF OneAnswerOneLog, Stored, Ended, At
  <1>6. QED
    BY <1>2, <1>3, <1>4, <1>5 DEF LogParts

LEMMA LogAdvances ==
    ASSUME LogInv, NEW t \in Turns, Advances(t)
    PROVE  LogParts'
  <1> USE DEF LogInv, Advances, Moved, dbVars, PreparePC, StreamPC, PersistPC
  <1>1. BackgroundEnded' /\ AskedLater'
    BY DEF BackgroundEnded, AskedLater, TypeInv, TypeOK
  <1>2. FreshBefore' /\ QuestionThere'
    BY DEF FreshBefore, QuestionThere, Exists
  <1>3. ConvKnown'
    BY DEF ConvKnown, TypeInv, TypeOK
  <1>4. BackgroundOwes'
    BY DEF BackgroundOwes, BackgroundEnded, TypeInv, TypeOK, Exists, Stored
  <1>5. OneAnswerOneLog'
    BY DEF OneAnswerOneLog, Stored, Ended, At
  <1>6. QED
    BY <1>1, <1>2, <1>3, <1>4, <1>5 DEF LogParts

LEMMA LogBegins ==
    ASSUME LogInv, NEW t \in Turns, Begins(t)
    PROVE  LogParts'
  <1> USE DEF LogInv, Begins, Moved, PreparePC, StreamPC, PersistPC
  <1>1. BackgroundEnded' /\ AskedLater'
    BY DEF BackgroundEnded, AskedLater, TypeInv, TypeOK
  <1>2. FreshBefore' /\ QuestionThere'
    BY DEF FreshBefore, QuestionThere, Exists
  <1>3. ConvKnown'
    BY DEF ConvKnown, TypeInv, TypeOK
  <1>4. BackgroundOwes'
    BY DEF BackgroundOwes, BackgroundEnded, TypeInv, TypeOK, Exists, Stored
  <1>5. OneAnswerOneLog'
    BY DEF OneAnswerOneLog, Stored, Ended, At
  <1>6. QED
    BY <1>1, <1>2, <1>3, <1>4, <1>5 DEF LogParts

LEMMA LogRefuses ==
    ASSUME LogInv, NEW t \in Turns, Refuses(t)
    PROVE  LogParts'
  <1> USE DEF LogInv, Refuses, Moved, PreparePC
  <1>1. BackgroundEnded' /\ AskedLater'
    BY DEF BackgroundEnded, AskedLater, TypeInv, TypeOK
  <1>2. FreshBefore' /\ QuestionThere'
    BY DEF FreshBefore, QuestionThere, Exists, BackgroundEnded, StreamPC, PersistPC
  <1>3. ConvKnown'
    BY DEF ConvKnown, TypeInv, TypeOK
  <1>4. BackgroundOwes'
    BY DEF BackgroundOwes, BackgroundEnded, TypeInv, TypeOK, Exists, Stored
  <1>5. OneAnswerOneLog'
    BY DEF OneAnswerOneLog, FreshBefore, Stored, Ended, At
  <1>6. QED
    BY <1>1, <1>2, <1>3, <1>4, <1>5 DEF LogParts

\* TXN B is recorded for a turn that has no log yet.
LEMMA FirstRecord ==
    ASSUME LogInv, NEW t \in Turns, Recorded(t), usage[t] = <<>>,
           t \in question \/ ~Exists(turn[t].conv)
    PROVE  /\ Len(usage'[t]) = 1
           /\ answer'[t] # NoAnswer => t \in question
           /\ turn[t].text = 0 \/ answer'[t] # NoAnswer
           /\ \A v \in Turns : v # t => answer'[v] = answer[v] /\ usage'[v] = usage[v]
  <1>1. Len(usage'[t]) = 1
    BY DEF Recorded
  <1>2. ASSUME answer'[t] # NoAnswer
        PROVE  t \in question
    <2>1. CASE answer[t] # NoAnswer
      BY <2>1 DEF LogInv, OneAnswerOneLog, Stored
    <2>2. CASE answer[t] = NoAnswer
      BY <1>2, <2>2 DEF Recorded
    <2>3. QED
      BY <2>1, <2>2
  <1>3. QED
    BY <1>1, <1>2 DEF Recorded

\* OneAnswerOneLog of one turn.
Accounted(t) ==
    /\ Len(usage[t]) <= 1
    /\ Stored(t) => t \in question /\ Len(usage[t]) = 1
    /\ Ended(t) /\ turn[t].reply = "none" /\ turn[t].left = "no" =>
           Len(usage[t]) = 1 \/ turn[t].logged

\* A step of one turn preserves it if that turn is accounted for.
LEMMA OneTurnLogged ==
    ASSUME OneAnswerOneLog, UNCHANGED question, NEW t \in Turns, Accounted(t)',
           \A v \in Turns : v # t => /\ answer'[v] = answer[v] /\ usage'[v] = usage[v]
                                     /\ turn'[v] = turn[v]
    PROVE  OneAnswerOneLog'
  <1>1. ASSUME NEW v \in Turns, v # t
        PROVE  Accounted(v)'
    <2>1. Accounted(v)
      BY DEF OneAnswerOneLog, Accounted
    <2>2. QED
      BY <1>1, <2>1 DEF Accounted, Stored, Ended, At
  <1>2. \A v \in Turns : Accounted(v)'
    BY <1>1
  <1>3. QED
    BY <1>2 DEF OneAnswerOneLog, Accounted

LEMMA LogAnswers ==
    ASSUME LogInv, NEW t \in Turns, Answers(t)
    PROVE  LogParts'
  <1> USE DEF LogInv, Answers, Moved
  <1>1. turn[t].pc \in StreamPC /\ t \notin background
    BY DEF StreamPC, PersistPC, BackgroundEnded
  <1>2. usage[t] = <<>> /\ answer[t] = NoAnswer /\ (t \in question \/ ~Exists(turn[t].conv))
    BY <1>1 DEF FreshBefore, QuestionThere
  <1>3. /\ Len(usage'[t]) = 1 \/ (usage'[t] = <<>> /\ turn'[t].logged)
        /\ answer'[t] # NoAnswer => t \in question /\ Len(usage'[t]) = 1
        /\ \A v \in Turns : v # t => answer'[v] = answer[v] /\ usage'[v] = usage[v]
    BY <1>2, FirstRecord
  <1>4. BackgroundEnded' /\ AskedLater'
    BY DEF BackgroundEnded, AskedLater, TypeInv, TypeOK, PreparePC
  <1>5. FreshBefore'
    BY <1>3 DEF FreshBefore, PreparePC, StreamPC, PersistPC
  <1>6. QuestionThere'
    BY <1>1 DEF QuestionThere, Exists, StreamPC, PersistPC
  <1>7. ConvKnown'
    BY DEF ConvKnown
  <1>8. BackgroundOwes'
    <2>1. background \subseteq Turns
      BY DEF TypeInv, TypeOK
    <2>2. \A v \in background : /\ turn'[v] = turn[v] /\ usage'[v] = usage[v]
                                /\ answer'[v] = answer[v]
      BY <1>1, <1>3, <2>1
    <2>3. QED
      BY <2>2 DEF BackgroundOwes, Exists, Stored
  <1>9. OneAnswerOneLog'
    <2>1. Accounted(t)'
      <3>1. Len(usage'[t]) <= 1
        <4>1. CASE Len(usage'[t]) = 1
          BY <4>1
        <4>2. CASE usage'[t] = <<>>
          BY <4>2
        <4>3. QED
          BY <1>3, <4>1, <4>2
      <3>2. question' = question
        OBVIOUS
      <3>3. QED
        BY <1>3, <3>1, <3>2 DEF Accounted, Stored
    <2>2. QED
      BY <1>3, <2>1, OneTurnLogged
  <1>10. QED
    BY <1>4, <1>5, <1>6, <1>7, <1>8, <1>9 DEF LogParts

LEMMA LogLeaves ==
    ASSUME LogInv, NEW t \in Turns, Leaves(t)
    PROVE  LogParts'
  <1> USE DEF LogInv, Leaves, Moved
  <1>1. t \notin background /\ turn[t].pc # "no"
    BY DEF StreamPC, PersistPC, BackgroundEnded
  <1>2. usage[t] = <<>> /\ answer[t] = NoAnswer /\ (t \in question \/ ~Exists(turn[t].conv))
    BY DEF FreshBefore, QuestionThere
  <1>3. /\ Len(usage'[t]) = 1 \/ usage'[t] = <<>>
        /\ answer'[t] # NoAnswer => t \in question /\ Len(usage'[t]) = 1
        /\ usage'[t] = <<>> \/ turn[t].text = 0 \/ answer'[t] # NoAnswer
        /\ \A v \in Turns : v # t => answer'[v] = answer[v] /\ usage'[v] = usage[v]
    BY <1>2, FirstRecord
  <1>4. background \subseteq Turns /\ question \subseteq Turns
    BY DEF TypeInv, TypeOK
  <1>5. BackgroundEnded' /\ AskedLater'
    BY <1>4 DEF BackgroundEnded, AskedLater, PreparePC
  <1>6. FreshBefore'
    BY <1>3 DEF FreshBefore, PreparePC, StreamPC, PersistPC
  <1>7. QuestionThere'
    BY DEF QuestionThere, Exists, StreamPC, PersistPC
  <1>8. ConvKnown'
    BY DEF ConvKnown
  <1>9. BackgroundOwes'
    <2>1. \A v \in background : /\ turn'[v] = turn[v] /\ usage'[v] = usage[v]
                                /\ answer'[v] = answer[v]
      BY <1>1, <1>3, <1>4
    <2>2. turn'[t].left # "no" /\ (usage'[t] = <<>> \/ turn'[t].text = 0 \/ Stored(t)')
      BY <1>1, <1>3 DEF Stored
    <2>3. QED
      BY <2>1, <2>2 DEF BackgroundOwes, Exists, Stored
  <1>10. OneAnswerOneLog'
    <2>1. Len(usage'[t]) <= 1
      <3>1. CASE Len(usage'[t]) = 1
        BY <3>1
      <3>2. CASE usage'[t] = <<>>
        BY <3>2
      <3>3. QED
        BY <1>3, <3>1, <3>2
    <2>2. question' = question /\ turn'[t].left # "no"
      BY <1>1
    <2>3. Accounted(t)'
      BY <1>3, <2>1, <2>2 DEF Accounted, Stored
    <2>4. QED
      BY <1>3, <2>3, OneTurnLogged
  <1>11. QED
    BY <1>5, <1>6, <1>7, <1>8, <1>9, <1>10 DEF LogParts

LEMMA LogDetached ==
    ASSUME LogInv, NEW t \in Turns, Detached(t)
    PROVE  LogParts'
  <1> USE DEF LogInv, Detached, Moved
  <1>1. turn[t].pc = "ended" /\ turn[t].left # "no" /\ turn[t].text \in Nat
    <2>1. turn[t] \in TurnRecord
      BY DEF TypeInv, TypeOK
    <2>2. turn[t].text \in Nat
      BY <2>1, ConstantsAssumption DEF TurnRecord
    <2>3. QED
      BY <2>2 DEF BackgroundEnded, BackgroundOwes
  <1>2. /\ \A v \in Turns : v # t => turn'[v] = turn[v]
        /\ turn'[t].conv = turn[t].conv
    OBVIOUS
  <1>3. background \subseteq Turns /\ question \subseteq Turns
    BY DEF TypeInv, TypeOK
  <1>4. /\ \A v \in Turns : v # t => answer'[v] = answer[v] /\ usage'[v] = usage[v]
        /\ Len(usage'[t]) <= 1
        /\ answer'[t] # NoAnswer => t \in question /\ Len(usage'[t]) = 1
    <2>1. CASE UNCHANGED <<answer, usage>>
      BY <2>1 DEF OneAnswerOneLog, Stored
    <2>2. CASE turn[t].text > 0 /\ Recorded(t)
      <3>1. answer[t] = NoAnswer /\ answer'[t] # NoAnswer /\ Exists(turn[t].conv)
        BY <1>1, <2>2 DEF Recorded
      <3>2. usage[t] = <<>> /\ t \in question
        BY <1>1, <2>2, <3>1 DEF BackgroundOwes, QuestionThere, Stored
      <3>3. Len(usage'[t]) = 1
            /\ \A v \in Turns : v # t => answer'[v] = answer[v] /\ usage'[v] = usage[v]
        BY <2>2, <3>2, FirstRecord
      <3>4. QED
        BY <3>2, <3>3
    <2>3. QED
      BY <2>1, <2>2
  <1>5. BackgroundEnded' /\ AskedLater'
    BY <1>2, <1>3 DEF BackgroundEnded, AskedLater
  <1>6. FreshBefore'
    BY <1>1, <1>2, <1>4 DEF FreshBefore, PreparePC, StreamPC, PersistPC
  <1>7. QuestionThere' /\ ConvKnown'
    BY <1>2 DEF QuestionThere, ConvKnown, Exists
  <1>8. BackgroundOwes'
    <2>1. \A v \in background' : /\ v \in background /\ turn'[v] = turn[v]
                                 /\ usage'[v] = usage[v] /\ answer'[v] = answer[v]
      BY <1>2, <1>3, <1>4
    <2>2. QED
      BY <2>1 DEF BackgroundOwes, Exists, Stored
  <1>9. OneAnswerOneLog'
    <2>1. question' = question /\ turn'[t].left # "no"
      BY <1>1
    <2>2. Accounted(t)'
      BY <1>4, <2>1 DEF Accounted, Stored
    <2>3. QED
      BY <1>2, <1>4, <2>2, OneTurnLogged
  <1>10. QED
    BY <1>5, <1>6, <1>7, <1>8, <1>9 DEF LogParts

LEMMA LogRetitles ==
    ASSUME LogInv, Retitles
    PROVE  LogParts'
  <1> USE DEF LogInv, Retitles
  <1>1. \A t \in Turns : turn[t].pc # "idle" =>
          /\ turn[t].conv \in Convs /\ title'[turn[t].conv] # "absent"
          /\ Exists(turn[t].conv)' => Exists(turn[t].conv)
    BY DEF TypeInv, ConvKnown
  <1>2. background \subseteq Turns /\ question \subseteq Turns
    BY DEF TypeInv, TypeOK
  <1>3. BackgroundEnded' /\ AskedLater' /\ FreshBefore'
    BY DEF BackgroundEnded, AskedLater, FreshBefore
  <1>4. QuestionThere' /\ ConvKnown'
    BY <1>1 DEF QuestionThere, ConvKnown, BackgroundEnded, StreamPC, PersistPC
  <1>5. BackgroundOwes'
    BY <1>1, <1>2 DEF BackgroundOwes, BackgroundEnded, Stored
  <1>6. OneAnswerOneLog'
    BY DEF OneAnswerOneLog, Stored, Ended, At
  <1>7. QED
    BY <1>3, <1>4, <1>5, <1>6 DEF LogParts

LEMMA LogDelete ==
    ASSUME LogInv, NEW c \in Convs, Delete(c)
    PROVE  LogParts'
  <1> USE DEF LogInv
  <1>1. /\ title' = [title EXCEPT ![c] = "deleted"] /\ question' = question \ In(c)
        /\ answer' = [t \in Turns |-> IF t \in In(c) THEN NoAnswer ELSE answer[t]]
        /\ UNCHANGED <<usage, turn, background>>
    BY DEF Delete
  <1>2. background \subseteq Turns /\ question \subseteq Turns /\ title \in [Convs -> Titles]
    BY DEF TypeInv, TypeOK
  <1>3. \A t \in Turns : turn[t].pc # "idle" =>
          /\ title'[turn[t].conv] # "absent"
          /\ Exists(turn[t].conv)' => Exists(turn[t].conv) /\ t \notin In(c)
    BY <1>1, <1>2 DEF TypeInv, ConvKnown, Exists, In
  <1>4. /\ \A t \in Turns : answer'[t] = NoAnswer \/ (answer'[t] = answer[t] /\ t \notin In(c))
        /\ \A t \in Turns : t \notin In(c) => answer'[t] = answer[t]
    BY <1>1
  <1>5. BackgroundEnded' /\ AskedLater' /\ FreshBefore'
    BY <1>1, <1>4 DEF BackgroundEnded, AskedLater, FreshBefore
  <1>6. QuestionThere' /\ ConvKnown'
    BY <1>1, <1>3 DEF QuestionThere, ConvKnown, BackgroundEnded, StreamPC, PersistPC
  <1>7. BackgroundOwes'
    BY <1>1, <1>2, <1>3, <1>4 DEF BackgroundOwes, BackgroundEnded, Stored
  <1>8. OneAnswerOneLog'
    BY <1>1, <1>4 DEF OneAnswerOneLog, Stored, Ended, At
  <1>9. QED
    BY <1>5, <1>6, <1>7, <1>8 DEF LogParts

LEMMA LogStops ==
    ASSUME LogInv, Stops
    PROVE  LogParts'
  <1> USE DEF LogInv, dbVars
  <1>1. /\ background' = {} /\ UNCHANGED <<title, question, answer, usage>>
        /\ \A t \in Turns : turn'[t].conv = turn[t].conv
    BY DEF Stops
  <1>2. question \subseteq Turns
    BY DEF TypeInv, TypeOK
  <1>3. \A t \in Turns : /\ turn'[t].pc \in {turn[t].pc, "ended"}
                         /\ turn'[t].pc # "ended" => turn'[t].pc \notin PreparePC \cup StreamPC
                         /\ turn'[t].pc = "idle" => turn[t].pc = "idle"
    BY DEF Stops, PreparePC, StreamPC, PersistPC
  <1>4. BackgroundEnded' /\ AskedLater'
    BY <1>1, <1>2, <1>3 DEF BackgroundEnded, AskedLater, PreparePC
  <1>5. FreshBefore' /\ QuestionThere'
    BY <1>1, <1>3 DEF FreshBefore, QuestionThere, PreparePC, StreamPC, PersistPC
  <1>6. ConvKnown' /\ BackgroundOwes'
    <2>1. ASSUME NEW t \in Turns, turn'[t].pc # "idle"
          PROVE  turn[t].pc # "idle"
      BY <2>1 DEF Stops, PreparePC, StreamPC, PersistPC
    <2>2. QED
      BY <1>1, <2>1 DEF ConvKnown, BackgroundOwes
  <1>7. ASSUME NEW t \in Turns, Ended(t)', turn'[t].reply = "none", turn'[t].left = "no"
        PROVE  Ended(t) /\ turn[t].reply = "none" /\ turn[t].left = "no"
               /\ turn'[t].logged = turn[t].logged
    BY <1>7 DEF Stops, Ended, At, PreparePC, StreamPC, PersistPC
  <1>8. OneAnswerOneLog'
    BY <1>1, <1>7 DEF OneAnswerOneLog, Stored
  <1>9. QED
    BY <1>4, <1>5, <1>6, <1>8 DEF LogParts

LEMMA LogStep == LogInv /\ [Next]_vars => LogInv'
  <1> SUFFICES ASSUME LogInv, [Next]_vars
               PROVE  LogInv'
    OBVIOUS
  <1>1. CASE Next
    <2>1. TypeInv' /\ \/ \E t \in Turns : TurnStep(t)
                      \/ \E c \in Convs : Delete(c)
                      \/ Retitles
                      \/ Stops
      BY <1>1, Classes DEF LogInv
    <2>2. LogParts'
      BY <2>1, LogAsks, LogAdvances, LogBegins, LogRefuses, LogAnswers, LogLeaves, LogDetached,
         LogDelete, LogRetitles, LogStops DEF TurnStep
    <2>3. QED
      BY <2>1, <2>2 DEF LogInv, LogParts
  <1>2. CASE UNCHANGED vars
    BY <1>2 DEF vars, LogInv, TypeInv, TypeOK, BackgroundEnded, AskedLater, FreshBefore,
                QuestionThere, ConvKnown, BackgroundOwes, OneAnswerOneLog, Stored, Ended, At,
                Exists
  <1>3. QED
    BY <1>1, <1>2

LEMMA LogInit == Init => LogInv
  <1> SUFFICES ASSUME Init
               PROVE  LogInv
    OBVIOUS
  <1>1. IdleTurn \in TurnRecord /\ NoAnswer \in AnswerRow
    BY ConstantsAssumption DEF IdleTurn, TurnRecord, PC, Reply, NoAnswer, AnswerRow
  <1>2. TypeInv
    BY <1>1 DEF Init, TypeInv, TypeOK, IdleTurn, Titles
  <1>3. \A t \in Turns : turn[t].pc = "idle" /\ answer[t] = NoAnswer /\ usage[t] = <<>>
    BY DEF Init, IdleTurn
  <1>4. QED
    BY <1>2, <1>3 DEF Init, LogInv, BackgroundEnded, AskedLater, FreshBefore, QuestionThere,
                      ConvKnown, BackgroundOwes, OneAnswerOneLog, Stored, Ended, At, StreamPC,
                      PersistPC

\* Every step of a turn, its detached task, the user and the title worker keeps the
\* types; only a turn that has ended is left to a detached task.
THEOREM TypeCorrect == Spec => []TypeOK
  <1>1. LogInv => TypeOK
    BY DEF LogInv, TypeInv
  <1>2. QED
    BY <1>1, LogInit, LogStep, PTL DEF Spec

\* TXN B and the detached task that repeats it: however the provider, the database,
\* the client and the process fail, a turn is logged once, a stored answer has its
\* question and its log, and a turn the client stayed on leaves a log or an entry.
THEOREM AnsweredOnce == Spec => []OneAnswerOneLog
  <1>1. LogInv => OneAnswerOneLog
    BY DEF LogInv
  <1>2. QED
    BY <1>1, LogInit, LogStep, PTL DEF Spec

(***************************************************************************)
(* A client_message_id is accepted once                                    *)
(***************************************************************************)

\* A question is stored, or about to be.
HoldsKey(t) == t \in question \/ At(t, "commit")

OneHolder == \A t, u \in Turns : HoldsKey(t) /\ HoldsKey(u) => ~SameKey(t, u)

\* A step that lets nobody else hold a key.
LEMMA HoldersShrink ==
    ASSUME OneHolder, \A t \in Turns : HoldsKey(t)' =>
             HoldsKey(t) /\ turn'[t].conv = turn[t].conv /\ turn'[t].key = turn[t].key
    PROVE  OneHolder'
  BY DEF OneHolder, SameKey

LEMMA KeyTurn ==
    ASSUME LogInv, OneHolder, NEW t \in Turns, TurnStep(t)
    PROVE  OneHolder'
  <1>1. CASE Asks(t)
    <2>1. t \notin question
      BY <1>1 DEF Asks, LogInv, AskedLater, IdleTurn
    <2>2. QED
      BY <1>1, <2>1, HoldersShrink DEF Asks, HoldsKey, At, dbVars
  <1>2. CASE Advances(t) /\ turn'[t].pc # "commit"
    BY <1>2, HoldersShrink DEF Advances, Moved, HoldsKey, At, dbVars
  <1>3. CASE Advances(t) /\ turn'[t].pc = "commit"
    <2>1. KeyFree(t) /\ ~KeyStored(t) /\ question' = question /\ Moved(t)
      BY <1>3 DEF Advances, Insert, dbVars
    <2>2. \A u \in Turns : HoldsKey(u) => ~SameKey(t, u)
      BY <2>1 DEF KeyFree, KeyStored, HoldsKey
    <2>3. \A u \in Turns : HoldsKey(u) => ~SameKey(u, t)
      BY <2>2 DEF SameKey
    <2>4. \A u \in Turns : u # t /\ HoldsKey(u)' => HoldsKey(u)
      BY <2>1 DEF Moved, HoldsKey, At
    <2>5. \A u, v \in Turns : SameKey(u, v)' => SameKey(u, v)
      BY <2>1 DEF Moved, SameKey
    <2>6. \A u \in Turns : ~SameKey(u, u)
      BY DEF SameKey
    <2>7. QED
      BY <2>2, <2>3, <2>4, <2>5, <2>6 DEF OneHolder
  <1>4. CASE Begins(t)
    BY <1>4, HoldersShrink DEF Begins, Moved, HoldsKey, At
  <1>5. CASE Refuses(t)
    BY <1>5, HoldersShrink DEF Refuses, Moved, HoldsKey, At
  <1>6. CASE Answers(t)
    BY <1>6, HoldersShrink DEF Answers, Moved, HoldsKey, At
  <1>7. CASE Leaves(t)
    BY <1>7, HoldersShrink DEF Leaves, Moved, HoldsKey, At
  <1>8. CASE Detached(t)
    BY <1>8, HoldersShrink DEF Detached, Moved, HoldsKey, At
  <1>9. QED
    BY <1>1, <1>2, <1>3, <1>4, <1>5, <1>6, <1>7, <1>8 DEF TurnStep

LEMMA KeyStep == LogInv /\ OneHolder /\ [Next]_vars => OneHolder'
  <1> SUFFICES ASSUME LogInv, OneHolder, [Next]_vars
               PROVE  OneHolder'
    OBVIOUS
  <1>1. CASE Next
    <2>1. CASE \E t \in Turns : TurnStep(t)
      BY <2>1, KeyTurn
    <2>2. CASE \E c \in Convs : Delete(c)
      BY <2>2, HoldersShrink DEF Delete, HoldsKey, At
    <2>3. CASE Retitles
      BY <2>3, HoldersShrink DEF Retitles, HoldsKey, At
    <2>4. CASE Stops
      <3>1. \A t \in Turns : HoldsKey(t)' =>
              HoldsKey(t) /\ turn'[t].conv = turn[t].conv /\ turn'[t].key = turn[t].key
        BY <2>4 DEF Stops, HoldsKey, At, dbVars, PreparePC, StreamPC, PersistPC
      <3>2. QED
        BY <3>1, HoldersShrink
    <2>5. QED
      BY <1>1, <2>1, <2>2, <2>3, <2>4, Classes DEF LogInv
  <1>2. CASE UNCHANGED vars
    BY <1>2, HoldersShrink DEF vars, HoldsKey, At
  <1>3. QED
    BY <1>1, <1>2

\* ux_messages_client_id: of concurrent sends with one client_message_id, at most one
\* gets its question stored in a conversation.
THEOREM AskedOnce == Spec => []QuestionAskedOnce
  <1>1. Init => OneHolder
    BY DEF Init, OneHolder, HoldsKey, At, IdleTurn
  <1>2. LogInv /\ OneHolder => QuestionAskedOnce
    BY DEF LogInv, TypeInv, TypeOK, OneHolder, HoldsKey, QuestionAskedOnce
  <1>3. QED
    BY <1>1, <1>2, LogInit, LogStep, KeyStep, PTL DEF Spec

(***************************************************************************)
(* The user's title                                                        *)
(***************************************************************************)
KeepsUserTitle == \A c \in Convs : title[c] = "user" => title'[c] \in {"user", "deleted"}

LEMMA TitleStepKeeps == LogInv /\ [Next]_vars => [KeepsUserTitle]_title
  <1> SUFFICES ASSUME LogInv, [Next]_vars
               PROVE  KeepsUserTitle \/ UNCHANGED title
    OBVIOUS
  <1>1. title \in [Convs -> Titles]
    BY DEF LogInv, TypeInv, TypeOK
  <1>2. ASSUME NEW c \in Convs, Create(c) \/ Rename(c) \/ Delete(c)
        PROVE  KeepsUserTitle
    BY <1>1, <1>2 DEF Create, Rename, Delete, KeepsUserTitle
  <1>3. ASSUME NEW c \in Convs, TitleWrite(c)
        PROVE  KeepsUserTitle
    BY <1>1, <1>3 DEF TitleWrite, SetTitleIfNull, KeepsUserTitle
  <1>4. ASSUME NEW c \in Convs, TitleRead(c)
        PROVE  UNCHANGED title
    BY <1>4 DEF TitleRead, dbVars
  <1>5. ASSUME NEW t \in Turns, ClientStep(t) \/ RequestStep(t) \/ BackgroundPersist(t)
        PROVE  UNCHANGED title
    <2>1. CASE BackgroundPersist(t)
      BY <2>1 DEF BackgroundPersist
    <2>2. CASE ClientStep(t)
      BY <2>2 DEF ClientStep, Send, LeaveEarly, LeaveStream, LeavePersistError, LeavePersist,
                  dbVars
    <2>3. CASE RequestStep(t)
      BY <2>3 DEF RequestStep, Load, LoadRejects, Insert, InsertRejects, Commit, PrepareFails,
                  Serve, Retrieve, RetrieveFails, TextDelta, StreamEnds, PersistSuccess,
                  PersistSuccessFails, PersistError, PersistErrorFails, dbVars
    <2>4. QED
      BY <1>5, <2>1, <2>2, <2>3
  <1>6. CASE ProcessStop \/ UNCHANGED vars
    BY <1>6 DEF ProcessStop, dbVars, vars
  <1>7. QED
    BY <1>2, <1>3, <1>4, <1>5, <1>6 DEF Next, ConversationStep, TitleStep

\* ConversationRepository.set_title_if_null: a title task, however old the read it
\* works on, never replaces a title the user has set.
THEOREM TitleStays == Spec => UserTitleKept
  <1>1. [KeepsUserTitle]_title <=>
          [\A c \in Convs : title[c] = "user" => title'[c] \in {"user", "deleted"}]_title
    BY DEF KeepsUserTitle
  <1>2. QED
    BY <1>1, LogInit, LogStep, TitleStepKeeps, PTL DEF Spec, UserTitleKept

-----------------------------------------------------------------------------
(***************************************************************************)
(* What a turn has streamed, and what is stored of it                      *)
(***************************************************************************)

(***************************************************************************)
(* Counting events                                                         *)
(***************************************************************************)
LEMMA CountAppend ==
    ASSUME TypeInv, NEW t \in Turns, NEW ev \in Event, out'[t] = Append(out[t], ev), NEW e
    PROVE  Count(t, e) \in Nat /\ Count(t, e)' = IF e = ev THEN Count(t, e) + 1 ELSE Count(t, e)
  <1> DEFINE n == Len(out[t])
             S == {i \in DOMAIN out[t] : out[t][i] = e}
             R == {i \in DOMAIN out'[t] : out'[t][i] = e}
  <1>1. out[t] \in Seq(Event) /\ n \in Nat
    BY DEF TypeInv, TypeOK
  <1>2. DOMAIN out[t] = 1 .. n /\ DOMAIN out'[t] = 1 .. n + 1
    BY <1>1
  <1>3. out'[t][n + 1] = ev /\ \A i \in 1 .. n : out'[t][i] = out[t][i]
    BY <1>1
  <1>4. IsFiniteSet(S)
    <2>1. IsFiniteSet(1 .. n)
      BY <1>1, FS_Interval
    <2>2. S \subseteq 1 .. n
      BY <1>2
    <2>3. QED
      BY <2>1, <2>2, FS_Subset
  <1>5. Cardinality(S) \in Nat
    BY <1>4, FS_CardinalityType
  <1>6. CASE e = ev
    <2>1. R = S \cup {n + 1} /\ n + 1 \notin S
      BY <1>1, <1>2, <1>3, <1>6
    <2>2. Cardinality(R) = Cardinality(S) + 1
      BY <1>4, <2>1, FS_AddElement
    <2>3. QED
      BY <1>5, <1>6, <2>2 DEF Count
  <1>7. CASE e # ev
    <2>1. R = S
      BY <1>1, <1>2, <1>3, <1>7
    <2>2. QED
      BY <1>5, <1>7, <2>1 DEF Count
  <1>8. QED
    BY <1>6, <1>7

LEMMA CountEmpty ==
    ASSUME NEW t \in Turns, out[t] = <<>>, NEW e
    PROVE  Count(t, e) = 0
  <1>1. {i \in DOMAIN out[t] : out[t][i] = e} = {}
    OBVIOUS
  <1>2. QED
    BY <1>1, FS_EmptySet DEF Count

(***************************************************************************)
(* The invariant of a turn                                                 *)
(***************************************************************************)

\* How far the stream is.
Opening(t) ==
    /\ turn[t].pc \in {"idle"} \cup PreparePC => out[t] = <<>>
    /\ turn[t].pc \in {"started", "retrieve"} => out[t] = <<"message_start">>
    /\ turn[t].pc \in StreamPC => out[t] # <<>>
    /\ turn[t].pc # "ended" => turn[t].left = "no"
    /\ turn[t].pc \in {"idle", "started", "retrieve", "persist_retrieval"} \cup PreparePC =>
           turn[t].text = 0 /\ ~turn[t].cites

\* The buffer and the citations of the turn are what was streamed.
Counted(t) ==
    /\ Count(t, "delta") = turn[t].text
    /\ Count(t, "citations") = IF turn[t].cites THEN 1 ELSE 0

Matches(t) ==
    Stored(t) => answer[t].text = turn[t].text /\ answer[t].cites = turn[t].cites

DoneKept(t) ==
    Count(t, "done") # 0 =>
        /\ Ended(t) /\ turn[t].left = "no"
        /\ answer[t].kind = "full" \/ ~ Exists(turn[t].conv)

TextKept(t) ==
    Ended(t) /\ turn[t].text > 0 /\ turn[t].left \notin {"stop", "persist_success"} => Kept(t)

StreamOK(t) == Opening(t) /\ Counted(t) /\ Matches(t) /\ DoneKept(t) /\ TextKept(t)
StreamInv   == \A t \in Turns : StreamOK(t)

\* A step of turn t leaves the others alone.
Alone(t) ==
    /\ \A v \in Turns : v # t =>
         /\ turn'[v] = turn[v] /\ out'[v] = out[v] /\ answer'[v] = answer[v]
         /\ v \in background' <=> v \in background
    /\ title' = title

LEMMA OneTurn ==
    ASSUME StreamInv, NEW t \in Turns, Alone(t), StreamOK(t)'
    PROVE  StreamInv'
  <1> SUFFICES ASSUME NEW v \in Turns, v # t
               PROVE  StreamOK(v)'
    BY DEF StreamInv
  <1>1. StreamOK(v) /\ turn'[v] = turn[v] /\ out'[v] = out[v] /\ answer'[v] = answer[v]
        /\ (v \in background' <=> v \in background) /\ title' = title
    BY DEF StreamInv, Alone
  <1>2. \A e : Count(v, e)' = Count(v, e)
    BY <1>1 DEF Count
  <1>3. (Opening(v) /\ Counted(v))'
    BY <1>1, <1>2 DEF StreamOK, Opening, Counted
  <1>4. (Matches(v) /\ DoneKept(v) /\ TextKept(v))'
    BY <1>1, <1>2 DEF StreamOK, Matches, DoneKept, TextKept, Stored, Ended, At, Exists, Kept
  <1>5. QED
    BY <1>3, <1>4 DEF StreamOK

(***************************************************************************)
(* The stages of the protocol                                              *)
(***************************************************************************)
ProtocolStep == Protocol!Next \/ UNCHANGED Protocol!vars

StageOf(t) ==
    IF out[t] = <<>> THEN "new"
    ELSE IF ~ Ended(t) THEN "open"
    ELSE IF turn[t].left = "no" THEN "finished"
    ELSE "left"

LEMMA StageQuiet ==
    ASSUME out' = out, \A t \in Turns : StageOf(t)' = StageOf(t)
    PROVE  ProtocolStep
  BY DEF ProtocolStep, Protocol!vars, Stage, StageOf, Ended, At

\* Turn t yields ev.
LEMMA StageEmits ==
    ASSUME NEW t \in Turns, NEW ev, NEW from, NEW to, Yield(t, ev), Alone(t),
           StageOf(t) = from, StageOf(t)' = to
    PROVE  Protocol!Emit(t, from, to, ev)
  <1>1. \A v \in Turns : v # t => StageOf(v)' = StageOf(v)
    BY DEF Alone, StageOf, Ended, At
  <1>2. Stage' = [Stage EXCEPT ![t] = to] /\ Stage[t] = from
    BY <1>1 DEF Stage, StageOf, Ended, At
  <1>3. QED
    BY <1>2 DEF Protocol!Emit, Yield

(***************************************************************************)
(* The steps of a turn                                                     *)
(***************************************************************************)
Inv == LogInv /\ StreamInv

Preserved == StreamInv' /\ ProtocolStep

\* A step that yields nothing and stores nothing.
Waits(t) ==
    /\ Moved(t) /\ SameText(t) /\ turn'[t].left = turn[t].left
    /\ UNCHANGED <<title, answer, out, background>>
    /\ \/ turn[t].pc \in PreparePC /\ turn'[t].pc \in PreparePC \cup {"ended"}
       \/ turn[t].pc = "started" /\ turn'[t].pc \in {"retrieve", "stream"}
       \/ turn[t].pc = "retrieve" /\ turn'[t].pc \in {"stream", "persist_retrieval"}
       \/ turn[t].pc = "stream" /\ turn'[t].pc \in {"persist_success", "persist_error"}

LEMMA TurnTypes ==
    ASSUME LogInv, NEW t \in Turns
    PROVE  /\ TypeInv /\ turn[t] \in TurnRecord /\ out[t] \in Seq(Event)
           /\ turn[t].text \in Nat /\ turn[t].cites \in BOOLEAN
           /\ answer[t] \in AnswerRow
           /\ turn[t].pc \in {"idle"} \cup PreparePC \cup StreamPC => answer[t] = NoAnswer
  <1>1. TypeInv /\ turn[t] \in TurnRecord /\ out[t] \in Seq(Event) /\ answer[t] \in AnswerRow
    BY DEF LogInv, TypeInv, TypeOK
  <1>2. turn[t].text \in Nat /\ turn[t].cites \in BOOLEAN
    BY <1>1, ConstantsAssumption DEF TurnRecord
  <1>3. turn[t].pc \in {"idle"} \cup PreparePC \cup StreamPC => answer[t] = NoAnswer
    BY DEF LogInv, FreshBefore
  <1>4. QED
    BY <1>1, <1>2, <1>3

LEMMA WaitsKeeps ==
    ASSUME Inv, NEW t \in Turns, Waits(t)
    PROVE  Preserved
  <1> USE DEF PreparePC, StreamPC, PersistPC
  <1>1. /\ StreamOK(t) /\ turn[t].left = "no" /\ turn'[t].left = "no" /\ ~Ended(t)
        /\ turn'[t].text = turn[t].text /\ turn'[t].cites = turn[t].cites
        /\ turn'[t].conv = turn[t].conv
        /\ out' = out /\ answer' = answer /\ title' = title /\ background' = background
        /\ answer[t] = NoAnswer
    BY TurnTypes DEF Inv, StreamInv, StreamOK, Opening, Waits, Moved, SameText, Ended, At
  <1>2. Alone(t) /\ \A e : Count(t, e)' = Count(t, e)
    BY <1>1 DEF Alone, Waits, Moved, Count
  <1>3. Opening(t)'
    BY <1>1 DEF StreamOK, Opening, Waits
  <1>4. Counted(t)' /\ Matches(t)' /\ DoneKept(t)'
    BY <1>1, <1>2 DEF StreamOK, Counted, Matches, DoneKept, Stored
  <1>5. TextKept(t)'
    BY <1>1 DEF StreamOK, Opening, TextKept, Waits, Ended, At
  <1>6. StreamInv'
    BY <1>2, <1>3, <1>4, <1>5, OneTurn DEF Inv, StreamOK
  <1>7. StageOf(t)' = StageOf(t)
    <2>1. CASE turn[t].pc \in PreparePC
      BY <1>1, <2>1 DEF StreamOK, Opening, StageOf
    <2>2. CASE turn[t].pc \in StreamPC
      BY <1>1, <2>2 DEF StageOf, Waits, Ended, At
    <2>3. QED
      BY <2>1, <2>2 DEF Waits
  <1>8. \A v \in Turns : StageOf(v)' = StageOf(v)
    BY <1>1, <1>2, <1>7 DEF Alone, StageOf, Ended, At
  <1>9. QED
    BY <1>1, <1>6, <1>8, StageQuiet DEF Preserved

LEMMA SendKeeps ==
    ASSUME Inv, NEW t \in Turns, NEW c \in Convs, Send(t, c)
    PROVE  Preserved
  <1>1. /\ turn[t] = IdleTurn /\ turn[t].pc = "idle" /\ turn'[t].pc = "load"
        /\ turn'[t].left = "no" /\ turn'[t].text = 0 /\ ~turn'[t].cites
        /\ \A v \in Turns : v # t => turn'[v] = turn[v]
        /\ out' = out /\ answer' = answer /\ title' = title /\ background' = background
    <2>1. UNCHANGED <<dbVars, out, background>>
      BY DEF Send
    <2>2. turn[t] = IdleTurn => turn[t].pc = "idle"
      BY DEF IdleTurn
    <2>3. QED
      BY <2>1, <2>2, SendMoves, TurnTypes DEF Inv, dbVars
  <1>2. answer[t] = NoAnswer /\ StreamOK(t) /\ out[t] = <<>>
    BY <1>1, TurnTypes DEF Inv, StreamInv, StreamOK, Opening
  <1>3. \A e : Count(t, e)' = Count(t, e)
    BY <1>1 DEF Count
  <1>4. Opening(t)' /\ Counted(t)'
    BY <1>1, <1>2, <1>3 DEF StreamOK, Opening, Counted, StreamPC, PersistPC
  <1>5. Matches(t)' /\ DoneKept(t)' /\ TextKept(t)'
    BY <1>1, <1>2, <1>3 DEF StreamOK, Matches, DoneKept, TextKept, Stored, Ended, At
  <1>6. Alone(t)
    BY <1>1 DEF Alone
  <1>7. \A v \in Turns : StageOf(v)' = StageOf(v)
    BY <1>1, <1>2 DEF StageOf, Ended, At
  <1>8. QED
    BY <1>1, <1>4, <1>5, <1>6, <1>7, OneTurn, StageQuiet DEF Inv, StreamOK, Preserved

LEMMA CommitKeeps ==
    ASSUME Inv, NEW t \in Turns, Commit(t)
    PROVE  Preserved
  <1> USE DEF PreparePC, StreamPC, PersistPC
  <1>1. /\ turn[t].pc = "commit" /\ turn'[t].pc = "started" /\ Moved(t) /\ SameText(t)
        /\ turn'[t].left = turn[t].left /\ Yield(t, "message_start")
        /\ answer' = answer /\ title' = title /\ background' = background
    BY TurnTypes, GotoMoves DEF Inv, Commit, At, PC
  <1>2. answer[t] = NoAnswer /\ StreamOK(t) /\ out[t] = <<>> /\ turn[t].left = "no"
        /\ turn[t].text = 0 /\ ~turn[t].cites
    BY <1>1, TurnTypes DEF Inv, StreamInv, StreamOK, Opening
  <1>3. /\ out'[t] = Append(out[t], "message_start")
        /\ \A v \in Turns : v # t => out'[v] = out[v]
    BY <1>1 DEF Yield, Inv, LogInv, TypeInv, TypeOK
  <1>4. \A e : e # "message_start" => Count(t, e)' = Count(t, e)
    BY <1>3, CountAppend, TurnTypes DEF Inv, Event
  <1>5. out'[t] = <<"message_start">> /\ out'[t] # <<>>
    BY <1>2, <1>3
  <1>6. Opening(t)' /\ Counted(t)'
    BY <1>1, <1>2, <1>4, <1>5 DEF StreamOK, Opening, Counted, SameText
  <1>7. Matches(t)' /\ DoneKept(t)' /\ TextKept(t)'
    BY <1>1, <1>2, <1>4 DEF StreamOK, Matches, DoneKept, TextKept, Stored, Ended, At
  <1>8. Alone(t)
    BY <1>1, <1>3 DEF Alone, Moved
  <1>9. StageOf(t) = "new" /\ StageOf(t)' = "open"
    BY <1>1, <1>2, <1>5 DEF StageOf, Ended, At
  <1>10. Protocol!Start(t)
    BY <1>1, <1>8, <1>9, StageEmits DEF Protocol!Start
  <1>11. QED
    BY <1>6, <1>7, <1>8, <1>10, OneTurn DEF Inv, StreamOK, Preserved, ProtocolStep, Protocol!Next

\* Retrieve with a result, and TextDelta.
LEMMA StreamsKeeps ==
    ASSUME Inv, NEW t \in Turns, NEW ev \in {"citations", "delta"}, Yield(t, ev), Moved(t),
           turn[t].pc \in {"retrieve", "stream"}, turn'[t].pc = "stream",
           ev = "citations" => turn[t].pc = "retrieve",
           turn'[t].left = turn[t].left,
           turn'[t].text = IF ev = "delta" THEN turn[t].text + 1 ELSE turn[t].text,
           turn'[t].cites <=> ev = "citations" \/ turn[t].cites,
           answer' = answer, title' = title, background' = background
    PROVE  Preserved
  <1> USE DEF PreparePC, StreamPC, PersistPC
  <1>1. /\ answer[t] = NoAnswer /\ StreamOK(t) /\ out[t] # <<>> /\ turn[t].left = "no"
        /\ turn[t].text \in Nat
    BY TurnTypes DEF Inv, StreamInv, StreamOK, Opening
  <1>2. ev = "citations" => out[t] = <<"message_start">> /\ ~turn[t].cites
    BY <1>1 DEF StreamOK, Opening
  <1>3. /\ out'[t] = Append(out[t], ev)
        /\ \A v \in Turns : v # t => out'[v] = out[v]
    BY DEF Yield, Inv, LogInv, TypeInv, TypeOK
  <1>4. \A e : Count(t, e) \in Nat /\ Count(t, e)' = IF e = ev THEN Count(t, e) + 1 ELSE Count(t, e)
    BY <1>3, CountAppend, TurnTypes DEF Inv, Event
  <1>5. out'[t] # <<>>
    BY <1>3, TurnTypes DEF Inv
  <1>6. Opening(t)'
    BY <1>1, <1>5 DEF Opening
  <1>7. Counted(t)'
    <2>1. CASE ev = "citations"
      BY <1>1, <1>2, <1>4, <2>1 DEF StreamOK, Counted
    <2>2. CASE ev = "delta"
      BY <1>1, <1>4, <2>2 DEF StreamOK, Counted
    <2>3. QED
      BY <2>1, <2>2
  <1>8. Matches(t)' /\ DoneKept(t)' /\ TextKept(t)'
    BY <1>1, <1>4 DEF StreamOK, Matches, DoneKept, TextKept, Stored, Ended, At
  <1>9. Alone(t)
    BY <1>3 DEF Alone, Moved
  <1>10. StageOf(t) = "open" /\ StageOf(t)' = "open"
    BY <1>1, <1>5 DEF StageOf, Ended, At
  <1>11. Protocol!Emit(t, "open", "open", ev)
    BY <1>9, <1>10, StageEmits
  <1>12. Protocol!Cite(t) \/ Protocol!Delta(t)
    BY <1>2, <1>11 DEF Protocol!Cite, Protocol!Delta
  <1>13. QED
    BY <1>6, <1>7, <1>8, <1>9, <1>12, OneTurn
       DEF Inv, StreamOK, Preserved, ProtocolStep, Protocol!Next

-----------------------------------------------------------------------------
\* The end of a turn

\* What TXN B leaves of turn t: nothing, or its text and citations.
Saves(t) ==
    /\ \A v \in Turns : v # t => answer'[v] = answer[v]
    /\ \/ answer'[t] = answer[t]
       \/ /\ answer'[t].text = turn[t].text /\ answer'[t].cites = turn[t].cites
          /\ answer[t] = NoAnswer /\ answer'[t] # NoAnswer

LEMMA StoreSaves ==
    ASSUME LogInv, NEW t \in Turns, NEW kind \in {"full", "partial"}, NEW log, Store(t, kind, log)
    PROVE  /\ Saves(t)
           /\ kind = "full" \/ turn[t].text > 0 =>
                answer'[t] # NoAnswer /\ answer'[t].kind = kind /\ Exists(turn[t].conv)
  <1>1. answer \in [Turns -> AnswerRow] /\ turn[t].text \in Nat
    BY TurnTypes DEF LogInv, TypeInv, TypeOK
  <1>2. /\ AnswerOf(t, kind).kind = kind /\ AnswerOf(t, kind).text = turn[t].text
        /\ AnswerOf(t, kind).cites = turn[t].cites
        /\ AnswerOf(t, kind) # NoAnswer
    BY DEF AnswerOf, NoAnswer
  <1>3. CASE HasMessage(t, kind)
    <2>1. answer' = [answer EXCEPT ![t] = AnswerOf(t, kind)]
      BY <1>3 DEF Store
    <2>2. answer[t] = NoAnswer /\ Exists(turn[t].conv)
      BY <1>3 DEF Store, CanInsert
    <2>3. answer'[t] = AnswerOf(t, kind) /\ \A v \in Turns : v # t => answer'[v] = answer[v]
      BY <1>1, <2>1
    <2>4. QED
      BY <1>2, <2>2, <2>3 DEF Saves
  <1>4. CASE ~HasMessage(t, kind)
    <2>1. answer' = answer /\ kind # "full" /\ ~(turn[t].text > 0)
      BY <1>4 DEF Store, HasMessage
    <2>2. QED
      BY <2>1 DEF Saves
  <1>5. QED
    BY <1>3, <1>4

\* A turn ends with its terminal event.
LEMMA FinishKeeps ==
    ASSUME Inv, NEW t \in Turns, NEW ev \in {"done", "error"}, Yield(t, ev), Moved(t), SameText(t),
           turn[t].pc \in PersistPC, turn'[t].pc = "ended", turn'[t].left = turn[t].left,
           Saves(t), title' = title, background' = background,
           ev = "done" => answer'[t].kind = "full",
           turn[t].text > 0 => answer'[t] # NoAnswer \/ turn'[t].logged
    PROVE  Preserved
  <1> USE DEF PreparePC, StreamPC, PersistPC
  <1>1. /\ answer[t] = NoAnswer /\ StreamOK(t) /\ out[t] # <<>> /\ turn[t].left = "no"
        /\ turn'[t].text = turn[t].text /\ turn'[t].cites = turn[t].cites
    BY TurnTypes DEF Inv, StreamInv, StreamOK, Opening, SameText
  <1>2. /\ out'[t] = Append(out[t], ev)
        /\ \A v \in Turns : v # t => out'[v] = out[v]
    BY DEF Yield, Inv, LogInv, TypeInv, TypeOK
  <1>3. \A e : e # ev => Count(t, e)' = Count(t, e)
    BY <1>2, CountAppend, TurnTypes DEF Inv, Event
  <1>4. out'[t] # <<>>
    BY <1>2, TurnTypes DEF Inv
  <1>5. Opening(t)' /\ Counted(t)'
    BY <1>1, <1>3 DEF StreamOK, Opening, Counted
  <1>6. Matches(t)'
    BY <1>1 DEF Matches, Saves, Stored
  <1>7. DoneKept(t)'
    <2>1. ~Ended(t)
      BY DEF Ended, At
    <2>2. Count(t, "done") = 0
      BY <1>1, <2>1 DEF StreamOK, DoneKept
    <2>3. QED
      BY <1>1, <1>3, <2>2 DEF DoneKept, Ended, At
  <1>8. TextKept(t)'
    BY <1>1 DEF TextKept, Kept, Stored
  <1>9. Alone(t)
    BY <1>2 DEF Alone, Moved, Saves
  <1>10. StageOf(t) = "open" /\ StageOf(t)' = "finished"
    BY <1>1, <1>4 DEF StageOf, Ended, At
  <1>11. Protocol!Finish(t)
    BY <1>9, <1>10, StageEmits DEF Protocol!Finish, Protocol!Terminal
  <1>12. QED
    BY <1>5, <1>6, <1>7, <1>8, <1>9, <1>11, OneTurn
       DEF Inv, StreamOK, Preserved, ProtocolStep, Protocol!Next

\* The client leaves turn t: its text is for the detached task, or there is none, or it
\* leaves while TXN B of the success path runs.
LEMMA LeaveKeeps ==
    ASSUME Inv, NEW t \in Turns,
           LeaveEarly(t) \/ LeaveStream(t) \/ LeavePersistError(t) \/ LeavePersist(t)
    PROVE  Preserved
  <1> USE DEF PreparePC, StreamPC, PersistPC
  <1>1. turn[t].pc \in StreamPC /\ Left(t) /\ title' = title /\ out' = out
    BY DEF LeaveEarly, LeaveStream, LeavePersistError, LeavePersist, At, dbVars
  <1>2. /\ turn'[t].pc = "ended" /\ turn'[t].left = turn[t].pc /\ Moved(t)
        /\ turn'[t].text = turn[t].text /\ turn'[t].cites = turn[t].cites
    BY <1>1, LeftMoves, TurnTypes DEF Inv, SameText
  <1>3. Saves(t)
    <2>1. UNCHANGED answer => Saves(t)
      BY DEF Saves
    <2>2. CASE LeaveEarly(t) \/ LeaveStream(t)
      BY <2>1, <2>2 DEF LeaveEarly, LeaveStream, dbVars
    <2>3. CASE LeavePersistError(t)
      BY <2>1, <2>3, StoreSaves DEF LeavePersistError, CutShort, Inv
    <2>4. CASE LeavePersist(t)
      BY <2>1, <2>4, StoreSaves DEF LeavePersist, CutShort, Inv
    <2>5. QED
      BY <2>2, <2>3, <2>4
  <1>4. /\ background' = background \/ background' = background \cup {t}
        /\ turn[t].pc \in {"stream", "persist_error"} => t \in background'
    BY DEF LeaveEarly, LeaveStream, LeavePersistError, LeavePersist, At
  <1>5. answer[t] = NoAnswer /\ StreamOK(t) /\ out[t] # <<>> /\ turn[t].left = "no"
    BY <1>1, TurnTypes DEF Inv, StreamInv, StreamOK, Opening
  <1>6. \A e : Count(t, e)' = Count(t, e)
    BY <1>1 DEF Count
  <1>7. Opening(t)' /\ Counted(t)' /\ Matches(t)'
    BY <1>2, <1>3, <1>5, <1>6 DEF StreamOK, Opening, Counted, Matches, Saves, Stored
  <1>8. DoneKept(t)'
    BY <1>1, <1>5, <1>6 DEF StreamOK, DoneKept, Ended, At
  <1>9. TextKept(t)'
    BY <1>1, <1>2, <1>4, <1>5 DEF StreamOK, Opening, TextKept, Kept
  <1>10. Alone(t)
    BY <1>1, <1>2, <1>3, <1>4 DEF Alone, Moved, Saves
  <1>11. Protocol!Leave({t})
    <2>1. StageOf(t) = "open" /\ StageOf(t)' = "left"
      BY <1>1, <1>2, <1>5 DEF StageOf, Ended, At
    <2>2. \A v \in Turns : v # t => StageOf(v)' = StageOf(v)
      BY <1>10 DEF Alone, StageOf, Ended, At
    <2>3. Stage' = [v \in Turns |-> IF v \in {t} THEN "left" ELSE Stage[v]] /\ Stage[t] = "open"
      BY <2>1, <2>2 DEF Stage, StageOf, Ended, At
    <2>4. QED
      BY <1>1, <2>3 DEF Protocol!Leave
  <1>12. QED
    BY <1>7, <1>8, <1>9, <1>10, <1>11, OneTurn
       DEF Inv, StreamOK, Preserved, ProtocolStep, Protocol!Next

\* The detached task of turn t.
LEMMA DetachedKeeps ==
    ASSUME Inv, NEW t \in Turns, BackgroundPersist(t)
    PROVE  Preserved
  <1> USE DEF PreparePC, StreamPC, PersistPC
  <1>1. /\ t \in background /\ background' = background \ {t} /\ turn[t].pc = "ended"
        /\ turn[t].left # "no" /\ title' = title /\ out' = out /\ StreamOK(t)
    BY DEF BackgroundPersist, Inv, LogInv, BackgroundEnded, BackgroundOwes, StreamInv
  <1>2. /\ UNCHANGED turn \/ turn' = [turn EXCEPT ![t].logged = TRUE]
        /\ turn'[t].pc = "ended" /\ turn'[t].left = turn[t].left
        /\ turn'[t].text = turn[t].text /\ turn'[t].cites = turn[t].cites
        /\ \A v \in Turns : v # t => turn'[v] = turn[v]
    <2>1. CASE UNCHANGED turn
      BY <1>1, <2>1
    <2>2. CASE turn' = [turn EXCEPT ![t].logged = TRUE]
      BY <1>1, <2>2, LoggedMoves DEF Inv, LogInv, SameText, Moved
    <2>3. QED
      BY <2>1, <2>2 DEF BackgroundPersist
  <1>3. Saves(t) /\ (turn[t].text > 0 => answer'[t] # NoAnswer \/ turn'[t].logged)
    <2>1. CASE turn[t].text = 0 /\ UNCHANGED answer
      BY <2>1 DEF Saves
    <2>2. CASE turn[t].text > 0 /\ Store(t, "partial", "ok")
      BY <2>2, StoreSaves DEF Inv
    <2>3. CASE StoreFails(t, "partial", "ok") /\ turn' = [turn EXCEPT ![t].logged = TRUE]
      <3>1. Saves(t)
        BY <2>3, StoreSaves DEF StoreFails, Saves, Inv
      <3>2. turn'[t].logged
        BY <1>1, <2>3, LoggedMoves DEF Inv, LogInv
      <3>3. QED
        BY <3>1, <3>2
    <2>4. QED
      BY <2>1, <2>2, <2>3 DEF BackgroundPersist
  <1>4. \A e : Count(t, e)' = Count(t, e)
    BY <1>1 DEF Count
  <1>5. Opening(t)' /\ Counted(t)' /\ DoneKept(t)'
    BY <1>1, <1>2, <1>4 DEF StreamOK, Opening, Counted, DoneKept
  <1>6. Matches(t)' /\ TextKept(t)'
    BY <1>1, <1>2, <1>3 DEF StreamOK, Matches, TextKept, Saves, Stored, Kept
  <1>7. Alone(t)
    BY <1>1, <1>2, <1>3 DEF Alone, Saves
  <1>8. \A v \in Turns : StageOf(v)' = StageOf(v)
    BY <1>1, <1>2, <1>7 DEF Alone, StageOf, Ended, At
  <1>9. QED
    BY <1>1, <1>5, <1>6, <1>7, <1>8, OneTurn, StageQuiet DEF Inv, StreamOK, Preserved

LEMMA RequestKeeps ==
    ASSUME Inv, NEW t \in Turns, RequestStep(t)
    PROVE  Preserved
  <1> USE DEF At
  <1>1. TypeInv /\ LogInv
    BY DEF Inv, LogInv
  <1>2. CASE Load(t)
    <2>1. Waits(t)
      BY <1>1, <1>2, LoadMoves DEF Load, Waits, dbVars, PreparePC
    <2>2. QED
      BY <2>1, WaitsKeeps
  <1>3. CASE LoadRejects(t) \/ InsertRejects(t) \/ PrepareFails(t)
    <2>1. turn[t].pc \in PreparePC /\ turn[t].pc # "idle"
      BY <1>3 DEF LoadRejects, InsertRejects, PrepareFails, PreparePC
    <2>2. PICK code \in Reply : Rejected(t, code)
      BY <1>3 DEF LoadRejects, InsertRejects, PrepareFails, Reply
    <2>3. UNCHANGED <<title, answer, out, background>>
      BY <1>3 DEF LoadRejects, InsertRejects, PrepareFails, dbVars
    <2>4. Waits(t)
      BY <1>1, <2>1, <2>2, <2>3, RejectedMoves DEF Waits
    <2>5. QED
      BY <2>4, WaitsKeeps
  <1>4. CASE Insert(t) \/ Serve(t) \/ RetrieveFails(t) \/ StreamEnds(t)
             \/ (Retrieve(t) /\ Goto(t, "stream") /\ UNCHANGED out)
    <2>1. UNCHANGED <<title, answer, out, background>>
      BY <1>4 DEF Insert, Serve, RetrieveFails, StreamEnds, Retrieve, dbVars
    <2>2. PICK pc \in PC \ {"idle"} :
            /\ Goto(t, pc)
            /\ \/ turn[t].pc \in PreparePC /\ pc \in PreparePC
               \/ turn[t].pc = "started" /\ pc \in {"retrieve", "stream"}
               \/ turn[t].pc = "retrieve" /\ pc \in {"stream", "persist_retrieval"}
               \/ turn[t].pc = "stream" /\ pc \in {"persist_success", "persist_error"}
      BY <1>4 DEF Insert, Serve, RetrieveFails, StreamEnds, Retrieve, PC, PreparePC, StreamPC,
                  PersistPC
    <2>3. turn[t].pc # "idle"
      BY <2>2 DEF PreparePC
    <2>4. Waits(t)
      BY <1>1, <2>1, <2>2, <2>3, GotoMoves DEF Waits
    <2>5. QED
      BY <2>4, WaitsKeeps
  <1>5. CASE Commit(t)
    BY <1>5, CommitKeeps
  <1>6. CASE Retrieve(t) /\ Yield(t, "citations")
               /\ turn' = [turn EXCEPT ![t].pc = "stream", ![t].cites = TRUE]
    <2>1. turn[t].pc = "retrieve" /\ UNCHANGED <<title, answer, background>>
      BY <1>6 DEF Retrieve, dbVars
    <2>2. Moved(t) /\ turn'[t].pc = "stream" /\ turn'[t].left = turn[t].left
          /\ turn'[t].text = turn[t].text /\ turn'[t].cites
      BY <1>1, <1>6, <2>1, CitesMoves
    <2>3. QED
      BY <1>6, <2>1, <2>2, StreamsKeeps
  <1>7. CASE TextDelta(t)
    <2>1. turn[t].pc = "stream" /\ Yield(t, "delta") /\ UNCHANGED <<title, answer, background>>
      BY <1>7 DEF TextDelta, dbVars
    <2>2. Moved(t) /\ turn'[t].pc = "stream" /\ turn'[t].left = turn[t].left
          /\ turn'[t].text = turn[t].text + 1 /\ turn'[t].cites = turn[t].cites
      BY <1>1, <1>7, TextMoves
    <2>3. QED
      BY <2>1, <2>2, StreamsKeeps
  <1>8. CASE PersistSuccess(t) \/ PersistError(t)
    <2>1. PICK kind \in {"full", "partial"}, log \in {"ok", "error"}, ev \in {"done", "error"} :
            /\ Store(t, kind, log) /\ Goto(t, "ended") /\ Yield(t, ev)
            /\ ev = "done" => kind = "full"
      BY <1>8 DEF PersistSuccess, PersistError
    <2>2. turn[t].pc \in PersistPC /\ UNCHANGED <<title, background>>
      BY <1>8 DEF PersistSuccess, PersistError, PersistPC, titleVars
    <2>3. turn[t].pc # "idle" /\ "ended" \in PC \ {"idle"}
      BY <2>2 DEF PersistPC, PC
    <2>4. Moved(t) /\ SameText(t) /\ turn'[t].pc = "ended" /\ turn'[t].left = turn[t].left
      BY <1>1, <2>1, <2>3, GotoMoves
    <2>5. /\ Saves(t) /\ (turn[t].text > 0 => answer'[t] # NoAnswer)
          /\ (ev = "done" => answer'[t].kind = "full")
      BY <1>1, <2>1, StoreSaves
    <2>6. QED
      BY <2>1, <2>2, <2>4, <2>5, FinishKeeps
  <1>9. CASE PersistSuccessFails(t) \/ PersistErrorFails(t)
    <2>1. PICK kind \in {"full", "partial"}, log \in {"ok", "error"} : StoreFails(t, kind, log)
      BY <1>9 DEF PersistSuccessFails, PersistErrorFails
    <2>2. /\ turn[t].pc \in PersistPC /\ turn[t].pc # "idle" /\ Yield(t, "error")
          /\ turn' = [turn EXCEPT ![t].pc = "ended", ![t].logged = TRUE]
          /\ UNCHANGED <<title, background>>
      BY <1>9 DEF PersistSuccessFails, PersistErrorFails, PersistPC, titleVars
    <2>3. /\ Moved(t) /\ SameText(t) /\ turn'[t].pc = "ended" /\ turn'[t].left = turn[t].left
          /\ turn'[t].logged
      BY <1>1, <2>2, LoggedEnds
    <2>4. Saves(t)
      BY <1>1, <2>1, StoreSaves DEF StoreFails, Saves
    <2>5. QED
      BY <2>2, <2>3, <2>4, FinishKeeps
  <1>10. QED
    BY <1>2, <1>3, <1>4, <1>5, <1>6, <1>7, <1>8, <1>9 DEF RequestStep, Retrieve

-----------------------------------------------------------------------------
\* The other steps

LEMMA RetitleKeeps ==
    ASSUME Inv, Retitles, out' = out
    PROVE  Preserved
  <1>1. UNCHANGED <<answer, turn, background>>
    BY DEF Retitles
  <1>2. ASSUME NEW t \in Turns
        PROVE  StreamOK(t)' /\ StageOf(t)' = StageOf(t)
    <2>1. \A e : Count(t, e)' = Count(t, e)
      BY DEF Count
    <2>2. Ended(t) /\ ~Exists(turn[t].conv) => ~Exists(turn[t].conv)'
      BY DEF Retitles, Inv, LogInv, ConvKnown, TypeInv, Ended, At
    <2>3. StreamOK(t)
      BY DEF Inv, StreamInv
    <2>4. (Opening(t) /\ Counted(t) /\ Matches(t))'
      BY <1>1, <2>1, <2>3 DEF StreamOK, Opening, Counted, Matches, Stored
    <2>5. (DoneKept(t) /\ TextKept(t))'
      BY <1>1, <2>1, <2>2, <2>3 DEF StreamOK, DoneKept, TextKept, Kept, Stored, Ended, At
    <2>6. QED
      BY <1>1, <2>4, <2>5 DEF StreamOK, StageOf, Ended, At
  <1>3. QED
    BY <1>2, StageQuiet DEF StreamInv, Preserved

LEMMA DeleteKeeps ==
    ASSUME Inv, NEW c \in Convs, Delete(c)
    PROVE  Preserved
  <1>1. /\ title' = [title EXCEPT ![c] = "deleted"]
        /\ answer' = [t \in Turns |-> IF t \in In(c) THEN NoAnswer ELSE answer[t]]
        /\ UNCHANGED <<turn, out, background>>
    BY DEF Delete
  <1>2. title \in [Convs -> Titles]
    BY DEF Inv, LogInv, TypeInv, TypeOK
  <1>3. ASSUME NEW t \in Turns
        PROVE  StreamOK(t)' /\ StageOf(t)' = StageOf(t)
    <2>1. \A e : Count(t, e)' = Count(t, e)
      BY <1>1 DEF Count
    <2>2. StreamOK(t)
      BY DEF Inv, StreamInv
    <2>3. IF t \in In(c) THEN answer'[t] = NoAnswer /\ turn[t].conv = c
                         ELSE answer'[t] = answer[t] /\ turn[t].conv # c
      BY <1>1 DEF In
    <2>4. (Opening(t) /\ Counted(t) /\ Matches(t))'
      BY <1>1, <2>1, <2>2, <2>3 DEF StreamOK, Opening, Counted, Matches, Stored
    <2>5. Ended(t) => IF t \in In(c) THEN ~Exists(turn[t].conv)'
                                     ELSE Exists(turn[t].conv)' = Exists(turn[t].conv)
      <3>1. Ended(t) => turn[t].conv \in Convs
        BY DEF Inv, LogInv, TypeInv, Ended, At
      <3>2. QED
        BY <1>1, <1>2, <2>3, <3>1 DEF Exists
    <2>6. (DoneKept(t) /\ TextKept(t))'
      BY <1>1, <2>1, <2>2, <2>3, <2>5
         DEF StreamOK, DoneKept, TextKept, Kept, Stored, Ended, At
    <2>7. QED
      BY <1>1, <2>4, <2>6 DEF StreamOK, StageOf, Ended, At
  <1>4. QED
    BY <1>1, <1>3, StageQuiet DEF StreamInv, Preserved

LEMMA StopKeeps ==
    ASSUME Inv, ProcessStop
    PROVE  Preserved
  <1> USE DEF PreparePC, StreamPC, PersistPC
  <1>1. out' = out /\ answer' = answer /\ title' = title /\ background' = {}
    BY DEF ProcessStop, dbVars
  <1>2. ASSUME NEW t \in Turns
        PROVE  /\ turn'[t].conv = turn[t].conv
               /\ turn'[t].text = turn[t].text /\ turn'[t].cites = turn[t].cites
               /\ IF turn[t].pc \in StreamPC
                  THEN turn'[t].pc = "ended" /\ turn'[t].left = "stop"
                  ELSE IF turn[t].pc \in PreparePC
                  THEN turn'[t].pc = "ended" /\ turn'[t].left = turn[t].left
                  ELSE IF t \in background
                  THEN turn'[t].pc = "ended" /\ turn'[t].left = "stop" /\ turn[t].pc = "ended"
                  ELSE turn'[t] = turn[t]
    <2>1. turn[t] \in TurnRecord
      BY TurnTypes DEF Inv
    <2>2. turn'[t] = IF turn[t].pc \in StreamPC
                     THEN [turn[t] EXCEPT !.pc = "ended", !.left = "stop"]
                     ELSE IF turn[t].pc \in PreparePC
                     THEN [turn[t] EXCEPT !.pc = "ended", !.reply = "failed"]
                     ELSE IF t \in background THEN [turn[t] EXCEPT !.left = "stop"]
                     ELSE turn[t]
      BY DEF ProcessStop
    <2>3. t \in background => turn[t].pc = "ended"
      BY DEF Inv, LogInv, BackgroundEnded
    <2>4. CASE turn[t].pc \in StreamPC
      BY <2>1, <2>2, <2>4 DEF TurnRecord
    <2>5. CASE turn[t].pc \in PreparePC
      BY <2>1, <2>2, <2>5 DEF TurnRecord
    <2>6. CASE turn[t].pc \notin PreparePC \cup StreamPC
      BY <2>1, <2>2, <2>3, <2>6 DEF TurnRecord
    <2>7. QED
      BY <2>4, <2>5, <2>6
  <1>3. ASSUME NEW t \in Turns
        PROVE  /\ StreamOK(t)'
               /\ StageOf(t)' = IF turn[t].pc \in StreamPC THEN "left" ELSE StageOf(t)
               /\ turn[t].pc \in StreamPC => StageOf(t) = "open"
    <2>1. \A e : Count(t, e)' = Count(t, e)
      BY <1>1 DEF Count
    <2>2. StreamOK(t) /\ (t \in background => turn[t].left # "no")
      BY DEF Inv, StreamInv, LogInv, BackgroundOwes
    <2>3. turn[t].pc \in {"idle", "ended"} \cup PreparePC \cup StreamPC
      BY TurnTypes DEF Inv, TurnRecord, PC
    <2>4. Opening(t)' /\ Counted(t)' /\ Matches(t)'
      BY <1>1, <1>2, <2>1, <2>2, <2>3 DEF StreamOK, Opening, Counted, Matches, Stored
    <2>5. DoneKept(t)'
      BY <1>1, <1>2, <2>1, <2>2, <2>3 DEF StreamOK, DoneKept, Ended, At, Exists
    <2>6. TextKept(t)'
      BY <1>1, <1>2, <2>2, <2>3 DEF StreamOK, Opening, TextKept, Kept, Stored, Ended, At, Exists
    <2>7. /\ StageOf(t)' = IF turn[t].pc \in StreamPC THEN "left" ELSE StageOf(t)
          /\ turn[t].pc \in StreamPC => StageOf(t) = "open"
      BY <1>1, <1>2, <2>2, <2>3 DEF StreamOK, Opening, StageOf, Ended, At
    <2>8. QED
      BY <2>4, <2>5, <2>6, <2>7 DEF StreamOK
  <1>4. ProtocolStep
    <2> DEFINE S == {t \in Turns : turn[t].pc \in StreamPC}
    <2>1. CASE S = {}
      BY <1>1, <1>3, <2>1, StageQuiet
    <2>2. CASE S # {}
      <3>1. \A t \in S : Stage[t] = "open"
        BY <1>3 DEF Stage, StageOf
      <3>2. Stage' = [t \in Turns |-> IF t \in S THEN "left" ELSE Stage[t]]
        BY <1>3 DEF Stage, StageOf, Ended, At
      <3>3. Protocol!Leave(S)
        BY <1>1, <2>2, <3>1, <3>2 DEF Protocol!Leave
      <3>4. S \in SUBSET Turns
        OBVIOUS
      <3>5. QED
        BY <3>3, <3>4 DEF ProtocolStep, Protocol!Next
    <2>3. QED
      BY <2>1, <2>2
  <1>5. QED
    BY <1>3, <1>4 DEF StreamInv, Preserved

LEMMA StreamStep == Inv /\ [Next]_vars => Preserved
  <1> SUFFICES ASSUME Inv, [Next]_vars
               PROVE  Preserved
    OBVIOUS
  <1>1. ASSUME NEW c \in Convs, ConversationStep(c) \/ TitleStep(c)
        PROVE  Preserved
    <2>1. out' = out /\ (Retitles \/ Delete(c))
      BY <1>1, TitleClass DEF Inv, LogInv, ConversationStep, Create, Rename, Delete, TitleStep,
                              TitleRead, TitleWrite, dbVars
    <2>2. QED
      BY <2>1, RetitleKeeps, DeleteKeeps
  <1>2. ASSUME NEW t \in Turns, ClientStep(t) \/ RequestStep(t) \/ BackgroundPersist(t)
        PROVE  Preserved
    BY <1>2, SendKeeps, LeaveKeeps, RequestKeeps, DetachedKeeps DEF ClientStep
  <1>3. CASE UNCHANGED vars
    <2>1. Retitles /\ out' = out
      BY <1>3 DEF vars, Retitles, Exists
    <2>2. QED
      BY <2>1, RetitleKeeps
  <1>4. QED
    BY <1>1, <1>2, <1>3, StopKeeps DEF Next

LEMMA StreamInit == Init => StreamInv /\ Protocol!Init
  <1> SUFFICES ASSUME Init
               PROVE  StreamInv /\ Protocol!Init
    OBVIOUS
  <1>1. ASSUME NEW t \in Turns
        PROVE  StreamOK(t) /\ StageOf(t) = "new" /\ out[t] = <<>>
    <2>1. /\ turn[t] = IdleTurn /\ out[t] = <<>> /\ answer[t] = NoAnswer
      BY DEF Init
    <2>2. /\ turn[t].pc = "idle" /\ turn[t].left = "no" /\ turn[t].text = 0
          /\ turn[t].cites = FALSE
      BY <2>1 DEF IdleTurn
    <2>3. \A e : Count(t, e) = 0
      BY <2>1, CountEmpty
    <2>4. Opening(t) /\ Counted(t)
      BY <2>1, <2>2, <2>3 DEF Opening, Counted, StreamPC, PersistPC
    <2>5. Matches(t) /\ DoneKept(t) /\ TextKept(t)
      BY <2>1, <2>2, <2>3 DEF Matches, DoneKept, TextKept, Stored, Ended, At
    <2>6. QED
      BY <2>1, <2>4, <2>5 DEF StreamOK, StageOf
  <1>2. Protocol!Init
    BY <1>1 DEF Protocol!Init, Stage, StageOf, Init
  <1>3. QED
    BY <1>1, <1>2 DEF StreamInv

LEMMA StreamHolds == Spec => []Inv
  <1>1. Init => Inv
    BY LogInit, StreamInit DEF Inv
  <1>2. Inv /\ [Next]_vars => Inv'
    BY LogStep, StreamStep DEF Inv, Preserved
  <1>3. QED
    BY <1>1, <1>2, PTL DEF Spec

-----------------------------------------------------------------------------
\* chat_orchestrator.py: the stored answer is the text of the deltas, and it has citations
\* exactly if the one citations event was sent, however the turn ended.
THEOREM StoredAsSent == Spec => []StoredIsWhatWasSent
  <1>1. ASSUME Inv
        PROVE  StoredIsWhatWasSent
    <2> SUFFICES ASSUME NEW t \in Turns, Stored(t)
                 PROVE  /\ answer[t].text = Count(t, "delta")
                        /\ answer[t].cites = (Count(t, "citations") = 1)
      BY DEF StoredIsWhatWasSent
    <2>1. /\ answer[t].text = turn[t].text /\ answer[t].cites = turn[t].cites
          /\ Count(t, "delta") = turn[t].text
          /\ Count(t, "citations") = IF turn[t].cites THEN 1 ELSE 0
      BY <1>1 DEF Inv, StreamInv, StreamOK, Matches, Counted
    <2>2. turn[t].cites \in BOOLEAN
      BY <1>1, TurnTypes DEF Inv
    <2>3. QED
      BY <2>1, <2>2
  <1>2. QED
    BY <1>1, StreamHolds, PTL

\* chat_orchestrator.py: done is sent only for a complete answer that is in the database,
\* and it stays there until the conversation is deleted.
THEOREM DoneIsStored == Spec => []DoneMeansStored
  <1>1. ASSUME Inv
        PROVE  DoneMeansStored
    BY <1>1 DEF Inv, StreamInv, StreamOK, DoneKept, DoneMeansStored
  <1>2. QED
    BY <1>1, StreamHolds, PTL

\* _persist_error and the detached _persist_cancelled: however a turn ends but by a stop of
\* the process or a client that leaves during TXN B, text that was streamed is stored,
\* about to be, or the failure was logged.
THEOREM NothingLost == Spec => []NothingLostSilently
  <1>1. ASSUME Inv
        PROVE  NothingLostSilently
    BY <1>1 DEF Inv, StreamInv, StreamOK, TextKept, NothingLostSilently
  <1>2. QED
    BY <1>1, StreamHolds, PTL

\* The events of every turn are a run of TurnProtocol: message_start, at most one citations
\* event and that before the deltas, and nothing after done or error.
THEOREM FollowsProtocol == Spec => Protocol!Spec
  <1>1. Inv /\ [Next]_vars => [Protocol!Next]_(Protocol!vars)
    BY StreamStep DEF Preserved, ProtocolStep
  <1>2. QED
    BY <1>1, StreamHolds, StreamInit, PTL DEF Spec, Protocol!Spec
===============================================================================
