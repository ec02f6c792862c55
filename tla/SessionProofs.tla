----------------------------- MODULE SessionProofs -----------------------------
(***************************************************************************)
(* Proofs about Session, for every set of tabs and calls, and any number   *)
(* of logins, expired access tokens and broken connections.                *)
(*                                                                         *)
(* The steps are first put into classes: what they do to the requests in   *)
(* flight and to the token rows.  Each invariant is then shown class by    *)
(* class.                                                                  *)
(***************************************************************************)
EXTENDS Session, SequenceTheorems, TLAPS

(***************************************************************************)
(* The requests in flight                                                  *)
(***************************************************************************)

\* What the steps of a handler have established about its request.
RequestOK(q) ==
    /\ q.token <= Len(rows) /\ q.issued <= Len(rows)
    /\ q.at = "answered" => q.heard
    /\ q.at # "answered" => q.issued = 0
    /\ q.at \in {"rotate", "revoke"} => q.token # 0
    /\ q.at = "rotate" => q.kind = "refresh"
    /\ q.at = "revoke" => q.kind \in {"refresh", "logout"}
    /\ q.issued # 0 => q.kind # "logout"
    /\ q.issued # 0 /\ q.kind = "refresh" =>
           q.token # 0 /\ rows[q.issued].family = FamilyOf(q)

TypeInv == TypeOK /\ \A q \in net : RequestOK(q)

\* No row goes or changes its family.
RowsGrow ==
    /\ rows' \in Seq(Row) /\ Len(rows') >= Len(rows)
    /\ \A r \in 1 .. Len(rows) : rows'[r].family = rows[r].family

PastType == past' \in [ended : SUBSET Families, raced : SUBSET Families,
                       replayed : SUBSET Families, lost : SUBSET Families]

\* A request is sent.
Sends(q) ==
    /\ q \in Request /\ q.token = cookie /\ q.nr = breaks
    /\ q.heard /\ q.at = "sent" /\ q.issued = 0
    /\ \A p \in net : p.kind = q.kind /\ p.from = q.from => ~p.heard
    /\ net' = net \cup {q}
    /\ UNCHANGED <<rows, cookie, past, breaks>>

\* A handler takes request q on to r, and drops it if it is answered and nobody waits.
Handles(q, r) ==
    /\ q.at # "answered" /\ r \in Request
    /\ r.kind = q.kind /\ r.from = q.from /\ r.nr = q.nr
    /\ r.heard = q.heard /\ r.token = q.token
    /\ net' = (net \ {q}) \cup {x \in {r} : x.heard \/ x.at # "answered"}
    /\ UNCHANGED <<lapsed, cookie, tab, call, breaks>>

\* What its row says decides how a refresh or logout ends.
Decides(q, r) ==
    /\ Handles(q, r)
    /\ q.at = "sent" /\ q.token # 0 /\ r.issued = 0
    /\ \/ r.at = "rotate" /\ q.kind = "refresh" /\ rows[q.token].revoked = "no"
       \/ r.at = "revoke" /\ q.kind = "refresh" /\ rows[q.token].revoked = "yes"
       \/ r.at = "revoke" /\ q.kind = "logout"
    /\ UNCHANGED <<rows, past>>

\* It is answered without a token, and nothing is written.
Refuses(q, r) ==
    /\ Handles(q, r)
    /\ r.at = "answered" /\ r.issued = 0
    /\ UNCHANGED <<rows, past>>

\* A token of family f is issued.
Issues(q, r, f) ==
    /\ Handles(q, r)
    /\ f \in Families
    /\ r.at = "answered" /\ r.issued = Len(rows) + 1
    /\ Len(rows') = Len(rows) + 1
    /\ rows'[Len(rows) + 1] = [family |-> f, revoked |-> "no"]
    /\ past' = IF ~q.heard THEN [past EXCEPT !.lost = @ \cup {f}] ELSE past

LogsIn(q, r, f) ==
    /\ Issues(q, r, f) /\ q.kind = "login" /\ f \notin FamiliesUsed
    /\ \A n \in 1 .. Len(rows) : rows'[n] = rows[n]

Rotates(q, r) ==
    /\ q.at = "rotate" /\ Issues(q, r, FamilyOf(q))
    /\ \A n \in 1 .. Len(rows) :
         rows'[n] = IF n = q.token THEN [rows[n] EXCEPT !.revoked = "grace"] ELSE rows[n]

\* The family of the token is revoked, after a logout or as replayed.
Revokes(q, r) ==
    /\ Handles(q, r)
    /\ q.at = "revoke" /\ r.at = "answered" /\ r.issued = 0
    /\ Len(rows') = Len(rows)
    /\ \A n \in 1 .. Len(rows) :
         rows'[n] = IF rows[n].family = FamilyOf(q) /\ rows[n].revoked = "no"
                    THEN [rows[n] EXCEPT !.revoked = "yes"] ELSE rows[n]
    /\ past'.lost = past.lost /\ past.raced \subseteq past'.raced
    /\ \/ /\ q.kind = "refresh"
          /\ past'.replayed = past.replayed \cup {FamilyOf(q)} /\ past'.ended = past.ended
       \/ /\ q.kind = "logout"
          /\ past'.ended = past.ended \cup {FamilyOf(q)} /\ past'.replayed = past.replayed
          /\ (\E p \in net : p.at = "rotate" /\ FamilyOf(p) = FamilyOf(q))
                 => FamilyOf(q) \in past'.raced

\* Requests are given up, or are gone with their answers.
Drops ==
    /\ \A r \in net' : \/ r \in net
                       \/ \E q \in net \ net' : q.heard /\ q.at # "answered"
                                         /\ r = [q EXCEPT !.heard = FALSE]
    /\ past'.lost \subseteq past.lost \cup Families /\ past.lost \subseteq past'.lost
    /\ \A q \in net \ net' : q.issued # 0 => rows[q.issued].family \in past'.lost
    /\ past'.ended = past.ended /\ past'.raced = past.raced
    /\ past'.replayed = past.replayed
    /\ breaks' = breaks + 1
    /\ UNCHANGED <<rows, cookie>>

\* An answer arrives.
Arrives(q) ==
    /\ q \in net /\ q.at = "answered"
    /\ net' = net \ {q}
    /\ cookie' \in {cookie, 0, q.issued} /\ (q.issued # 0 => cookie' = q.issued)
    /\ UNCHANGED <<rows, past, breaks>>

\* Neither a request nor a token is touched.
Local == UNCHANGED <<rows, cookie, net, past, breaks>>

-----------------------------------------------------------------------------
\* The rows

LEMMA RowsType ==
    ASSUME TypeInv
    PROVE  /\ rows \in Seq(Row) /\ Len(rows) \in Nat
           /\ DOMAIN rows = 1 .. Len(rows)
           /\ \A n \in 1 .. Len(rows) : rows[n] \in Row
           /\ cookie \in 0 .. Len(rows)
           /\ \A q \in net : q \in Request
           /\ past \in [ended : SUBSET Families, raced : SUBSET Families,
                       replayed : SUBSET Families, lost : SUBSET Families]
  BY DEF TypeInv, TypeOK

LEMMA AppendRow ==
    ASSUME TypeInv, NEW s \in Seq(Row), Len(s) = Len(rows), NEW r \in Row, rows' = Append(s, r)
    PROVE  /\ rows' \in Seq(Row) /\ Len(rows') = Len(rows) + 1
           /\ rows'[Len(rows) + 1] = r
           /\ \A n \in 1 .. Len(rows) : rows'[n] = s[n]
  BY AppendProperties, RowsType

LEMMA RevokeRows ==
    ASSUME TypeInv, NEW f, RevokeFamily(f)
    PROVE  /\ rows' \in Seq(Row) /\ Len(rows') = Len(rows)
           /\ \A n \in 1 .. Len(rows) :
                rows'[n] = IF rows[n].family = f /\ rows[n].revoked = "no"
                           THEN [rows[n] EXCEPT !.revoked = "yes"] ELSE rows[n]
  <1> DEFINE new(n) == IF rows[n].family = f /\ rows[n].revoked = "no"
                       THEN [rows[n] EXCEPT !.revoked = "yes"] ELSE rows[n]
  <1>1. \A n \in 1 .. Len(rows) : new(n) \in Row
    BY RowsType DEF Row
  <1>2. rows' = [n \in 1 .. Len(rows) |-> new(n)]
    BY RowsType DEF RevokeFamily
  <1> HIDE DEF new
  <1>3. rows' \in Seq(Row) /\ Len(rows') = Len(rows)
    BY <1>1, <1>2, RowsType, IsASeq
  <1>4. QED
    BY <1>2, <1>3 DEF new

LEMMA MarkRow ==
    ASSUME TypeInv, NEW n \in 1 .. Len(rows), NEW v \in {"no", "grace", "yes"}
    PROVE  LET s == [rows EXCEPT ![n].revoked = v]
           IN  /\ s \in Seq(Row) /\ Len(s) = Len(rows)
               /\ \A m \in 1 .. Len(rows) :
                    s[m] = IF m = n THEN [rows[m] EXCEPT !.revoked = v] ELSE rows[m]
  <1> DEFINE s == [rows EXCEPT ![n].revoked = v]
  <1>1. [rows[n] EXCEPT !.revoked = v] \in Row
    BY RowsType DEF Row
  <1>2. s = [rows EXCEPT ![n] = [rows[n] EXCEPT !.revoked = v]]
    BY RowsType
  <1>3. s \in Seq(Row) /\ Len(s) = Len(rows)
    BY <1>1, <1>2, RowsType, ExceptSeq
  <1>4. QED
    BY <1>2, <1>3, RowsType

-----------------------------------------------------------------------------
\* What the server's steps do

\* A request is answered, its answer lost when nobody waits.
LEMMA AnsweredHandles ==
    ASSUME TypeInv, NEW q \in net, q.at # "answered", NEW i \in Nat,
           Answered(q, i), UNCHANGED <<lapsed, cookie, tab, call, breaks>>
    PROVE  \E r : /\ Handles(q, r) /\ r.at = "answered" /\ r.issued = i
  <1> DEFINE r == [q EXCEPT !.at = "answered", !.issued = i]
  <1>1. q \in Request
    BY RowsType
  <1>2. /\ r \in Request /\ r.kind = q.kind /\ r.from = q.from /\ r.nr = q.nr
        /\ r.heard = q.heard /\ r.token = q.token /\ r.at = "answered" /\ r.issued = i
    BY <1>1 DEF Request
  <1>3. net' = (net \ {q}) \cup {x \in {r} : q.heard}
    BY DEF Answered
  <1> HIDE DEF r
  <1>4. net' = (net \ {q}) \cup {x \in {r} : x.heard \/ x.at # "answered"}
    BY <1>2, <1>3
  <1>5. QED
    BY <1>2, <1>4 DEF Handles

LEMMA ReplacedHandles ==
    ASSUME TypeInv, NEW q \in net, q.at # "answered", NEW at \in {"rotate", "revoke"},
           Replace(q, [q EXCEPT !.at = at]), UNCHANGED <<lapsed, cookie, tab, call, breaks>>
    PROVE  \E r : Handles(q, r) /\ r.at = at /\ r.issued = 0
  <1> DEFINE r == [q EXCEPT !.at = at]
  <1>1. q \in Request /\ q.issued = 0
    BY RowsType DEF TypeInv, RequestOK
  <1>2. /\ r \in Request /\ r.kind = q.kind /\ r.from = q.from /\ r.nr = q.nr
        /\ r.heard = q.heard /\ r.token = q.token /\ r.at = at /\ r.issued = 0
    BY <1>1 DEF Request
  <1>3. net' = (net \ {q}) \cup {r}
    BY DEF Replace
  <1> HIDE DEF r
  <1>4. net' = (net \ {q}) \cup {x \in {r} : x.heard \/ x.at # "answered"}
    BY <1>2, <1>3
  <1>5. QED
    BY <1>2, <1>4 DEF Handles

LEMMA RefreshReadClass ==
    ASSUME TypeInv, NEW q \in net, RefreshRead(q)
    PROVE  \E r : Decides(q, r) \/ Refuses(q, r)
  <1>1. /\ q \in Request /\ q.kind = "refresh" /\ q.at = "sent"
        /\ UNCHANGED <<rows, past>> /\ UNCHANGED <<lapsed, cookie, tab, call, breaks>>
    BY RowsType DEF RefreshRead
  <1>2. CASE q.token = 0 \/ rows[q.token].revoked = "grace"
    <2>1. Answered(q, 0)
      BY <1>2 DEF RefreshRead
    <2>2. QED
      BY <1>1, <2>1, AnsweredHandles DEF Refuses
  <1>3. CASE ~(q.token = 0 \/ rows[q.token].revoked = "grace")
    <2> DEFINE at == IF rows[q.token].revoked = "no" THEN "rotate" ELSE "revoke"
    <2>1. Replace(q, [q EXCEPT !.at = at])
      BY <1>3 DEF RefreshRead
    <2>2. q.token \in 1 .. Len(rows) /\ rows[q.token] \in Row
      BY <1>1, <1>3, RowsType DEF TypeInv, RequestOK, Request
    <2>3. /\ at \in {"rotate", "revoke"}
          /\ at = "rotate" => rows[q.token].revoked = "no"
          /\ at = "revoke" => rows[q.token].revoked = "yes"
      BY <1>3, <2>2 DEF Row
    <2> HIDE DEF at
    <2>4. PICK r : Handles(q, r) /\ r.at = at /\ r.issued = 0
      BY <1>1, <2>1, <2>3, ReplacedHandles
    <2>5. QED
      BY <1>1, <1>3, <2>3, <2>4 DEF Decides
  <1>4. QED
    BY <1>2, <1>3

LEMMA LogoutReadClass ==
    ASSUME TypeInv, NEW q \in net, LogoutRead(q)
    PROVE  \E r : Decides(q, r) \/ Refuses(q, r)
  <1>1. /\ q \in Request /\ q.kind = "logout" /\ q.at = "sent"
        /\ UNCHANGED <<rows, past>> /\ UNCHANGED <<lapsed, cookie, tab, call, breaks>>
    BY RowsType DEF LogoutRead
  <1>2. CASE q.token = 0
    <2>1. Answered(q, 0)
      BY <1>2 DEF LogoutRead
    <2>2. QED
      BY <1>1, <2>1, AnsweredHandles DEF Refuses
  <1>3. CASE q.token # 0
    <2>1. Replace(q, [q EXCEPT !.at = "revoke"])
      BY <1>3 DEF LogoutRead
    <2>2. PICK r : Handles(q, r) /\ r.at = "revoke" /\ r.issued = 0
      BY <1>1, <2>1, ReplacedHandles
    <2>3. QED
      BY <1>1, <1>3, <2>2 DEF Decides
  <1>4. QED
    BY <1>2, <1>3

LEMMA LoginClass ==
    ASSUME TypeInv, NEW q \in net, Login(q)
    PROVE  RowsGrow /\ PastType /\ \E r, f : LogsIn(q, r, f)
  <1>1. /\ q \in Request /\ q.kind = "login" /\ q.at = "sent"
        /\ UNCHANGED <<lapsed, cookie, tab, call, breaks>>
    BY RowsType DEF Login
  <1>2. PICK f \in Families \ FamiliesUsed :
          /\ rows' = Append(rows, [family |-> f, revoked |-> "no"])
          /\ past' = IF ~q.heard THEN [past EXCEPT !.lost = @ \cup {f}] ELSE past
    BY DEF Login
  <1>3. [family |-> f, revoked |-> "no"] \in Row
    BY DEF Row
  <1>4. /\ rows' \in Seq(Row) /\ Len(rows') = Len(rows) + 1
        /\ rows'[Len(rows) + 1] = [family |-> f, revoked |-> "no"]
        /\ \A n \in 1 .. Len(rows) : rows'[n] = rows[n]
    BY <1>2, <1>3, AppendRow, RowsType
  <1>5. Answered(q, Len(rows) + 1) /\ Len(rows) + 1 \in Nat
    BY <1>4, RowsType DEF Login
  <1>6. PICK r : Handles(q, r) /\ r.at = "answered" /\ r.issued = Len(rows) + 1
    BY <1>1, <1>5, AnsweredHandles
  <1>7. RowsGrow
    BY <1>4, RowsType DEF RowsGrow
  <1>8. LogsIn(q, r, f)
    BY <1>1, <1>2, <1>4, <1>6 DEF LogsIn, Issues
  <1>9. PastType
    BY <1>2, RowsType DEF PastType
  <1>10. QED
    BY <1>7, <1>8, <1>9

LEMMA RotateClass ==
    ASSUME TypeInv, NEW q \in net, RefreshRotate(q)
    PROVE  RowsGrow /\ PastType /\ \E r : Rotates(q, r)
  <1>1. /\ q \in Request /\ q.at = "rotate" /\ q.token \in 1 .. Len(rows)
        /\ UNCHANGED <<lapsed, cookie, tab, call, breaks>>
    BY RowsType DEF RefreshRotate, TypeInv, RequestOK, Request
  <1> DEFINE marked == [rows EXCEPT ![q.token].revoked = "grace"]
             new    == [family |-> FamilyOf(q), revoked |-> "no"]
  <1>2. new \in Row /\ FamilyOf(q) \in Families
    BY <1>1, RowsType DEF Row, FamilyOf
  <1>3. /\ marked \in Seq(Row) /\ Len(marked) = Len(rows)
        /\ \A m \in 1 .. Len(rows) :
             marked[m] = IF m = q.token THEN [rows[m] EXCEPT !.revoked = "grace"] ELSE rows[m]
    BY <1>1, MarkRow
  <1>4. rows' = Append(marked, new)
    BY DEF RefreshRotate
  <1>5. Answered(q, Len(rows) + 1) /\ Len(rows) + 1 \in Nat
    BY RowsType DEF RefreshRotate
  <1>6. past' = IF ~q.heard THEN [past EXCEPT !.lost = @ \cup {FamilyOf(q)}] ELSE past
    BY DEF RefreshRotate
  <1> HIDE DEF marked
  <1>7. /\ rows' \in Seq(Row) /\ Len(rows') = Len(rows) + 1
        /\ rows'[Len(rows) + 1] = new
        /\ \A n \in 1 .. Len(rows) : rows'[n] = marked[n]
    BY <1>2, <1>3, <1>4, AppendRow
  <1>8. \A n \in 1 .. Len(rows) : rows'[n].family = rows[n].family
    <2> SUFFICES ASSUME NEW n \in 1 .. Len(rows)
                 PROVE  rows'[n].family = rows[n].family
      OBVIOUS
    <2>1. rows[n] \in Row
      BY RowsType
    <2>2. [rows[n] EXCEPT !.revoked = "grace"].family = rows[n].family
      BY <2>1 DEF Row
    <2>3. QED
      BY <1>3, <1>7, <2>2
  <1>9. PICK r : Handles(q, r) /\ r.at = "answered" /\ r.issued = Len(rows) + 1
    BY <1>1, <1>5, AnsweredHandles
  <1>10. Rotates(q, r)
    BY <1>1, <1>2, <1>3, <1>6, <1>7, <1>9 DEF Rotates, Issues
  <1>11. PastType
    BY <1>2, <1>6, RowsType DEF PastType
  <1>12. QED
    BY <1>7, <1>8, <1>10, <1>11, RowsType DEF RowsGrow

LEMMA RevokeGrows ==
    ASSUME TypeInv, NEW f, RevokeFamily(f)
    PROVE  RowsGrow
  <1>1. ASSUME NEW n \in 1 .. Len(rows)
        PROVE  rows'[n].family = rows[n].family
    <2>1. rows[n] \in Row
      BY RowsType
    <2>2. [rows[n] EXCEPT !.revoked = "yes"].family = rows[n].family
      BY <2>1 DEF Row
    <2>3. QED
      BY <2>2, RevokeRows
  <1>2. QED
    BY <1>1, RevokeRows, RowsType DEF RowsGrow

LEMMA RevokeClass ==
    ASSUME TypeInv, NEW q \in net, RefreshReplayed(q) \/ LogoutRevoke(q)
    PROVE  RowsGrow /\ PastType /\ \E r : Revokes(q, r)
  <1>1. /\ q \in Request /\ q.at = "revoke"
        /\ RevokeFamily(FamilyOf(q)) /\ Answered(q, 0)
        /\ UNCHANGED <<lapsed, cookie, tab, call, breaks>>
    BY RowsType DEF RefreshReplayed, LogoutRevoke
  <1>2. PICK r : Handles(q, r) /\ r.at = "answered" /\ r.issued = 0
    BY <1>1, AnsweredHandles
  <1>3. FamilyOf(q) \in Families
    BY <1>1, RowsType DEF FamilyOf, Row, TypeInv, RequestOK, Request
  <1>4. CASE RefreshReplayed(q)
    <2>1. q.kind = "refresh" /\ past' = [past EXCEPT !.replayed = @ \cup {FamilyOf(q)}]
      BY <1>4 DEF RefreshReplayed
    <2>2. /\ past'.lost = past.lost /\ past'.ended = past.ended /\ past'.raced = past.raced
          /\ past'.replayed = past.replayed \cup {FamilyOf(q)} /\ PastType
      BY <1>3, <2>1, RowsType DEF PastType
    <2>3. QED
      BY <1>1, <1>2, <2>1, <2>2, RevokeRows, RevokeGrows DEF Revokes
  <1>5. CASE LogoutRevoke(q)
    <2> DEFINE raced == {f \in {FamilyOf(q)} : \E p \in net : p.at = "rotate" /\ FamilyOf(p) = f}
    <2>1. /\ q.kind = "logout"
          /\ past' = [past EXCEPT !.ended = @ \cup {FamilyOf(q)}, !.raced = @ \cup raced]
      BY <1>5 DEF LogoutRevoke
    <2>2. /\ past'.lost = past.lost /\ past'.replayed = past.replayed
          /\ past'.ended = past.ended \cup {FamilyOf(q)}
          /\ past'.raced = past.raced \cup raced /\ PastType
      <3>1. raced \subseteq Families
        BY <1>3
      <3> HIDE DEF raced
      <3>2. QED
        BY <1>3, <2>1, <3>1, RowsType DEF PastType
    <2>3. (\E p \in net : p.at = "rotate" /\ FamilyOf(p) = FamilyOf(q))
              => FamilyOf(q) \in past'.raced
      BY <2>2
    <2>4. QED
      BY <1>1, <1>2, <2>1, <2>2, <2>3, RevokeRows, RevokeGrows DEF Revokes
  <1>6. QED
    BY <1>4, <1>5

\* Every step of the server is of one of these classes.
LEMMA ServerClass ==
    ASSUME TypeInv, NEW q \in net, Server(q)
    PROVE  /\ RowsGrow /\ PastType
           /\ \E r : \/ Decides(q, r) \/ Refuses(q, r) \/ Rotates(q, r) \/ Revokes(q, r)
                     \/ \E f : LogsIn(q, r, f)
  <1>1. UNCHANGED <<rows, past>> => RowsGrow /\ PastType
    BY RowsType DEF RowsGrow, PastType
  <1>2. CASE RefreshRead(q) \/ LogoutRead(q)
    BY <1>1, <1>2, RefreshReadClass, LogoutReadClass DEF RefreshRead, LogoutRead
  <1>3. CASE Login(q)
    BY <1>3, LoginClass
  <1>4. CASE RefreshRotate(q)
    BY <1>4, RotateClass
  <1>5. CASE RefreshReplayed(q) \/ LogoutRevoke(q)
    BY <1>5, RevokeClass
  <1>6. QED
    BY <1>2, <1>3, <1>4, <1>5 DEF Server

-----------------------------------------------------------------------------
\* What the steps of the tabs do to the requests

LEMMA CloseClass ==
    ASSUME TypeInv, NEW t \in Tabs, CloseTab(t)
    PROVE  /\ Drops /\ PastType
           /\ \A q \in net' : q.from = t => ~q.heard
           /\ \A q \in net : q.from # t => q \in net'
  <1> DEFINE mine    == {q \in net : q.from = t /\ q.heard}
             dropped == {q \in mine : q.at = "answered"}
             lost    == {rows[q.issued].family : q \in {p \in dropped : p.issued # 0}}
  <1>1. /\ net' = (net \ mine) \cup {[q EXCEPT !.heard = FALSE] : q \in mine \ dropped}
        /\ past' = [past EXCEPT !.lost = @ \cup lost]
        /\ breaks' = breaks + 1 /\ UNCHANGED <<rows, cookie>>
    BY DEF CloseTab
  <1>2. lost \subseteq Families
    BY RowsType DEF Row, TypeInv, RequestOK, Request
  <1>3. \A q \in net \ net' : q.issued # 0 => rows[q.issued].family \in lost
    BY <1>1 DEF TypeInv, RequestOK
  <1>4. /\ \A r \in net' : \/ r \in net /\ r \notin mine
                           \/ \E q \in mine \ dropped : r = [q EXCEPT !.heard = FALSE]
        /\ \A q \in mine : q \notin net'
        /\ \A q \in net : q.from # t => q \in net'
    <2>1. \A q \in mine : [q EXCEPT !.heard = FALSE] \notin mine
      BY RowsType DEF Request
    <2>2. \A q \in mine : \A p \in mine : q # [p EXCEPT !.heard = FALSE]
      BY <2>1
    <2>3. QED
      BY <1>1, <2>2
  <1> HIDE DEF lost
  <1>5. /\ past'.lost = past.lost \cup lost /\ past'.ended = past.ended
        /\ past'.raced = past.raced /\ past'.replayed = past.replayed /\ PastType
    BY <1>1, <1>2, RowsType DEF PastType
  <1>6. Drops
    BY <1>1, <1>2, <1>3, <1>4, <1>5 DEF Drops
  <1>7. \A q \in net' : q.from = t => ~q.heard
    <2> SUFFICES ASSUME NEW r \in net', r.from = t
                 PROVE  ~r.heard
      OBVIOUS
    <2>1. ASSUME NEW q \in net, r = [q EXCEPT !.heard = FALSE]
          PROVE  ~r.heard
      BY <2>1, RowsType DEF Request
    <2>2. QED
      BY <1>4, <2>1
  <1>8. QED
    BY <1>4, <1>5, <1>6, <1>7

LEMMA LoseClass ==
    ASSUME TypeInv, NEW q \in net, Lose(q)
    PROVE  /\ Drops /\ PastType
           /\ q.heard /\ net \ {q} \subseteq net'
           /\ \A r \in net' : r.heard => r \in net \ {q}
  <1>1. /\ q.heard /\ breaks' = breaks + 1 /\ UNCHANGED <<rows, cookie>>
        /\ past' = IF q.issued = 0 THEN past
                   ELSE [past EXCEPT !.lost = @ \cup {rows[q.issued].family}]
    BY DEF Lose
  <1>2. q.issued # 0 => rows[q.issued].family \in Families
    BY RowsType DEF Row, TypeInv, RequestOK, Request
  <1>3. /\ past'.lost = past.lost \cup IF q.issued = 0 THEN {} ELSE {rows[q.issued].family}
        /\ past'.ended = past.ended
        /\ past'.raced = past.raced /\ past'.replayed = past.replayed /\ PastType
    BY <1>1, <1>2, RowsType DEF PastType
  <1>4. CASE net' = net \ {q}
    BY <1>1, <1>2, <1>3, <1>4 DEF Drops
  <1>5. CASE Replace(q, [q EXCEPT !.heard = FALSE]) /\ q.at # "answered"
    <2> DEFINE r == [q EXCEPT !.heard = FALSE]
    <2>1. ~r.heard
      BY RowsType DEF Request
    <2>2. net' = (net \ {q}) \cup {r} /\ q.issued = 0
      BY <1>5 DEF Replace, TypeInv, RequestOK
    <2>3. q \notin net'
      BY <1>1, <2>1, <2>2
    <2>4. Drops
      BY <1>1, <1>2, <1>3, <1>5, <2>2, <2>3 DEF Drops
    <2> HIDE DEF r
    <2>5. QED
      BY <1>1, <1>3, <2>1, <2>2, <2>4
  <1>6. QED
    BY <1>4, <1>5 DEF Lose

LEMMA DeliverClass ==
    ASSUME TypeInv, NEW q \in net, Deliver(q)
    PROVE  Arrives(q)
  <1>1. /\ q.at = "answered" /\ net' = net \ {q} /\ UNCHANGED <<rows, past, breaks>>
        /\ q \in Request /\ RequestOK(q)
    BY RowsType DEF Deliver, TypeInv
  <1>2. cookie' \in {cookie, 0, q.issued} /\ (q.issued # 0 => cookie' = q.issued)
    <2>1. CASE q.kind = "refresh"
      BY <1>1, <2>1 DEF Deliver, RefreshGranted, RefreshRefused
    <2>2. CASE q.kind = "login"
      BY <1>1, <2>2 DEF Deliver
    <2>3. CASE q.kind = "logout"
      BY <1>1, <2>3 DEF Deliver, RequestOK
    <2>4. QED
      BY <1>1, <2>1, <2>2, <2>3 DEF Request
  <1>3. QED
    BY <1>1, <1>2 DEF Arrives

(***************************************************************************)
(* Types                                                                   *)
(***************************************************************************)

RequestsOK ==
    /\ rows \in Seq(Row) /\ cookie \in 0 .. Len(rows)
    /\ net \in SUBSET Request /\ \A q \in net : RequestOK(q)

\* A request that is not touched stays in order, whatever rows are added.
LEMMA KeptOK ==
    ASSUME TypeInv, RowsGrow, NEW x \in net
    PROVE  RequestOK(x)'
  <1>1. x \in Request /\ RequestOK(x)
    BY RowsType DEF TypeInv
  <1>2. x.token \in Nat /\ x.issued \in Nat
    BY <1>1 DEF Request
  <1>3. /\ x.token # 0 => rows'[x.token].family = rows[x.token].family
        /\ x.issued # 0 => rows'[x.issued].family = rows[x.issued].family
    BY <1>1, <1>2, RowsType DEF RowsGrow, RequestOK
  <1>4. QED
    BY <1>1, <1>2, <1>3, RowsType DEF RowsGrow, RequestOK, FamilyOf, Row

LEMMA HandledOK ==
    ASSUME TypeInv, RowsGrow, NEW q \in net, NEW r, Handles(q, r), RequestOK(r)'
    PROVE  RequestsOK'
  <1>1. \A x \in net' : x \in net \/ x = r
    BY DEF Handles
  <1>2. net' \in SUBSET Request /\ rows' \in Seq(Row) /\ cookie' \in 0 .. Len(rows')
    BY <1>1, RowsType DEF Handles, RowsGrow
  <1>3. QED
    BY <1>1, <1>2, KeptOK DEF RequestsOK

LEMMA ServerOK ==
    ASSUME TypeInv, NEW q \in net, Server(q)
    PROVE  RequestsOK' /\ PastType /\ UNCHANGED <<lapsed, tab, call, breaks>>
  <1>1. RowsGrow /\ PastType /\ RequestOK(q)' /\ q \in Request /\ RequestOK(q)
    BY ServerClass, KeptOK, RowsType DEF TypeInv
  <1>2. PICK r : \/ Decides(q, r) \/ Refuses(q, r) \/ Rotates(q, r) \/ Revokes(q, r)
                 \/ \E f : LogsIn(q, r, f)
    BY ServerClass
  <1>3. Handles(q, r)
    BY <1>2 DEF Decides, Refuses, Rotates, Revokes, LogsIn, Issues
  <1>4. r \in Request /\ r.token = q.token /\ r.kind = q.kind /\ r.heard = q.heard
    BY <1>3 DEF Handles
  <1>5. r \in net' => RequestOK(r)'
    <2> SUFFICES ASSUME r \in net', r \notin net
                 PROVE  RequestOK(r)'
      BY <1>1, KeptOK
    <2>1. r.at = "answered" => r.heard
      BY <1>3 DEF Handles
    <2>2. CASE Decides(q, r) \/ Refuses(q, r) \/ Revokes(q, r)
      BY <1>1, <1>4, <2>1, <2>2 DEF Decides, Refuses, Revokes, RequestOK
    <2>3. CASE Rotates(q, r)
      <3>1. /\ r.at = "answered" /\ r.issued = Len(rows) + 1 /\ Len(rows') = Len(rows) + 1
            /\ rows'[r.issued] = [family |-> FamilyOf(q), revoked |-> "no"]
            /\ q.at = "rotate" /\ q.kind = "refresh" /\ q.token # 0
        BY <1>1, <2>3 DEF Rotates, Issues, RequestOK
      <3>2. rows'[q.token].family = rows[q.token].family
        BY <1>1, <3>1, RowsType DEF RowsGrow, RequestOK, Request
      <3>3. QED
        BY <1>1, <1>4, <2>1, <3>1, <3>2 DEF RequestOK, FamilyOf
    <2>4. CASE \E f : LogsIn(q, r, f)
      <3>1. /\ r.at = "answered" /\ r.issued = Len(rows) + 1 /\ Len(rows') = Len(rows) + 1
            /\ q.kind = "login"
        BY <2>4 DEF LogsIn, Issues
      <3>2. QED
        BY <1>1, <1>4, <2>1, <3>1 DEF RequestOK
    <2>5. QED
      BY <1>2, <2>2, <2>3, <2>4
  <1>6. RequestsOK'
    <2>1. CASE r \in net'
      BY <1>1, <1>3, <1>5, <2>1, HandledOK
    <2>2. CASE r \notin net'
      <3>1. net' \subseteq net
        BY <1>3, <2>2 DEF Handles
      <3>2. cookie' = cookie
        BY <1>3 DEF Handles
      <3>3. QED
        BY <1>1, <3>1, <3>2, KeptOK, RowsType DEF RequestsOK, RowsGrow
    <2>3. QED
      BY <2>1, <2>2
  <1>7. QED
    BY <1>1, <1>3, <1>6 DEF Handles

LEMMA SendsOK ==
    ASSUME TypeInv, NEW q, Sends(q)
    PROVE  RequestsOK' /\ PastType
  <1>1. RowsGrow /\ PastType
    BY RowsType DEF RowsGrow, PastType, Sends
  <1>2. RequestOK(q)'
    BY RowsType DEF Sends, RequestOK
  <1>3. QED
    BY <1>1, <1>2, KeptOK, RowsType DEF RequestsOK, Sends

LEMMA DropsOK ==
    ASSUME TypeInv, Drops
    PROVE  RequestsOK'
  <1>1. RowsGrow
    BY RowsType DEF RowsGrow, Drops
  <1>2. ASSUME NEW r \in net'
        PROVE  r \in Request /\ RequestOK(r)'
    <2>1. CASE r \in net
      BY <1>1, <2>1, KeptOK, RowsType
    <2>2. ASSUME NEW q \in net, q.at # "answered", r = [q EXCEPT !.heard = FALSE]
          PROVE  r \in Request /\ RequestOK(r)'
      <3>1. q \in Request /\ RequestOK(q)'
        BY <1>1, KeptOK, RowsType
      <3>2. /\ r \in Request /\ r.token = q.token /\ r.kind = q.kind /\ r.at = q.at
            /\ r.issued = q.issued
        BY <2>2, <3>1 DEF Request
      <3>3. QED
        BY <2>2, <3>1, <3>2 DEF RequestOK, FamilyOf
    <2>3. QED
      BY <2>1, <2>2 DEF Drops
  <1>3. QED
    BY <1>2, RowsType DEF RequestsOK, Drops

LEMMA ArrivesOK ==
    ASSUME TypeInv, NEW q \in net, Arrives(q)
    PROVE  RequestsOK' /\ PastType
  <1>1. RowsGrow /\ PastType
    BY RowsType DEF RowsGrow, PastType, Arrives
  <1>2. q \in Request /\ RequestOK(q)
    BY RowsType DEF TypeInv
  <1>3. cookie' \in 0 .. Len(rows')
    BY <1>2, RowsType DEF Arrives, RequestOK, Request
  <1>4. QED
    BY <1>1, <1>3, KeptOK, RowsType DEF RequestsOK, Arrives

LEMMA LocalOK ==
    ASSUME TypeInv, Local
    PROVE  RequestsOK' /\ PastType
  <1>1. RowsGrow /\ PastType
    BY RowsType DEF RowsGrow, PastType, Local
  <1>2. QED
    BY <1>1, KeptOK, RowsType DEF RequestsOK, Local

LEMMA GraceOK ==
    ASSUME TypeInv, GraceEnds
    PROVE  /\ RequestsOK' /\ PastType /\ RowsGrow
           /\ cookie \in 1 .. Len(rows) /\ Len(rows') = Len(rows)
           /\ \A n \in 1 .. Len(rows) :
                rows'[n] = IF n = cookie THEN [rows[n] EXCEPT !.revoked = "yes"] ELSE rows[n]
  <1>1. cookie \in 1 .. Len(rows)
    BY RowsType DEF GraceEnds
  <1>2. /\ rows' \in Seq(Row) /\ Len(rows') = Len(rows)
        /\ \A n \in 1 .. Len(rows) :
             rows'[n] = IF n = cookie THEN [rows[n] EXCEPT !.revoked = "yes"] ELSE rows[n]
    BY <1>1, MarkRow DEF GraceEnds
  <1>3. ASSUME NEW n \in 1 .. Len(rows)
        PROVE  rows'[n].family = rows[n].family
    <2>1. rows[n] \in Row
      BY RowsType
    <2>2. [rows[n] EXCEPT !.revoked = "yes"].family = rows[n].family
      BY <2>1 DEF Row
    <2>3. QED
      BY <1>2, <2>2
  <1>4. RowsGrow /\ PastType
    BY <1>2, <1>3, RowsType DEF RowsGrow, PastType, GraceEnds
  <1>5. RequestsOK'
    BY <1>1, <1>2, <1>4, KeptOK, RowsType DEF RequestsOK, GraceEnds
  <1>6. QED
    BY <1>1, <1>2, <1>4, <1>5

(***************************************************************************)
(* One refresh at a time                                                   *)
(***************************************************************************)
\* A refresh of tab t whose answer somebody waits for.
Pending(q, t) == q.kind = "refresh" /\ q.from = t /\ q.heard

\* A tab waits for at most one refresh, knows whether it does, and its calls wait for that.
OneFlight ==
    /\ \A t \in Tabs : \A p, q \in net : Pending(p, t) /\ Pending(q, t) => p = q
    /\ \A t \in Tabs : tab[t].refreshing <=> \E q \in net : Pending(q, t)
    /\ \A c \in Calls : call[c].at = "waiting" => tab[TabOf[c]].refreshing

\* Nobody waits for anything in a tab that is closed.
ClosedQuiet ==
    \A t \in Tabs : tab[t].phase = "closed" =>
        /\ \A q \in net : q.from = t => ~q.heard
        /\ \A c \in Calls : TabOf[c] = t => call[c].at = "idle"

\* The requests of a tab can be told apart.
ToldApart ==
    /\ \A q \in net : q.nr <= breaks /\ (~q.heard => q.nr < breaks)
    /\ \A p, q \in net : p.kind = q.kind /\ p.from = q.from /\ p.nr = q.nr => p = q

FlightInv == OneFlight /\ ClosedQuiet /\ ToldApart

TabsOK == tab \in [Tabs -> Tab] /\ call \in [Calls -> Call]

LEMMA TabsType ==
    ASSUME TypeInv
    PROVE  /\ TabsOK /\ breaks \in 0 .. MaxBreaks /\ lapsed \in 0 .. MaxLapsed
           /\ \A t \in Tabs : tab[t] \in Tab
           /\ \A c \in Calls : call[c] \in Call /\ TabOf[c] \in Tabs
           /\ \A q \in net : q.from \in Tabs
  BY ConstantsAssumption DEF TypeInv, TypeOK, TabsOK, Request

LEMMA FlightIsSingle == OneFlight => SingleFlight
  <1> SUFFICES ASSUME OneFlight, NEW t \in Tabs
               PROVE  LET mine == {q \in net : q.from = t /\ q.kind = "refresh" /\ q.heard}
                      IN  /\ \A p, q \in mine : p = q
                          /\ tab[t].refreshing <=> mine # {}
                          /\ Waiting(t) # {} => tab[t].refreshing
    BY DEF SingleFlight
  <1>1. {q \in net : q.from = t /\ q.kind = "refresh" /\ q.heard} = {q \in net : Pending(q, t)}
    BY DEF Pending
  <1>2. tab[t].refreshing <=> {q \in net : Pending(q, t)} # {}
    BY DEF OneFlight
  <1>3. Waiting(t) # {} => tab[t].refreshing
    BY DEF OneFlight, Waiting
  <1>4. QED
    BY <1>1, <1>2, <1>3 DEF OneFlight

-----------------------------------------------------------------------------
\* The requests can be told apart

LEMMA HandlesApart ==
    ASSUME TypeInv, ToldApart, NEW q \in net, NEW r, Handles(q, r)
    PROVE  /\ ToldApart'
           /\ \A t : \A x \in net' : Pending(x, t) =>
                x \in net \ {q} \/ (x = r /\ Pending(q, t))
           /\ \A t : Pending(q, t) => r \in net' /\ Pending(r, t)
           /\ \A x \in net : x \in net' \/ x = q
           /\ \A x \in net' : x \in net \/ (x.from = q.from /\ x.heard = q.heard)
  BY DEF ToldApart, Handles, Pending

LEMMA SendsApart ==
    ASSUME TypeInv, ToldApart, NEW q, Sends(q)
    PROVE  ToldApart'
  <1>1. \A p \in net : p.kind = q.kind /\ p.from = q.from => p.nr < breaks
    BY DEF Sends, ToldApart
  <1>2. breaks \in Nat /\ \A p \in net : p.nr \in Nat
    BY RowsType, TabsType DEF Request
  <1>3. /\ q.nr = breaks /\ q.heard /\ net' = net \cup {q} /\ breaks' = breaks
    BY DEF Sends
  <1>4. \A p \in net' : p.nr <= breaks' /\ (~p.heard => p.nr < breaks')
    BY <1>2, <1>3 DEF ToldApart
  <1>5. \A p \in net : p.kind = q.kind /\ p.from = q.from => p.nr # q.nr
    BY <1>1, <1>2, <1>3
  <1>6. \A p, r \in net' : p.kind = r.kind /\ p.from = r.from /\ p.nr = r.nr => p = r
    BY <1>3, <1>5 DEF ToldApart
  <1>7. QED
    BY <1>4, <1>6 DEF ToldApart

LEMMA DropsApart ==
    ASSUME TypeInv, ToldApart, Drops
    PROVE  ToldApart' /\ \A r \in net' : r.heard => r \in net
  <1>1. \A q \in net : q.nr \in Nat /\ breaks \in Nat
    BY RowsType, TabsType DEF Request
  <1>2. ASSUME NEW r \in net'
        PROVE  \/ r \in net
               \/ /\ ~r.heard
                  /\ \E q \in net \ net' : r.kind = q.kind /\ r.from = q.from /\ r.nr = q.nr
                                           /\ r = [q EXCEPT !.heard = FALSE]
    BY RowsType DEF Drops, Request
  <1>3. breaks' = breaks + 1
    BY DEF Drops
  <1>4. \A r \in net' : r.nr <= breaks' /\ (~r.heard => r.nr < breaks')
    BY <1>1, <1>2, <1>3 DEF ToldApart
  <1>5. ASSUME NEW p \in net', NEW q \in net', p.kind = q.kind, p.from = q.from, p.nr = q.nr
        PROVE  p = q
    <2> DEFINE Was(r, o) == /\ r.kind = o.kind /\ r.from = o.from /\ r.nr = o.nr
                            /\ r = o \/ (o \notin net' /\ r = [o EXCEPT !.heard = FALSE])
    <2>1. PICK o \in net : Was(p, o)
      BY <1>2
    <2>2. PICK n \in net : Was(q, n)
      BY <1>2
    <2>3. o = n
      BY <1>5, <2>1, <2>2 DEF ToldApart
    <2>4. QED
      BY <2>1, <2>2, <2>3
  <1>6. QED
    BY <1>2, <1>4, <1>5 DEF ToldApart

-----------------------------------------------------------------------------
\* Steps that leave the tabs alone

LEMMA ServerFlight ==
    ASSUME TypeInv, FlightInv, NEW q \in net, Server(q)
    PROVE  FlightInv'
  <1>1. PICK r : Handles(q, r)
    BY ServerClass DEF Decides, Refuses, Rotates, Revokes, LogsIn, Issues
  <1>2. UNCHANGED <<tab, call>>
    BY <1>1 DEF Handles
  <1>3. ToldApart /\ ToldApart'
    BY <1>1, HandlesApart DEF FlightInv
  <1>4. OneFlight'
    BY <1>1, <1>2, <1>3, HandlesApart DEF FlightInv, OneFlight
  <1>5. ClosedQuiet'
    BY <1>1, <1>2, <1>3, HandlesApart DEF FlightInv, ClosedQuiet
  <1>6. QED
    BY <1>3, <1>4, <1>5 DEF FlightInv

LEMMA QuietFlight ==
    ASSUME FlightInv, UNCHANGED <<net, tab, call, breaks>>
    PROVE  FlightInv'
  BY DEF FlightInv, OneFlight, ClosedQuiet, ToldApart, Pending

-----------------------------------------------------------------------------
\* The steps of the tabs

\* The request a tab sends next.
NewRequest(kind, t) ==
    [kind |-> kind, from |-> t, nr |-> breaks, heard |-> TRUE,
     token |-> cookie, at |-> "sent", issued |-> 0]

LEMMA SendSends ==
    ASSUME TypeInv, NEW t \in Tabs, NEW kind \in {"login", "refresh", "logout"}, Send(kind, t),
           \A p \in net : p.kind = kind /\ p.from = t => ~p.heard,
           UNCHANGED <<rows, cookie, past, breaks>>
    PROVE  Sends(NewRequest(kind, t)) /\ net' = net \cup {NewRequest(kind, t)}
  BY RowsType, TabsType DEF Send, Sends, NewRequest, Request

LEMMA OpenTabKeeps ==
    ASSUME TypeInv, FlightInv, NEW t \in Tabs, OpenTab(t)
    PROVE  TabsOK' /\ FlightInv' /\ Sends(NewRequest("refresh", t))
  <1> DEFINE q == NewRequest("refresh", t)
  <1>1. PICK route \in {"login", "chat"} :
          tab' = [tab EXCEPT ![t] = [phase |-> "booting", route |-> route,
                                     store |-> 0, refreshing |-> TRUE]]
    BY DEF OpenTab, Guard
  <1>2. /\ tab' \in [Tabs -> Tab]
        /\ tab'[t].phase = "booting" /\ tab'[t].refreshing
        /\ \A u \in Tabs : u # t => tab'[u] = tab[u]
    BY <1>1, TabsType DEF TabsOK, Tab
  <1>3. tab[t].phase = "closed" /\ call' = call /\ UNCHANGED <<rows, cookie, past, breaks>>
    BY DEF OpenTab
  <1>4. \A p \in net : p.from = t => ~p.heard
    BY <1>3 DEF FlightInv, ClosedQuiet
  <1>5. Sends(q) /\ net' = net \cup {q}
    BY <1>3, <1>4, SendSends DEF OpenTab
  <1>6. q.kind = "refresh" /\ q.from = t /\ q.heard
    BY DEF NewRequest
  <1> HIDE DEF q
  <1>7. OneFlight'
    BY <1>2, <1>3, <1>4, <1>5, <1>6, TabsType DEF FlightInv, OneFlight, Pending
  <1>8. ClosedQuiet'
    BY <1>2, <1>3, <1>5, <1>6 DEF FlightInv, ClosedQuiet
  <1>9. ToldApart' /\ TabsOK'
    BY <1>2, <1>3, <1>5, SendsApart, TabsType DEF FlightInv, TabsOK
  <1>10. QED
    BY <1>5, <1>7, <1>8, <1>9 DEF FlightInv, q

LEMMA CloseTabKeeps ==
    ASSUME TypeInv, FlightInv, NEW t \in Tabs, CloseTab(t)
    PROVE  TabsOK' /\ FlightInv'
  <1>1. /\ tab' = [tab EXCEPT ![t] = ClosedTab]
        /\ call' = [c \in Calls |-> IF TabOf[c] = t THEN NoCall ELSE call[c]]
    BY DEF CloseTab
  <1>2. TabsOK'
    BY <1>1, TabsType DEF TabsOK, Tab, ClosedTab, Call, NoCall
  <1>3. /\ tab'[t].phase = "closed" /\ ~tab'[t].refreshing
        /\ \A u \in Tabs : u # t => tab'[u] = tab[u]
    BY <1>1, TabsType DEF TabsOK, ClosedTab
  <1>4. \A c \in Calls : IF TabOf[c] = t THEN call'[c].at = "idle" ELSE call'[c] = call[c]
    BY <1>1 DEF NoCall
  <1>5. /\ ToldApart' /\ \A q \in net' : q.heard => q \in net
        /\ \A q \in net' : q.from = t => ~q.heard
        /\ \A q \in net : q.from # t => q \in net'
    BY CloseClass, DropsApart DEF FlightInv
  <1>6. OneFlight'
    <2>1. \A u \in Tabs : \A p, q \in net' : Pending(p, u) /\ Pending(q, u) => p = q
      BY <1>5 DEF FlightInv, OneFlight, Pending
    <2>2. \A u \in Tabs : tab'[u].refreshing <=> \E q \in net' : Pending(q, u)
      BY <1>3, <1>5 DEF FlightInv, OneFlight, Pending
    <2>3. \A c \in Calls : call'[c].at = "waiting" => tab'[TabOf[c]].refreshing
      BY <1>3, <1>4, TabsType DEF FlightInv, OneFlight
    <2>4. QED
      BY <2>1, <2>2, <2>3 DEF OneFlight, Pending
  <1>7. ClosedQuiet'
    BY <1>3, <1>4, <1>5 DEF FlightInv, ClosedQuiet
  <1>8. QED
    BY <1>2, <1>5, <1>6, <1>7 DEF FlightInv

\* Only the page or the token of a tab changes.
LEMMA SamePhase ==
    ASSUME TypeInv, FlightInv, call' = call, net' = net, breaks' = breaks,
           \A u \in Tabs : tab'[u].phase = tab[u].phase /\ tab'[u].refreshing = tab[u].refreshing
    PROVE  FlightInv'
  BY TabsType DEF FlightInv, OneFlight, ClosedQuiet, ToldApart, Pending

LEMMA NavigateKeeps ==
    ASSUME TypeInv, FlightInv, NEW t \in Tabs, Navigate(t)
    PROVE  TabsOK' /\ FlightInv' /\ Local
  <1>1. PICK route \in {"login", "chat"} : tab' = [tab EXCEPT ![t].route = route]
    BY DEF Navigate, Guard
  <1>2. call' = call /\ Local
    BY DEF Navigate, Local
  <1>3. tab' \in [Tabs -> Tab]
    BY <1>1, TabsType DEF TabsOK, Tab
  <1>4. \A u \in Tabs : tab'[u].phase = tab[u].phase /\ tab'[u].refreshing = tab[u].refreshing
    BY <1>1, TabsType DEF TabsOK, Tab
  <1>5. QED
    BY <1>2, <1>3, <1>4, SamePhase, TabsType DEF TabsOK, Local

\* A login or a logout is sent.
LEMMA SubmitKeeps ==
    ASSUME TypeInv, FlightInv, NEW t \in Tabs, NEW kind \in {"login", "logout"}, Send(kind, t),
           \A p \in net : p.kind = kind /\ p.from = t => ~p.heard,
           tab[t].phase = "mounted", UNCHANGED <<rows, cookie, past, breaks, tab, call>>
    PROVE  TabsOK' /\ FlightInv' /\ Sends(NewRequest(kind, t))
  <1> DEFINE q == NewRequest(kind, t)
  <1>1. Sends(q) /\ net' = net \cup {q}
    BY SendSends
  <1>2. q.kind = kind /\ q.from = t
    BY DEF NewRequest
  <1> HIDE DEF q
  <1>3. OneFlight'
    BY <1>1, <1>2 DEF FlightInv, OneFlight, Pending
  <1>4. ClosedQuiet'
    BY <1>1, <1>2 DEF FlightInv, ClosedQuiet
  <1>5. QED
    BY <1>1, <1>3, <1>4, SendsApart, TabsType DEF FlightInv, TabsOK, q

LEMMA CallStepKeeps ==
    ASSUME TypeInv, FlightInv, NEW c \in Calls, SendCall(c) \/ CallChecked(c)
    PROVE  TabsOK' /\ FlightInv' /\ Local
  <1>1. Local /\ tab' = tab
    BY DEF SendCall, CallChecked, Local
  <1>2. PICK r \in Call : call' = [call EXCEPT ![c] = r] /\ r.at # "waiting"
    <2>1. CASE SendCall(c)
      <3>1. call' = [call EXCEPT ![c] = [at |-> "sent", with |-> tab[TabOf[c]].store]]
        BY <2>1 DEF SendCall
      <3>2. [at |-> "sent", with |-> tab[TabOf[c]].store] \in Call
        BY TabsType DEF Call, Tab
      <3>3. QED
        BY <3>1, <3>2
    <2>2. CASE CallChecked(c)
      <3>1. CASE call[c].at = "sent" /\ ~(call[c].with > lapsed)
        <4>1. call' = [call EXCEPT ![c] = [call[c] EXCEPT !.at = "refused"]]
          BY <2>2, <3>1, TabsType DEF CallChecked, TabsOK
        <4>2. /\ [call[c] EXCEPT !.at = "refused"] \in Call
              /\ [call[c] EXCEPT !.at = "refused"].at = "refused"
          BY TabsType DEF Call
        <4>3. QED
          BY <4>1, <4>2
      <3>2. CASE ~(call[c].at = "sent" /\ ~(call[c].with > lapsed))
        BY <2>2, <3>2 DEF CallChecked, Settled, Call
      <3>3. QED
        BY <3>1, <3>2
    <2>3. QED
      BY <2>1, <2>2
  <1>3. TabsOK' /\ call'[c] = r /\ \A d \in Calls : d # c => call'[d] = call[d]
    BY <1>1, <1>2, TabsType DEF TabsOK
  <1>4. tab[TabOf[c]].phase # "closed"
    <2>1. SendCall(c) => tab[TabOf[c]].phase = "mounted"
      BY DEF SendCall
    <2>2. CallChecked(c) => call[c].at # "idle"
      BY DEF CallChecked
    <2>3. QED
      BY <2>1, <2>2, TabsType DEF FlightInv, ClosedQuiet
  <1>5. OneFlight'
    BY <1>1, <1>2, <1>3 DEF FlightInv, OneFlight, Pending, Local
  <1>6. ClosedQuiet'
    BY <1>1, <1>3, <1>4 DEF FlightInv, ClosedQuiet, Local
  <1>7. ToldApart'
    BY <1>1 DEF FlightInv, ToldApart, Local
  <1>8. QED
    BY <1>1, <1>3, <1>5, <1>6, <1>7 DEF FlightInv

LEMMA CallRefusedKeeps ==
    ASSUME TypeInv, FlightInv, NEW c \in Calls, CallRefused(c)
    PROVE  TabsOK' /\ FlightInv' /\ (Local \/ \E q : Sends(q))
  <1> DEFINE t == TabOf[c]
             q == NewRequest("refresh", t)
  <1>1. /\ t \in Tabs /\ call[c].at = "refused" /\ UNCHANGED <<rows, cookie, past, breaks>>
        /\ call' = [call EXCEPT ![c].at = "waiting"]
        /\ tab' = [tab EXCEPT ![t].refreshing = TRUE]
    BY TabsType DEF CallRefused
  <1>2. [call[c] EXCEPT !.at = "waiting"] \in Call
    BY TabsType DEF Call
  <1>3. [tab[t] EXCEPT !.refreshing = TRUE] \in Tab
    BY <1>1, TabsType DEF Tab
  <1>4. /\ TabsOK' /\ tab'[t].refreshing /\ tab'[t].phase = tab[t].phase
        /\ \A u \in Tabs : u # t => tab'[u] = tab[u]
        /\ \A d \in Calls : d # c => call'[d] = call[d]
    BY <1>1, <1>2, <1>3, TabsType DEF TabsOK, Tab
  <1>5. tab[t].phase # "closed"
    BY <1>1 DEF FlightInv, ClosedQuiet
  <1>6. \/ /\ net' = net /\ tab[t].refreshing
        \/ /\ Sends(q) /\ net' = net \cup {q}
           /\ \A p \in net : ~Pending(p, t)
    <2>1. CASE tab[t].refreshing
      BY <2>1 DEF CallRefused
    <2>2. CASE ~tab[t].refreshing
      <3>1. \A p \in net : ~Pending(p, t)
        BY <1>1, <2>2 DEF FlightInv, OneFlight
      <3>2. Send("refresh", t)
        BY <2>2 DEF CallRefused
      <3>3. QED
        BY <1>1, <3>1, <3>2, SendSends DEF Pending
    <2>3. QED
      BY <2>1, <2>2
  <1>7. q.kind = "refresh" /\ q.from = t /\ q.heard
    BY DEF NewRequest
  <1> HIDE DEF q, t
  <1>8. OneFlight'
    <2>1. \A u \in Tabs : \A p, r \in net' : Pending(p, u) /\ Pending(r, u) => p = r
      BY <1>6, <1>7 DEF FlightInv, OneFlight, Pending
    <2>2. \A u \in Tabs : tab'[u].refreshing <=> \E r \in net' : Pending(r, u)
      BY <1>4, <1>6, <1>7, <1>1 DEF FlightInv, OneFlight, Pending
    <2>3. \A d \in Calls : call'[d].at = "waiting" => tab'[TabOf[d]].refreshing
      BY <1>1, <1>4, TabsType DEF FlightInv, OneFlight, t
    <2>4. QED
      BY <2>1, <2>2, <2>3 DEF OneFlight, Pending
  <1>9. ClosedQuiet'
    BY <1>1, <1>4, <1>5, <1>6, <1>7 DEF FlightInv, ClosedQuiet, t
  <1>10. ToldApart'
    <2>1. net' = net => ToldApart'
      BY <1>1 DEF FlightInv, ToldApart
    <2>2. QED
      BY <1>6, <2>1, SendsApart DEF FlightInv
  <1>11. QED
    BY <1>1, <1>4, <1>6, <1>8, <1>9, <1>10 DEF FlightInv, Local

\* The refresh that tab t waits for is over, and with it the waiting.
LEMMA RefreshOver ==
    ASSUME TypeInv, FlightInv, NEW t \in Tabs, NEW q \in net, Pending(q, t),
           ToldApart', TabsOK',
           net \ {q} \subseteq net', \A r \in net' : r.heard => r \in net \ {q},
           ~tab'[t].refreshing, tab'[t].phase # "closed",
           \A u \in Tabs : u # t => tab'[u] = tab[u],
           \A c \in Calls : IF c \in Waiting(t) THEN call'[c].at # "waiting"
                                                ELSE call'[c] = call[c]
    PROVE  FlightInv'
  <1>1. \A u \in Tabs : \A p, r \in net' : Pending(p, u) /\ Pending(r, u) => p = r
    BY DEF FlightInv, OneFlight, Pending
  <1>2. \A u \in Tabs : tab'[u].refreshing <=> \E r \in net' : Pending(r, u)
    BY DEF FlightInv, OneFlight, Pending
  <1>3. \A c \in Calls : call'[c].at = "waiting" => tab'[TabOf[c]].refreshing
    BY TabsType DEF FlightInv, OneFlight, Waiting
  <1>4. ClosedQuiet'
    BY DEF FlightInv, ClosedQuiet, Waiting, OneFlight
  <1>5. QED
    BY <1>1, <1>2, <1>3, <1>4 DEF FlightInv, OneFlight, Pending

\* A request that is no refresh is over.
LEMMA OtherOver ==
    ASSUME TypeInv, FlightInv, NEW q \in net, q.kind # "refresh", ToldApart',
           net \ {q} \subseteq net', \A r \in net' : r.heard => r \in net \ {q}, call' = call,
           \A u \in Tabs : tab'[u].phase = tab[u].phase /\ tab'[u].refreshing = tab[u].refreshing
    PROVE  FlightInv'
  <1>1. \A u \in Tabs : \A r : (r \in net' /\ Pending(r, u)) <=> (r \in net /\ Pending(r, u))
    BY DEF Pending
  <1>2. OneFlight'
    BY <1>1, TabsType DEF FlightInv, OneFlight, Pending
  <1>3. ClosedQuiet'
    BY DEF FlightInv, ClosedQuiet
  <1>4. QED
    BY <1>2, <1>3 DEF FlightInv

LEMMA DeliverKeeps ==
    ASSUME TypeInv, FlightInv, NEW q \in net, Deliver(q)
    PROVE  TabsOK' /\ FlightInv'
  <1> DEFINE t == q.from
  <1>1. /\ q \in Request /\ t \in Tabs /\ q.at = "answered" /\ q.heard /\ net' = net \ {q}
        /\ breaks' = breaks
    BY RowsType, TabsType DEF Deliver, TypeInv, RequestOK
  <1>2. ToldApart'
    BY <1>1 DEF FlightInv, ToldApart
  <1>3. tab[t].phase # "closed"
    BY <1>1 DEF FlightInv, ClosedQuiet
  <1>4. CASE q.kind = "refresh" /\ q.issued # 0
    <2>1. RefreshGranted(t, q.issued)
      BY <1>4 DEF Deliver
    <2> DEFINE new == [tab[t] EXCEPT !.store = q.issued, !.refreshing = FALSE,
                                     !.phase = "mounted"]
    <2>2. new \in Tab /\ ~new.refreshing /\ new.phase = "mounted"
      <3>1. tab[t] \in Tab /\ q.issued \in Nat
        BY <1>1, TabsType DEF Request
      <3>2. QED
        BY <3>1 DEF Tab
    <2>3. tab' = [tab EXCEPT ![t] = new]
      BY <1>1, <2>1, TabsType DEF RefreshGranted, TabsOK
    <2> HIDE DEF new
    <2>4. /\ tab' \in [Tabs -> Tab] /\ tab'[t] = new
          /\ \A u \in Tabs : u # t => tab'[u] = tab[u]
      BY <1>1, <2>2, <2>3, TabsType DEF TabsOK
    <2>5. \A c \in Calls : IF c \in Waiting(t) THEN call'[c].at = "resent" /\ call'[c] \in Call
                                               ELSE call'[c] = call[c]
      BY <1>1, <2>1 DEF RefreshGranted, Call, Request
    <2>6. call' \in [Calls -> Call]
      BY <2>1, <2>5, TabsType DEF RefreshGranted
    <2>7. QED
      BY <1>1, <1>2, <1>4, <2>2, <2>4, <2>5, <2>6, RefreshOver DEF TabsOK, Pending
  <1>5. CASE q.kind = "refresh" /\ q.issued = 0
    <2>1. RefreshRefused(t)
      BY <1>5 DEF Deliver
    <2> DEFINE alone == Waiting(t) \cap JsonCalls = {}
               store == IF alone THEN tab[t].store ELSE 0
               route == IF alone THEN tab[t].route ELSE "login"
    <2>2. tab[t].store \in Nat /\ tab[t].route \in {"login", "chat"}
      BY <1>1, TabsType DEF Tab
    <2>3. store \in Nat /\ route \in {"login", "chat"}
      BY <2>2
    <2>4. tab' = [tab EXCEPT ![t] = [tab[t] EXCEPT !.refreshing = FALSE, !.phase = "mounted",
                                                   !.store = store, !.route = route]]
      BY <1>1, <2>1, TabsType DEF RefreshRefused, TabsOK, Tab
    <2> HIDE DEF store, route
    <2> DEFINE new == [tab[t] EXCEPT !.refreshing = FALSE, !.phase = "mounted",
                                     !.store = store, !.route = route]
    <2>5. new \in Tab /\ ~new.refreshing /\ new.phase = "mounted"
      <3>1. tab[t] \in Tab
        BY <1>1, TabsType
      <3>2. QED
        BY <2>3, <3>1 DEF Tab
    <2>6. tab' = [tab EXCEPT ![t] = new]
      BY <2>4
    <2> HIDE DEF new
    <2>7. /\ tab' \in [Tabs -> Tab] /\ tab'[t] = new
          /\ \A u \in Tabs : u # t => tab'[u] = tab[u]
      BY <1>1, <2>5, <2>6, TabsType DEF TabsOK
    <2>8. \A c \in Calls : IF c \in Waiting(t) THEN call'[c] = Settled ELSE call'[c] = call[c]
      BY <2>1 DEF RefreshRefused
    <2>9. Settled \in Call /\ Settled.at # "waiting"
      BY DEF Settled, Call
    <2>10. call' \in [Calls -> Call]
      BY <2>1, <2>8, <2>9, TabsType DEF RefreshRefused
    <2>11. QED
      BY <1>1, <1>2, <1>5, <2>5, <2>7, <2>8, <2>9, <2>10, RefreshOver DEF TabsOK, Pending
  <1>6. CASE q.kind # "refresh"
    <2>1. PICK store \in Nat, route \in {"login", "chat"} :
            tab' = [tab EXCEPT ![t].store = store, ![t].route = route] /\ call' = call
      <3>1. CASE q.kind = "login"
        BY <1>1, <3>1 DEF Deliver, Request
      <3>2. CASE q.kind = "logout"
        BY <1>1, <3>2 DEF Deliver
      <3>3. QED
        BY <1>1, <1>6, <3>1, <3>2 DEF Request
    <2> DEFINE new == [tab[t] EXCEPT !.store = store, !.route = route]
    <2>2. new \in Tab /\ new.refreshing = tab[t].refreshing /\ new.phase = tab[t].phase
      BY <1>1, TabsType DEF Tab
    <2>3. tab' = [tab EXCEPT ![t] = new]
      BY <1>1, <2>1, TabsType DEF TabsOK
    <2> HIDE DEF new
    <2>4. /\ tab' \in [Tabs -> Tab] /\ tab'[t] = new
          /\ \A u \in Tabs : u # t => tab'[u] = tab[u]
      BY <1>1, <2>2, <2>3, TabsType DEF TabsOK
    <2>5. QED
      BY <1>1, <1>2, <1>6, <2>1, <2>2, <2>4, OtherOver, TabsType DEF TabsOK
  <1>7. QED
    BY <1>4, <1>5, <1>6

LEMMA LoseKeeps ==
    ASSUME TypeInv, FlightInv, NEW q \in net, Lose(q)
    PROVE  TabsOK' /\ FlightInv'
  <1> DEFINE t == q.from
  <1>1. /\ q \in Request /\ t \in Tabs /\ q.heard
        /\ net \ {q} \subseteq net' /\ \A r \in net' : r.heard => r \in net \ {q}
    BY RowsType, TabsType, LoseClass
  <1>2. ToldApart'
    BY LoseClass, DropsApart DEF FlightInv
  <1>3. tab[t].phase # "closed"
    BY <1>1 DEF FlightInv, ClosedQuiet
  <1>4. CASE q.kind = "refresh"
    <2>1. PICK phase \in {tab[t].phase, "blank"} :
            tab' = [tab EXCEPT ![t].refreshing = FALSE, ![t].phase = phase]
      <3>1. CASE tab[t].phase = "booting"
        BY <1>1, <1>4, <3>1, TabsType DEF Lose, Tab, TabsOK
      <3>2. CASE tab[t].phase # "booting"
        BY <1>1, <1>4, <3>2, TabsType DEF Lose, Tab, TabsOK
      <3>3. QED
        BY <3>1, <3>2
    <2>2. call' = [c \in Calls |-> IF c \in Waiting(t) THEN Settled ELSE call[c]]
      BY <1>4 DEF Lose
    <2> DEFINE new == [tab[t] EXCEPT !.refreshing = FALSE, !.phase = phase]
    <2>3. new \in Tab /\ ~new.refreshing /\ new.phase = phase
      BY <1>1, TabsType DEF Tab
    <2>4. tab' = [tab EXCEPT ![t] = new]
      BY <1>1, <2>1, TabsType DEF TabsOK
    <2> HIDE DEF new
    <2>5. /\ tab' \in [Tabs -> Tab] /\ tab'[t] = new
          /\ \A u \in Tabs : u # t => tab'[u] = tab[u]
      BY <1>1, <2>3, <2>4, TabsType DEF TabsOK
    <2>6. Settled \in Call /\ Settled.at # "waiting"
      BY DEF Settled, Call
    <2>7. call' \in [Calls -> Call]
      BY <2>2, <2>6, TabsType
    <2>8. phase # "closed"
      BY <1>3
    <2>9. QED
      BY <1>1, <1>2, <1>4, <2>2, <2>3, <2>5, <2>6, <2>7, <2>8, RefreshOver DEF TabsOK, Pending
  <1>5. CASE q.kind = "login"
    <2>1. UNCHANGED <<tab, call>>
      BY <1>5 DEF Lose
    <2>2. QED
      BY <1>1, <1>2, <1>5, <2>1, OtherOver, TabsType DEF TabsOK
  <1>6. CASE q.kind = "logout"
    <2>1. /\ tab' = [tab EXCEPT ![t].store = 0, ![t].route = "login"] /\ call' = call
      BY <1>6 DEF Lose
    <2> DEFINE new == [tab[t] EXCEPT !.store = 0, !.route = "login"]
    <2>2. new \in Tab /\ new.refreshing = tab[t].refreshing /\ new.phase = tab[t].phase
      BY <1>1, TabsType DEF Tab
    <2>3. tab' = [tab EXCEPT ![t] = new]
      BY <1>1, <2>1, TabsType DEF TabsOK
    <2> HIDE DEF new
    <2>4. /\ tab' \in [Tabs -> Tab] /\ tab'[t] = new
          /\ \A u \in Tabs : u # t => tab'[u] = tab[u]
      BY <1>1, <2>2, <2>3, TabsType DEF TabsOK
    <2>5. QED
      BY <1>1, <1>2, <1>6, <2>1, <2>2, <2>4, OtherOver, TabsType DEF TabsOK
  <1>7. QED
    BY <1>1, <1>4, <1>5, <1>6 DEF Request

(***************************************************************************)
(* Tokens                                                                  *)
(***************************************************************************)

\* A token on its way to its tab is nowhere else, and was not replaced.
IssuedOnce ==
    \A p \in net : p.issued # 0 =>
        /\ p.issued # cookie
        /\ \A q \in net : q.token # p.issued /\ (q.issued = p.issued => q = p)

IssuedLive ==
    \A q \in net : q.issued # 0 =>
        \/ rows[q.issued].revoked = "no"
        \/ /\ rows[q.issued].revoked = "yes"
           /\ rows[q.issued].family \in past.ended \cup past.replayed

\* What became of the answer that replaced the token in the cookie.
GraceExplained ==
    cookie # 0 /\ rows[cookie].revoked = "grace" =>
        \/ rows[cookie].family \in past.lost
        \/ \E q \in net : /\ q.kind = "refresh" /\ q.at = "answered"
                          /\ q.token = cookie /\ q.issued # 0

\* A row is revoked for good only in a family that lost an answer or was logged out,
\* and only such a family is about to be revoked as replayed.
YesExplained ==
    \A n \in 1 .. Len(rows) : rows[n].revoked = "yes" => rows[n].family \in past.lost \cup past.ended

RevokingExplained ==
    \A q \in net : q.kind = "refresh" /\ q.at = "revoke" =>
        rows[q.token].family \in past.lost \cup past.ended

\* The refreshes that a logout did not wait for are known to it.
RotatingRaced ==
    \A q \in net : q.at = "rotate" /\ rows[q.token].family \in past.ended =>
        rows[q.token].family \in past.raced

EndedUsed ==
    \A f \in past.ended : \E n \in 1 .. Len(rows) : rows[n].family = f

LiveNotEnded ==
    \A n \in 1 .. Len(rows) :
        rows[n].family \in past.ended /\ rows[n].revoked = "no" => rows[n].family \in past.raced

Replays == \A f \in past.replayed : f \in past.lost \cup past.ended

TokenInv ==
    /\ IssuedOnce /\ IssuedLive /\ GraceExplained
    /\ YesExplained /\ RevokingExplained /\ Replays
    /\ EndedUsed /\ RotatingRaced /\ LiveNotEnded

\* The rows a request in flight refers to.
LEMMA RowsOf ==
    ASSUME TypeInv, NEW x \in net
    PROVE  /\ x.token \in 0 .. Len(rows) /\ x.issued \in 0 .. Len(rows)
           /\ x.at \in {"rotate", "revoke"} => x.token \in 1 .. Len(rows)
           /\ x.issued # 0 => x.issued \in 1 .. Len(rows) /\ x.at = "answered"
           /\ x.issued # 0 /\ x.kind = "refresh" =>
                  /\ x.token \in 1 .. Len(rows)
                  /\ rows[x.issued].family = rows[x.token].family
  BY RowsType DEF TypeInv, RequestOK, Request, FamilyOf

LEMMA SendsTokens ==
    ASSUME TypeInv, TokenInv, NEW q, Sends(q)
    PROVE  TokenInv'
  <1>1. /\ net' = net \cup {q} /\ q.token = cookie /\ q.at = "sent" /\ q.issued = 0
        /\ rows' = rows /\ cookie' = cookie /\ past' = past
    BY DEF Sends
  <1>2. IssuedOnce' /\ IssuedLive' /\ GraceExplained'
    BY <1>1 DEF TokenInv, IssuedOnce, IssuedLive, GraceExplained
  <1>3. YesExplained' /\ RevokingExplained' /\ Replays'
    BY <1>1 DEF TokenInv, YesExplained, RevokingExplained, Replays
  <1>4. EndedUsed' /\ RotatingRaced' /\ LiveNotEnded'
    BY <1>1 DEF TokenInv, EndedUsed, RotatingRaced, LiveNotEnded
  <1>5. QED
    BY <1>2, <1>3, <1>4 DEF TokenInv

LEMMA LocalTokens ==
    ASSUME TokenInv, Local
    PROVE  TokenInv'
  BY DEF Local, TokenInv, IssuedOnce, IssuedLive, GraceExplained, YesExplained,
         RevokingExplained, Replays, EndedUsed, RotatingRaced, LiveNotEnded

LEMMA DropsTokens ==
    ASSUME TypeInv, TokenInv, Drops
    PROVE  TokenInv'
  <1>1. ASSUME NEW r \in net'
        PROVE  \/ r \in net
               \/ /\ r.issued = 0
                  /\ \E q \in net : r.token = q.token /\ r.at = q.at /\ r.kind = q.kind
    BY RowsType DEF Drops, Request, TypeInv, RequestOK
  <1>2. /\ rows' = rows /\ cookie' = cookie
        /\ past.lost \subseteq past'.lost /\ past'.ended = past.ended
        /\ past'.raced = past.raced /\ past'.replayed = past.replayed
        /\ \A q \in net \ net' : q.issued # 0 => rows[q.issued].family \in past'.lost
    BY DEF Drops
  <1>3. IssuedOnce'
    BY <1>1, <1>2 DEF TokenInv, IssuedOnce
  <1>4. IssuedLive'
    BY <1>1, <1>2 DEF TokenInv, IssuedLive
  <1>5. GraceExplained'
    BY <1>1, <1>2, RowsOf DEF TokenInv, GraceExplained
  <1>6. YesExplained' /\ RevokingExplained' /\ Replays'
    BY <1>1, <1>2 DEF TokenInv, YesExplained, RevokingExplained, Replays
  <1>7. EndedUsed' /\ RotatingRaced' /\ LiveNotEnded'
    BY <1>1, <1>2 DEF TokenInv, EndedUsed, RotatingRaced, LiveNotEnded
  <1>8. QED
    BY <1>3, <1>4, <1>5, <1>6, <1>7 DEF TokenInv

LEMMA ArrivesTokens ==
    ASSUME TypeInv, TokenInv, NEW q \in net, Arrives(q)
    PROVE  TokenInv'
  <1>1. /\ net' = net \ {q} /\ rows' = rows /\ past' = past
        /\ cookie' \in {cookie, 0, q.issued} /\ (q.issued # 0 => cookie' = q.issued)
    BY DEF Arrives
  <1>2. IssuedOnce' /\ IssuedLive'
    BY <1>1 DEF TokenInv, IssuedOnce, IssuedLive
  <1>3. GraceExplained'
    <2>1. CASE q.issued = 0
      BY <1>1, <2>1 DEF TokenInv, GraceExplained
    <2>2. CASE q.issued # 0
      BY <1>1, <2>2 DEF TokenInv, IssuedLive, GraceExplained
    <2>3. QED
      BY <2>1, <2>2
  <1>4. YesExplained' /\ RevokingExplained' /\ Replays'
    BY <1>1 DEF TokenInv, YesExplained, RevokingExplained, Replays
  <1>5. EndedUsed' /\ RotatingRaced' /\ LiveNotEnded'
    BY <1>1 DEF TokenInv, EndedUsed, RotatingRaced, LiveNotEnded
  <1>6. QED
    BY <1>2, <1>3, <1>4, <1>5 DEF TokenInv

LEMMA GraceTokens ==
    ASSUME TypeInv, TokenInv, GraceEnds
    PROVE  TokenInv'
  <1>1. /\ cookie \in 1 .. Len(rows) /\ Len(rows') = Len(rows)
        /\ net' = net /\ cookie' = cookie /\ past' = past
        /\ rows[cookie].revoked = "grace" /\ \A q \in net : q.token # cookie
    BY GraceOK DEF GraceEnds
  <1>2. \A n \in 1 .. Len(rows) :
          /\ rows'[n].family = rows[n].family
          /\ n = cookie => rows'[n].revoked = "yes"
          /\ n # cookie => rows'[n].revoked = rows[n].revoked
    BY GraceOK, RowsType DEF Row, RowsGrow
  <1>3. rows[cookie].family \in past.lost
    BY <1>1 DEF TokenInv, GraceExplained
  <1>4. IssuedOnce' /\ GraceExplained'
    BY <1>1, <1>2 DEF TokenInv, IssuedOnce, GraceExplained
  <1>5. IssuedLive'
    BY <1>1, <1>2, RowsOf DEF TokenInv, IssuedOnce, IssuedLive
  <1>6. YesExplained' /\ Replays'
    BY <1>1, <1>2, <1>3 DEF TokenInv, YesExplained, Replays
  <1>7. RevokingExplained' /\ RotatingRaced'
    BY <1>1, <1>2, RowsOf DEF TokenInv, RevokingExplained, RotatingRaced
  <1>8. EndedUsed' /\ LiveNotEnded'
    BY <1>1, <1>2 DEF TokenInv, EndedUsed, LiveNotEnded
  <1>9. QED
    BY <1>4, <1>5, <1>6, <1>7, <1>8 DEF TokenInv

-----------------------------------------------------------------------------
\* The steps of the server

\* Nothing but the request changes.
LEMMA ReadsTokens ==
    ASSUME TypeInv, TokenInv, NEW q \in net, NEW r, Decides(q, r) \/ Refuses(q, r)
    PROVE  TokenInv'
  <1>1. /\ Handles(q, r) /\ rows' = rows /\ past' = past /\ r.issued = 0
        /\ q.issued = 0 /\ r.token = q.token /\ r.kind = q.kind /\ cookie' = cookie
        /\ \A x \in net' : x \in net \/ x = r
        /\ \A x \in net : x.issued # 0 => x \in net'
    BY DEF Decides, Refuses, Handles, TypeInv, RequestOK
  <1>2. IssuedOnce'
    BY <1>1 DEF TokenInv, IssuedOnce
  <1>3. IssuedLive'
    BY <1>1 DEF TokenInv, IssuedLive
  <1>4. GraceExplained'
    BY <1>1 DEF TokenInv, GraceExplained
  <1>5. YesExplained' /\ Replays'
    BY <1>1 DEF TokenInv, YesExplained, Replays
  <1>6. RevokingExplained'
    <2> SUFFICES ASSUME NEW x \in net', x.kind = "refresh", x.at = "revoke"
                 PROVE  rows[x.token].family \in past.lost \cup past.ended
      BY <1>1 DEF RevokingExplained
    <2>1. CASE x = r
      <3>1. rows[q.token].revoked = "yes" /\ q.token \in 1 .. Len(rows)
        BY <1>1, <2>1, RowsOf DEF Decides, Refuses
      <3>2. QED
        BY <1>1, <2>1, <3>1 DEF TokenInv, YesExplained
    <2>2. QED
      BY <1>1, <2>1 DEF TokenInv, RevokingExplained
  <1>7. RotatingRaced'
    <2> SUFFICES ASSUME NEW x \in net', x.at = "rotate", rows[x.token].family \in past.ended
                 PROVE  rows[x.token].family \in past.raced
      BY <1>1 DEF RotatingRaced
    <2>1. CASE x = r
      <3>1. rows[q.token].revoked = "no" /\ q.token \in 1 .. Len(rows)
        BY <1>1, <2>1, RowsOf DEF Decides, Refuses
      <3>2. QED
        BY <1>1, <2>1, <3>1 DEF TokenInv, LiveNotEnded
    <2>2. QED
      BY <1>1, <2>1 DEF TokenInv, RotatingRaced
  <1>8. EndedUsed' /\ LiveNotEnded'
    BY <1>1 DEF TokenInv, EndedUsed, LiveNotEnded
  <1>9. QED
    BY <1>2, <1>3, <1>4, <1>5, <1>6, <1>7, <1>8 DEF TokenInv

\* A row is added, and the token that it replaces is marked.
LEMMA IssuesTokens ==
    ASSUME TypeInv, TokenInv, NEW q \in net, NEW r, NEW f, Issues(q, r, f),
           \A n \in 1 .. Len(rows) :
               /\ rows'[n].family = rows[n].family
               /\ n = q.token /\ q.at = "rotate" => rows'[n].revoked = "grace"
               /\ ~(n = q.token /\ q.at = "rotate") => rows'[n].revoked = rows[n].revoked,
           q.at = "rotate" => q.kind = "refresh" /\ f = rows[q.token].family,
           f \in past.ended => f \in past.raced
    PROVE  TokenInv'
  <1>1. /\ Handles(q, r) /\ r.at = "answered" /\ r.issued = Len(rows) + 1
        /\ Len(rows') = Len(rows) + 1
        /\ rows'[Len(rows) + 1].family = f /\ rows'[Len(rows) + 1].revoked = "no"
        /\ q.issued = 0 /\ q.at # "answered"
        /\ r.token = q.token /\ r.kind = q.kind /\ cookie' = cookie
        /\ r.heard = q.heard
    BY DEF Issues, Handles, TypeInv, RequestOK
  <1>2. /\ \A x \in net' : x \in net \ {q} \/ x = r
        /\ \A x \in net : x \in net' \/ x = q
        /\ q.heard => r \in net'
    BY <1>1 DEF Handles
  <1>3. /\ past.lost \subseteq past'.lost /\ (~q.heard => f \in past'.lost)
        /\ past'.ended = past.ended /\ past'.raced = past.raced
        /\ past'.replayed = past.replayed
    BY RowsType DEF Issues
  <1>4. Len(rows) \in Nat /\ cookie \in 0 .. Len(rows)
    BY RowsType
  <1>5. \A x \in net \ {q} : /\ x.token \in 0 .. Len(rows) /\ x.issued \in 0 .. Len(rows)
                             /\ x.at \in {"rotate", "revoke"} => x.token \in 1 .. Len(rows)
    BY RowsOf
  <1>6. q.token \in 0 .. Len(rows)
    BY RowsOf
  <1>7. IssuedOnce'
    <2> SUFFICES ASSUME NEW p \in net', p.issued # 0
                 PROVE  /\ p.issued # cookie
                        /\ \A x \in net' : x.token # p.issued /\ (x.issued = p.issued => x = p)
      BY <1>1 DEF IssuedOnce
    <2>1. CASE p = r
      BY <1>1, <1>2, <1>4, <1>5, <1>6, <2>1
    <2>2. CASE p \in net \ {q}
      BY <1>1, <1>2, <1>4, <1>5, <2>2 DEF TokenInv, IssuedOnce
    <2>3. QED
      BY <1>2, <2>1, <2>2
  <1>8. IssuedLive'
    <2> SUFFICES ASSUME NEW p \in net', p.issued # 0
                 PROVE  \/ rows'[p.issued].revoked = "no"
                        \/ /\ rows'[p.issued].revoked = "yes"
                           /\ rows'[p.issued].family \in past'.ended \cup past'.replayed
      BY DEF IssuedLive
    <2>1. CASE p = r
      BY <1>1, <2>1
    <2>2. CASE p \in net \ {q}
      <3>1. p.issued \in 1 .. Len(rows) /\ p.issued # q.token
        BY <1>5, <2>2, RowsOf DEF TokenInv, IssuedOnce
      <3>2. QED
        BY <1>3, <2>2, <3>1 DEF TokenInv, IssuedLive
    <2>3. QED
      BY <1>2, <2>1, <2>2
  <1>9. GraceExplained'
    <2> SUFFICES ASSUME cookie # 0, rows'[cookie].revoked = "grace"
                 PROVE  \/ rows'[cookie].family \in past'.lost
                        \/ \E x \in net' : /\ x.kind = "refresh" /\ x.at = "answered"
                                           /\ x.token = cookie /\ x.issued # 0
      BY <1>1 DEF GraceExplained
    <2>1. CASE cookie = q.token /\ q.at = "rotate"
      BY <1>1, <1>2, <1>3, <1>4, <2>1
    <2>2. CASE ~(cookie = q.token /\ q.at = "rotate")
      BY <1>1, <1>2, <1>3, <1>4, <2>2 DEF TokenInv, GraceExplained
    <2>3. QED
      BY <2>1, <2>2
  <1>10. YesExplained' /\ Replays'
    BY <1>1, <1>3, <1>4 DEF TokenInv, YesExplained, Replays
  <1>11. RevokingExplained' /\ RotatingRaced'
    <2>1. \A n \in 1 .. Len(rows) : rows'[n].family = rows[n].family
      OBVIOUS
    <2>2. \A x \in net' : x.at \in {"rotate", "revoke"} =>
             x \in net /\ rows'[x.token].family = rows[x.token].family
      BY <1>1, <1>2, <1>5, <2>1
    <2>3. RevokingExplained'
      BY <1>3, <2>2 DEF TokenInv, RevokingExplained
    <2>4. RotatingRaced'
      BY <1>3, <2>2 DEF TokenInv, RotatingRaced
    <2>5. QED
      BY <2>3, <2>4
  <1>12. EndedUsed' /\ LiveNotEnded'
    <2>1. \A n \in 1 .. Len(rows') : n \in 1 .. Len(rows) \/ n = Len(rows) + 1
      BY <1>1, <1>4
    <2>2. EndedUsed'
      BY <1>1, <1>3, <1>4 DEF TokenInv, EndedUsed
    <2>3. LiveNotEnded'
      <3> SUFFICES ASSUME NEW n \in 1 .. Len(rows'),
                          rows'[n].family \in past.ended, rows'[n].revoked = "no"
                   PROVE  rows'[n].family \in past.raced
        BY <1>3 DEF LiveNotEnded
      <3>1. CASE n \in 1 .. Len(rows)
        BY <3>1 DEF TokenInv, LiveNotEnded
      <3>2. CASE n = Len(rows) + 1
        BY <1>1, <3>2
      <3>3. QED
        BY <2>1, <3>1, <3>2
    <2>4. QED
      BY <2>2, <2>3
  <1>13. QED
    BY <1>7, <1>8, <1>9, <1>10, <1>11, <1>12 DEF TokenInv

LEMMA LoginTokens ==
    ASSUME TypeInv, TokenInv, NEW q \in net, NEW r, NEW f, LogsIn(q, r, f)
    PROVE  TokenInv'
  <1>1. Issues(q, r, f) /\ q.kind = "login" /\ q.at # "rotate"
    BY DEF LogsIn, TypeInv, RequestOK
  <1>2. \A n \in 1 .. Len(rows) : rows'[n] = rows[n]
    BY DEF LogsIn
  <1>3. f \notin past.ended
    BY RowsType DEF LogsIn, FamiliesUsed, TokenInv, EndedUsed
  <1>4. QED
    BY <1>1, <1>2, <1>3, IssuesTokens

LEMMA RotateTokens ==
    ASSUME TypeInv, TokenInv, NEW q \in net, NEW r, Rotates(q, r)
    PROVE  TokenInv'
  <1>1. /\ Issues(q, r, rows[q.token].family) /\ q.kind = "refresh" /\ q.at = "rotate"
    BY DEF Rotates, TypeInv, RequestOK, FamilyOf
  <1>2. \A n \in 1 .. Len(rows) :
          /\ rows'[n].family = rows[n].family
          /\ n = q.token => rows'[n].revoked = "grace"
          /\ n # q.token => rows'[n].revoked = rows[n].revoked
    BY RowsType DEF Rotates, Row
  <1>3. rows[q.token].family \in past.ended => rows[q.token].family \in past.raced
    BY <1>1 DEF TokenInv, RotatingRaced
  <1>4. QED
    BY <1>1, <1>2, <1>3, IssuesTokens

LEMMA RevokeTokens ==
    ASSUME TypeInv, TokenInv, NEW q \in net, NEW r, Revokes(q, r)
    PROVE  TokenInv'
  <1> DEFINE f == rows[q.token].family
  <1>1. /\ Handles(q, r) /\ q.at = "revoke" /\ r.at = "answered" /\ r.issued = 0
        /\ q.issued = 0 /\ q.token \in 1 .. Len(rows)
        /\ r.token = q.token /\ r.kind = q.kind /\ cookie' = cookie /\ Len(rows') = Len(rows)
        /\ \A x \in net' : x \in net \/ x = r
        /\ \A x \in net : x.issued # 0 => x \in net'
    BY RowsOf DEF Revokes, Handles, TypeInv, RequestOK
  <1>2. \A n \in 1 .. Len(rows) :
          /\ rows'[n].family = rows[n].family
          /\ IF rows[n].family = f /\ rows[n].revoked = "no"
             THEN rows'[n].revoked = "yes" ELSE rows'[n].revoked = rows[n].revoked
    BY RowsType DEF Revokes, FamilyOf, Row
  <1>3. /\ past'.lost = past.lost /\ past.raced \subseteq past'.raced
        /\ past.ended \subseteq past'.ended /\ past.replayed \subseteq past'.replayed
        /\ f \in past'.ended \cup past'.replayed
        /\ past'.ended \subseteq past.ended \cup {f}
        /\ past'.replayed \subseteq past.replayed \cup {f}
    BY DEF Revokes, FamilyOf
  <1>4. f \in past'.lost \cup past'.ended
    <2>1. CASE q.kind = "refresh"
      BY <1>1, <1>3, <2>1 DEF TokenInv, RevokingExplained
    <2>2. CASE q.kind = "logout"
      BY <2>2 DEF Revokes, FamilyOf
    <2>3. QED
      BY <2>1, <2>2 DEF Revokes
  <1>5. f \in past'.ended =>
          ((\E p \in net : p.at = "rotate" /\ rows[p.token].family = f)
             => f \in past'.raced)
    BY <1>3 DEF Revokes, FamilyOf, TokenInv, RotatingRaced
  <1> HIDE DEF f
  <1>6. IssuedOnce'
    BY <1>1 DEF TokenInv, IssuedOnce
  <1>7. IssuedLive'
    BY <1>1, <1>2, <1>3, RowsOf DEF TokenInv, IssuedLive
  <1>8. GraceExplained'
    BY <1>1, <1>2, <1>3, RowsType DEF TokenInv, GraceExplained
  <1>9. YesExplained' /\ Replays'
    BY <1>1, <1>2, <1>3, <1>4 DEF TokenInv, YesExplained, Replays
  <1>10. RevokingExplained'
    BY <1>1, <1>2, <1>3, RowsOf DEF TokenInv, RevokingExplained
  <1>11. RotatingRaced'
    <2> SUFFICES ASSUME NEW p \in net', p.at = "rotate", rows'[p.token].family \in past'.ended
                 PROVE  rows'[p.token].family \in past'.raced
      BY DEF RotatingRaced
    <2>0. p \in net /\ p.token \in 1 .. Len(rows)
      <3>1. p \in net
        BY <1>1
      <3>2. QED
        BY <3>1, RowsOf
    <2>1. p \in net /\ rows'[p.token].family = rows[p.token].family
      BY <1>2, <2>0
    <2>2. RotatingRaced
      BY DEF TokenInv
    <2>3. QED
      BY <1>3, <1>5, <2>1, <2>2 DEF RotatingRaced
  <1>12. EndedUsed'
    <2> SUFFICES ASSUME NEW e \in past'.ended
                 PROVE  \E n \in 1 .. Len(rows) : rows[n].family = e
      BY <1>1, <1>2 DEF EndedUsed
    <2>1. CASE e \in past.ended
      BY <2>1 DEF TokenInv, EndedUsed
    <2>2. CASE e = f
      BY <1>1, <2>2 DEF f
    <2>3. QED
      BY <1>3, <2>1, <2>2
  <1>13. LiveNotEnded'
    BY <1>1, <1>2, <1>3 DEF TokenInv, LiveNotEnded
  <1>14. QED
    BY <1>6, <1>7, <1>8, <1>9, <1>10, <1>11, <1>12, <1>13 DEF TokenInv

LEMMA ServerTokens ==
    ASSUME TypeInv, TokenInv, NEW q \in net, Server(q)
    PROVE  TokenInv'
  BY ServerClass, ReadsTokens, LoginTokens, RotateTokens, RevokeTokens

(***************************************************************************)
(* The invariant                                                           *)
(***************************************************************************)

Inv == TypeInv /\ FlightInv /\ TokenInv

LEMMA InitInv == Init => Inv
  <1> SUFFICES ASSUME Init PROVE Inv
    OBVIOUS
  <1> USE DEF Init
  <1>1. rows \in Seq(Row) /\ Len(rows) = 0 /\ cookie = 0 /\ net = {}
    OBVIOUS
  <1>2. TypeInv
    BY <1>1, ConstantsAssumption DEF TypeInv, TypeOK, Tab, ClosedTab, Call, NoCall
  <1>3. FlightInv
    BY ConstantsAssumption
       DEF FlightInv, OneFlight, ClosedQuiet, ToldApart, ClosedTab, NoCall
  <1>4. TokenInv
    BY <1>1 DEF TokenInv, IssuedOnce, IssuedLive, GraceExplained, YesExplained,
            RevokingExplained, Replays, EndedUsed, RotatingRaced, LiveNotEnded
  <1>5. QED
    BY <1>2, <1>3, <1>4 DEF Inv

\* The types put together again.
LEMMA TypesTogether ==
    ASSUME TypeInv, RequestsOK', PastType, TabsOK',
           lapsed' \in 0 .. MaxLapsed, breaks' \in 0 .. MaxBreaks
    PROVE  TypeInv'
  BY DEF TypeInv, TypeOK, RequestsOK, PastType, TabsOK

LEMMA NextInv == Inv /\ [Next]_vars => Inv'
  <1> SUFFICES ASSUME Inv, [Next]_vars PROVE Inv'
    OBVIOUS
  <1> USE DEF Inv
  <1>1. /\ lapsed \in 0 .. MaxLapsed /\ breaks \in 0 .. MaxBreaks /\ TabsOK
        /\ breaks < MaxBreaks => breaks + 1 \in 0 .. MaxBreaks
    BY TabsType, ConstantsAssumption
  <1>2. ASSUME NEW q \in net, Server(q)
        PROVE  Inv'
    BY <1>1, <1>2, ServerOK, ServerFlight, ServerTokens, TypesTogether DEF TabsOK
  <1>3. ASSUME NEW q \in net, Deliver(q)
        PROVE  Inv'
    <2>1. Arrives(q) /\ lapsed' = lapsed /\ breaks' = breaks
      BY <1>3, DeliverClass DEF Deliver
    <2>2. QED
      BY <1>1, <1>3, <2>1, ArrivesOK, DeliverKeeps, ArrivesTokens, TypesTogether
  <1>4. ASSUME NEW q \in net, Lose(q)
        PROVE  Inv'
    <2>1. Drops /\ PastType /\ lapsed' = lapsed /\ breaks' = breaks + 1 /\ breaks < MaxBreaks
      BY <1>4, LoseClass DEF Lose
    <2>2. QED
      BY <1>1, <1>4, <2>1, DropsOK, LoseKeeps, DropsTokens, TypesTogether
  <1>5. ASSUME NEW c \in Calls, SendCall(c) \/ CallChecked(c)
        PROVE  Inv'
    <2>1. Local /\ lapsed' = lapsed
      BY <1>5 DEF SendCall, CallChecked, Local
    <2>2. QED
      BY <1>1, <1>5, <2>1, LocalOK, CallStepKeeps, LocalTokens, TypesTogether DEF Local
  <1>6. ASSUME NEW c \in Calls, CallRefused(c)
        PROVE  Inv'
    <2>1. lapsed' = lapsed /\ breaks' = breaks
      BY <1>6 DEF CallRefused
    <2>2. TabsOK' /\ FlightInv' /\ (Local \/ \E q : Sends(q))
      BY <1>6, CallRefusedKeeps
    <2>3. QED
      BY <1>1, <2>1, <2>2, LocalOK, LocalTokens, SendsOK, SendsTokens, TypesTogether
  <1>7. ASSUME NEW t \in Tabs, User(t)
        PROVE  Inv'
    <2>1. CASE OpenTab(t)
      <3>1. lapsed' = lapsed /\ breaks' = breaks
        BY <2>1 DEF OpenTab
      <3>2. QED
        BY <1>1, <2>1, <3>1, OpenTabKeeps, SendsOK, SendsTokens, TypesTogether
    <2>2. CASE CloseTab(t)
      <3>1. lapsed' = lapsed /\ breaks' = breaks + 1 /\ breaks < MaxBreaks
        BY <2>2 DEF CloseTab
      <3>2. QED
        BY <1>1, <2>2, <3>1, CloseTabKeeps, CloseClass, DropsOK, DropsTokens, TypesTogether
    <2>3. CASE Navigate(t)
      <3>1. lapsed' = lapsed /\ breaks' = breaks
        BY <2>3 DEF Navigate
      <3>2. QED
        BY <1>1, <2>3, <3>1, NavigateKeeps, LocalOK, LocalTokens, TypesTogether
    <2>4. CASE SubmitLogin(t) \/ SubmitLogout(t)
      <3>1. PICK kind \in {"login", "logout"} :
              /\ Send(kind, t) /\ tab[t].phase = "mounted"
              /\ \A p \in net : p.kind = kind /\ p.from = t => ~p.heard
        <4>1. CASE SubmitLogin(t)
          <5>1. \A p \in net : p.kind = "login" /\ p.from = t => ~p.heard
            BY <4>1 DEF SubmitLogin
          <5>2. QED
            BY <4>1, <5>1 DEF SubmitLogin
        <4>2. CASE SubmitLogout(t)
          BY <4>2 DEF SubmitLogout
        <4>3. QED
          BY <2>4, <4>1, <4>2
      <3>2. UNCHANGED <<rows, lapsed, cookie, tab, call, past, breaks>>
        BY <2>4 DEF SubmitLogin, SubmitLogout
      <3>3. TabsOK' /\ FlightInv' /\ Sends(NewRequest(kind, t))
        BY <3>1, <3>2, SubmitKeeps
      <3>4. QED
        BY <1>1, <3>2, <3>3, SendsOK, SendsTokens, TypesTogether
    <2>5. QED
      BY <1>7, <2>1, <2>2, <2>3, <2>4 DEF User
  <1>8. CASE GraceEnds
    <2>1. UNCHANGED <<lapsed, net, tab, call, breaks>>
      BY <1>8 DEF GraceEnds
    <2>2. QED
      BY <1>1, <1>8, <2>1, GraceOK, QuietFlight, GraceTokens, TypesTogether DEF TabsOK
  <1>9. CASE AccessTokensExpire \/ UNCHANGED vars
    <2>1. Local /\ tab' = tab /\ call' = call /\ lapsed' \in 0 .. MaxLapsed
      BY <1>1, <1>9, RowsType, ConstantsAssumption DEF AccessTokensExpire, Local, vars
    <2>2. QED
      BY <1>1, <2>1, LocalOK, QuietFlight, LocalTokens, TypesTogether DEF TabsOK, Local
  <1>10. QED
    BY <1>2, <1>3, <1>4, <1>5, <1>6, <1>7, <1>8, <1>9 DEF Next

\* The invariant of the tabs and the token rows: what each request on its way carries,
\* who waits for it in its tab, and what a token that is revoked or current says of its
\* family (AuthService.refresh and logout, client.ts doRefresh).
THEOREM Invariance == Spec => []Inv
  <1>1. QED
    BY InitInv, NextInv, PTL DEF Spec

-----------------------------------------------------------------------------
\* What it says

\* Every variable keeps its type: the requests, the rows of refresh_tokens and what the
\* tabs hold in memory (auth_service.py, api/client.ts, stores/auth.ts).
THEOREM TypeCorrect == Spec => []TypeOK
  <1>1. Inv => TypeOK
    BY DEF Inv, TypeInv
  <1>2. QED
    BY <1>1, Invariance, PTL

\* api/client.ts:30: however many calls of a tab are refused at once, whatever breaks and
\* whoever closes the tab meanwhile, it has at most one refresh in flight, refreshInFlight
\* says so, and no call waits for a refresh that nobody has sent.
THEOREM OneRefreshAtATime == Spec => []SingleFlight
  <1>1. Inv => SingleFlight
    BY FlightIsSingle DEF Inv, FlightInv
  <1>2. QED
    BY <1>1, Invariance, PTL

\* auth_service.py:36: any number of tabs that race for a refresh are not taken for a replay.
THEOREM RacesAreNotReplays == Spec => []NoRaceIsReplay
  <1>1. Inv => NoRaceIsReplay
    BY DEF Inv, TokenInv, Replays, NoRaceIsReplay
  <1>2. QED
    BY <1>1, Invariance, PTL

\* AuthService.logout: the family is dead, but for the refreshes that had read a row of it.
THEOREM LogoutRevokes == Spec => []LogoutEndsFamily
  <1>1. Inv => LogoutEndsFamily
    BY RowsType DEF Inv, TokenInv, LiveNotEnded, LogoutEndsFamily
  <1>2. QED
    BY <1>1, Invariance, PTL

\* The cookie that the tabs share stays usable, however their refreshes interleave.
THEOREM CookieStaysUsable == Spec => []CookieIsCurrent
  <1>1. ASSUME Inv
        PROVE  CookieIsCurrent
    <2> SUFFICES ASSUME cookie # 0,
                        rows[cookie].family \notin past.lost \cup past.ended \cup past.replayed,
                        rows[cookie].revoked # "no"
                 PROVE  \E q \in net : /\ q.at = "answered" /\ q.token = cookie
                                       /\ q.issued # 0 /\ rows[q.issued].revoked = "no"
      BY DEF CookieIsCurrent
    <2> USE <1>1 DEF Inv
    <2>1. cookie \in 1 .. Len(rows) /\ rows[cookie] \in Row
      BY RowsType
    <2>2. rows[cookie].revoked # "yes"
      BY <2>1 DEF TokenInv, YesExplained
    <2>3. rows[cookie].revoked = "grace"
      BY <2>1, <2>2 DEF Row
    <2>4. PICK q \in net : /\ q.kind = "refresh" /\ q.at = "answered"
                           /\ q.token = cookie /\ q.issued # 0
      BY <2>3 DEF TokenInv, GraceExplained
    <2>5. rows[q.issued].family = rows[cookie].family
      BY <2>4, RowsOf
    <2>6. QED
      BY <2>4, <2>5 DEF TokenInv, IssuedLive
  <1>2. QED
    BY <1>1, Invariance, PTL
===============================================================================
