--------------------------- MODULE ChatViewProofs ---------------------------
(***************************************************************************)
(* The window shows stored messages only, each question once, and stays    *)
(* aligned with the server unless two of its loads overlap: proofs for any *)
(* number of turns, any history, page size and number of refetches.        *)
(*                                                                         *)
(* Everything rests on what is known of a list of messages relative to the *)
(* stored ones: a page is a slice of them, a list holds stored messages    *)
(* and optimistic questions, and the question of a turn is not in a list   *)
(* and also before the cursor that the list ends at (Late).                *)
(***************************************************************************)
EXTENDS ChatView, SequenceTheorems, TLAPS

Held(m, s) == \E j \in DOMAIN s : s[j] = m

Distinct(s) == \A i, j \in DOMAIN s : s[i] = s[j] => i = j

\* s may have grown to r.
Extended(s, r) == Len(s) <= Len(r) /\ \A i \in 1 .. Len(s) : r[i] = s[i]

\* items are the messages d + 1 to n of s.
Slice(items, s, d, n) ==
    /\ d \in 0 .. n /\ n \in 0 .. Len(s) /\ DOMAIN items = 1 .. n - d
    /\ \A i \in 1 .. n - d : items[i] = s[d + i]

\* The cursor of a page that begins after message d.
From(cursor, s, d, n) ==
    /\ cursor = IF d = 0 THEN None ELSE s[d + 1]
    /\ d # 0 => d < n

\* s[1 .. n] ends a page, with its cursor.
PageTo(items, cursor, s, n) ==
    \E d \in 0 .. n : Slice(items, s, d, n) /\ From(cursor, s, d, n)

IsQuestion(m) == m[1] \in {"temp", "user"}

\* The questions of items are not stored before message c.
Late(items, s, c) ==
    \A i \in DOMAIN items : IsQuestion(items[i]) =>
        \A j \in DOMAIN s : s[j] = <<"user", items[i][2]>> => c <= j

OneEach(items) ==
    \A i, j \in DOMAIN items :
        IsQuestion(items[i]) /\ IsQuestion(items[j]) /\ items[i][2] = items[j][2] => i = j

\* Stored messages and optimistic questions of turns that have begun.
Known(items, s, lp) ==
    /\ \A i \in DOMAIN items : items[i][1] # "temp" => Held(items[i], s)
    /\ \A i \in DOMAIN items : items[i][1] = "temp" => lp[items[i][2]] # "none"

Until(items, cursor, s) ==
    cursor # None => \E c \in DOMAIN s : s[c] = cursor /\ Late(items, s, c)

-----------------------------------------------------------------------------
(* Lists of messages. *)

LEMMA KindOf ==
    /\ \A m \in Message : m[1] \in {"history", "temp", "user", "assistant"}
    /\ \A m \in Message : m[1] # "history" => m[2] \in Turns
    /\ \A m \in Message : m = <<m[1], m[2]>> /\ m # None
    /\ \A k \in Turns : /\ <<"temp", k>> \in Message /\ <<"user", k>> \in Message
                        /\ <<"assistant", k>> \in Message
<1>1. \A m \in Message : m[1] \in {"history", "temp", "user", "assistant"}
  BY DEF Message
<1>2. \A m \in Message : m[1] # "history" => m[2] \in Turns
  BY DEF Message
<1>3. \A m \in Message : m = <<m[1], m[2]>>
  BY DEF Message
<1>4. \A m \in Message : m # None
  BY DEF Message, None
<1>5. \A k \in Turns : /\ <<"temp", k>> \in Message /\ <<"user", k>> \in Message
                       /\ <<"assistant", k>> \in Message
  BY DEF Message
<1> QED
  BY <1>1, <1>2, <1>3, <1>4, <1>5

LEMMA HeldStays ==
  ASSUME NEW s \in Seq(Message), NEW r \in Seq(Message), Extended(s, r), NEW m, Held(m, s)
  PROVE  Held(m, r)
<1>1. PICK j \in DOMAIN s : s[j] = m
  BY DEF Held
<1>2. j \in DOMAIN r /\ r[j] = m
  BY <1>1 DEF Extended
<1> QED
  BY <1>2 DEF Held

LEMMA SliceStays ==
  ASSUME NEW s \in Seq(Message), NEW r \in Seq(Message), Extended(s, r),
         NEW items, NEW d, NEW n, Slice(items, s, d, n)
  PROVE  Slice(items, r, d, n)
<1>1. n \in 0 .. Len(s) /\ d \in 0 .. n /\ n \in 0 .. Len(r)
  BY DEF Slice, Extended
<1>2. \A i \in 1 .. n - d : r[d + i] = s[d + i]
  BY <1>1 DEF Extended
<1> QED
  BY <1>1, <1>2 DEF Slice

LEMMA PageToStays ==
  ASSUME NEW s \in Seq(Message), NEW r \in Seq(Message), Extended(s, r),
         NEW items, NEW cursor, NEW n \in 0 .. Len(s), PageTo(items, cursor, s, n)
  PROVE  PageTo(items, cursor, r, n)
<1>1. PICK d \in 0 .. n : Slice(items, s, d, n) /\ From(cursor, s, d, n)
  BY DEF PageTo
<1>2. Slice(items, r, d, n)
  BY <1>1, SliceStays
<1>3. d # 0 => r[d + 1] = s[d + 1]
  BY <1>1 DEF From, Extended
<1>4. From(cursor, r, d, n)
  BY <1>1, <1>3 DEF From
<1> QED
  BY <1>2, <1>4 DEF PageTo

\* What is stored later is after every message that is stored now.
LEMMA LateStays ==
  ASSUME NEW s \in Seq(Message), NEW r \in Seq(Message), Extended(s, r),
         NEW items, NEW c \in DOMAIN s, Late(items, s, c)
  PROVE  Late(items, r, c)
<1> SUFFICES ASSUME NEW i \in DOMAIN items, IsQuestion(items[i]),
                    NEW j \in DOMAIN r, r[j] = <<"user", items[i][2]>>
             PROVE  c <= j
  BY DEF Late
<1>1. CASE j \in DOMAIN s
  BY <1>1 DEF Extended, Late
<1>2. CASE j \notin DOMAIN s
  BY <1>2
<1> QED
  BY <1>1, <1>2

LEMMA KnownStays ==
  ASSUME NEW s \in Seq(Message), NEW r \in Seq(Message), Extended(s, r),
         NEW lp, NEW lq, \A k \in Turns : lp[k] # "none" => lq[k] # "none",
         NEW items \in Seq(Message), Known(items, s, lp)
  PROVE  Known(items, r, lq)
<1>1. ASSUME NEW i \in DOMAIN items, items[i][1] # "temp"
      PROVE  Held(items[i], r)
  BY <1>1, HeldStays DEF Known
<1>2. ASSUME NEW i \in DOMAIN items, items[i][1] = "temp"
      PROVE  lq[items[i][2]] # "none"
  <2>1. items[i][2] \in Turns
    BY <1>2, KindOf
  <2> QED
    BY <1>2, <2>1 DEF Known
<1> QED
  BY <1>1, <1>2 DEF Known

LEMMA UntilStays ==
  ASSUME NEW s \in Seq(Message), NEW r \in Seq(Message), Extended(s, r),
         NEW items, NEW cursor, Until(items, cursor, s)
  PROVE  Until(items, cursor, r)
<1> SUFFICES ASSUME cursor # None
             PROVE  \E c \in DOMAIN r : r[c] = cursor /\ Late(items, r, c)
  BY DEF Until
<1>1. PICK c \in DOMAIN s : s[c] = cursor /\ Late(items, s, c)
  BY DEF Until
<1>2. c \in DOMAIN r /\ r[c] = cursor
  BY <1>1 DEF Extended
<1> QED
  BY <1>1, <1>2, LateStays

-----------------------------------------------------------------------------
(* The pages of the server. *)

Plain(s) == s \in Seq(Message) /\ Distinct(s) /\ \A i \in DOMAIN s : s[i][1] # "temp"

LEMMA BeforeIs ==
  ASSUME stored \in Seq(Message), Distinct(stored), NEW cursor, NEW n \in 0 .. Len(stored),
         cursor = None => n = Len(stored),
         cursor # None => n + 1 \in DOMAIN stored /\ stored[n + 1] = cursor
  PROVE  /\ Before(cursor) \in Seq(Message) /\ Len(Before(cursor)) = n
         /\ \A i \in 1 .. n : Before(cursor)[i] = stored[i]
<1>1. CASE cursor = None
  BY <1>1 DEF Before
<1>2. CASE cursor # None
  <2>1. n + 1 \in DOMAIN stored /\ stored[n + 1] = cursor
    BY <1>2
  <2> DEFINE p == CHOOSE i \in DOMAIN stored : stored[i] = cursor
  <2>2. p \in DOMAIN stored /\ stored[p] = cursor
    BY <2>1
  <2>3. p = n + 1
    BY <2>1, <2>2 DEF Distinct
  <2>4. Before(cursor) = SubSeq(stored, 1, p - 1)
    BY <1>2 DEF Before
  <2> HIDE DEF p
  <2>5. p - 1 = n
    BY <2>3
  <2>6. Before(cursor) = SubSeq(stored, 1, n)
    BY <2>4, <2>5
  <2> QED
    BY <2>6
<1> QED
  BY <1>1, <1>2
\* The end of a sequence, after its first d elements.
LEMMA EndOf ==
  ASSUME NEW S, NEW r \in Seq(S), NEW n \in Nat, Len(r) = n, NEW d \in 0 .. n
  PROVE  /\ SubSeq(r, d + 1, n) \in Seq(S) /\ Len(SubSeq(r, d + 1, n)) = n - d
         /\ \A i \in 1 .. n - d : SubSeq(r, d + 1, n)[i] = r[d + i]
OBVIOUS

LEMMA PageIs ==
  ASSUME stored \in Seq(Message), Distinct(stored), NEW cursor, NEW n \in 0 .. Len(stored),
         cursor = None => n = Len(stored),
         cursor # None => n + 1 \in DOMAIN stored /\ stored[n + 1] = cursor
  PROVE  /\ Page(cursor) \in Fetch /\ Page(cursor).at = "answered"
         /\ PageTo(Page(cursor).items, Page(cursor).next, stored, n)
<1> DEFINE rows == Before(cursor)
<1>1. rows \in Seq(Message) /\ Len(rows) = n /\ \A i \in 1 .. n : rows[i] = stored[i]
  BY BeforeIs
<1>2. PageSize \in Nat \ {0}
  BY ConstantsAssumption
<1>3. CASE n > PageSize
  <2> DEFINE d == n - PageSize
             kept == SubSeq(rows, d + 1, n)
  <2>1. Page(cursor) = [at |-> "answered", items |-> kept, next |-> kept[1]]
    BY <1>1, <1>3 DEF Page
  <2>2. d \in 0 .. n /\ d # 0 /\ d < n
    BY <1>2, <1>3
  <2>3. kept \in Seq(Message) /\ Len(kept) = n - d /\ \A i \in 1 .. n - d : kept[i] = rows[d + i]
    <3> HIDE DEF rows, d
    <3> QED
      BY <1>1, <2>2, EndOf
  <2>4. \A i \in 1 .. n - d : kept[i] = stored[d + i]
    BY <1>1, <2>2, <2>3
  <2>5. kept[1] = stored[d + 1] /\ kept[1] \in Message
    BY <2>2, <2>3, <2>4
  <2> HIDE DEF d, kept
  <2>6. Slice(kept, stored, d, n) /\ From(kept[1], stored, d, n)
    BY <2>2, <2>3, <2>4, <2>5 DEF Slice, From
  <2> QED
    BY <2>1, <2>2, <2>3, <2>5, <2>6 DEF PageTo, Fetch, Cursors, None
<1>4. CASE ~(n > PageSize)
  <2>1. Page(cursor) = [at |-> "answered", items |-> rows, next |-> None]
    BY <1>1, <1>4 DEF Page
  <2> HIDE DEF rows
  <2>2. Slice(rows, stored, 0, n)
    BY <1>1 DEF Slice
  <2>3. From(None, stored, 0, n)
    BY DEF From
  <2>4. rows \in Seq(Message) /\ None \in Cursors
    BY <1>1 DEF Cursors
  <2>5. Page(cursor) \in Fetch /\ Page(cursor).at = "answered"
        /\ Page(cursor).items = rows /\ Page(cursor).next = None
    BY <2>1, <2>4 DEF Fetch
  <2>6. 0 \in 0 .. n
    OBVIOUS
  <2> QED
    BY <2>2, <2>3, <2>5, <2>6 DEF PageTo
<1> QED
  BY <1>3, <1>4

\* A page shows stored messages, each once, and none from before it.
LEMMA PageShows ==
  ASSUME NEW s, Plain(s), NEW items, NEW d, NEW n, NEW lp, Slice(items, s, d, n)
  PROVE  Known(items, s, lp) /\ OneEach(items) /\ Late(items, s, d + 1)
<1>1. /\ d \in 0 .. n /\ n \in 0 .. Len(s) /\ Len(items) = n - d
      /\ \A i \in 1 .. n - d : items[i] = s[d + i]
  BY DEF Slice
<1>2. \A i \in 1 .. n - d : /\ d + i \in DOMAIN s /\ items[i] = s[d + i] /\ items[i] \in Message
                            /\ items[i][1] # "temp"
  BY <1>1 DEF Plain
<1>3. DOMAIN items = 1 .. n - d
  BY <1>1 DEF Slice
<1>4. Known(items, s, lp)
  BY <1>2, <1>3 DEF Known, Held
<1>5. \A i \in 1 .. n - d : IsQuestion(items[i]) => items[i] = <<"user", items[i][2]>>
  BY <1>2, KindOf DEF IsQuestion
<1>6. OneEach(items)
  <2> SUFFICES ASSUME NEW i \in 1 .. n - d, NEW j \in 1 .. n - d,
                      IsQuestion(items[i]), IsQuestion(items[j]), items[i][2] = items[j][2]
               PROVE  i = j
    BY <1>3 DEF OneEach
  <2>1. items[i] = items[j]
    BY <1>5
  <2>2. d + i = d + j
    BY <1>2, <2>1 DEF Plain, Distinct
  <2> QED
    BY <1>1, <2>2
<1>7. Late(items, s, d + 1)
  <2> SUFFICES ASSUME NEW i \in 1 .. n - d, IsQuestion(items[i]),
                      NEW j \in DOMAIN s, s[j] = <<"user", items[i][2]>>
               PROVE  d + 1 <= j
    BY <1>3 DEF Late
  <2>1. s[j] = s[d + i]
    BY <1>2, <1>5
  <2>2. j = d + i
    BY <1>2, <2>1 DEF Plain, Distinct
  <2> QED
    BY <1>1, <2>2
<1> QED
  BY <1>4, <1>6, <1>7

-----------------------------------------------------------------------------
(* What the window does to its list. *)

\* An earlier page goes before the items it was asked for.
LEMMA JoinShows ==
  ASSUME NEW s, Plain(s), NEW lp, NEW page \in Seq(Message), NEW base \in Seq(Message),
         NEW c \in DOMAIN s, NEW d, Slice(page, s, d, c - 1),
         Late(base, s, c), OneEach(base), Known(base, s, lp)
  PROVE  /\ Known(page \o base, s, lp) /\ OneEach(page \o base)
         /\ Late(page \o base, s, d + 1)
<1> DEFINE all == page \o base
           L == Len(page)
<1>1. Known(page, s, lp) /\ OneEach(page) /\ Late(page, s, d + 1)
  BY PageShows
<1>2. /\ all \in Seq(Message) /\ L \in Nat /\ Len(all) = L + Len(base)
      /\ \A i \in DOMAIN page : all[i] = page[i]
  OBVIOUS
<1>3. \A i \in DOMAIN all : i \notin DOMAIN page => i - L \in DOMAIN base /\ all[i] = base[i - L]
  BY <1>2
<1>4. d + 1 <= c /\ d \in Nat /\ c \in Nat
  BY DEF Slice, Plain
<1>5. \A i \in DOMAIN page : /\ d + i \in DOMAIN s /\ d + i < c /\ page[i] = s[d + i]
                             /\ page[i] \in Message /\ page[i][1] # "temp"
  BY DEF Slice, Plain
<1> HIDE DEF all
<1>6. Known(all, s, lp)
  <2>1. ASSUME NEW i \in DOMAIN all
        PROVE  /\ all[i][1] # "temp" => Held(all[i], s)
               /\ all[i][1] = "temp" => lp[all[i][2]] # "none"
    <3>1. CASE i \in DOMAIN page
      BY <1>1, <1>2, <3>1 DEF Known
    <3>2. CASE i \notin DOMAIN page
      <4> HIDE DEF L
      <4> QED
        BY <1>3, <2>1, <3>2 DEF Known
    <3> QED
      BY <3>1, <3>2
  <2> QED
    BY <2>1 DEF Known
<1>7. ASSUME NEW i \in DOMAIN page, NEW j \in DOMAIN base,
             IsQuestion(page[i]), IsQuestion(base[j])
      PROVE  page[i][2] # base[j][2]
  <2> SUFFICES ASSUME page[i][2] = base[j][2]
               PROVE  FALSE
    OBVIOUS
  <2>1. s[d + i] = <<"user", base[j][2]>>
    BY <1>5, <1>7, KindOf DEF IsQuestion
  <2>2. c <= d + i
    BY <1>5, <1>7, <2>1 DEF Late
  <2> QED
    BY <1>4, <1>5, <2>2 DEF Slice
<1>8. OneEach(all)
  <2> SUFFICES ASSUME NEW i \in DOMAIN all, NEW j \in DOMAIN all,
                      IsQuestion(all[i]), IsQuestion(all[j]), all[i][2] = all[j][2]
               PROVE  i = j
    BY DEF OneEach
  <2>1. CASE i \in DOMAIN page /\ j \in DOMAIN page
    BY <1>1, <1>2, <2>1 DEF OneEach
  <2>2. CASE i \in DOMAIN page /\ j \notin DOMAIN page
    BY <1>2, <1>3, <1>7, <2>2
  <2>3. CASE i \notin DOMAIN page /\ j \in DOMAIN page
    BY <1>2, <1>3, <1>7, <2>3
  <2>4. CASE i \notin DOMAIN page /\ j \notin DOMAIN page
    <3> HIDE DEF L
    <3>1. i - L = j - L
      BY <1>3, <2>4 DEF OneEach
    <3> QED
      BY <1>2, <3>1
  <2> QED
    BY <2>1, <2>2, <2>3, <2>4
<1>9. Late(all, s, d + 1)
  <2> SUFFICES ASSUME NEW i \in DOMAIN all, IsQuestion(all[i]),
                      NEW j \in DOMAIN s, s[j] = <<"user", all[i][2]>>
               PROVE  d + 1 <= j
    BY DEF Late
  <2>1. CASE i \in DOMAIN page
    BY <1>1, <1>2, <2>1 DEF Late
  <2>2. CASE i \notin DOMAIN page
    <3> HIDE DEF L
    <3>1. c <= j
      BY <1>3, <2>2 DEF Late
    <3>2. j \in Nat
      BY DEF Plain
    <3> QED
      BY <1>4, <3>1, <3>2
  <2> QED
    BY <2>1, <2>2
<1> QED
  BY <1>6, <1>8, <1>9 DEF all

LEMMA AppendIs ==
  ASSUME NEW items \in Seq(Message), NEW m \in Message
  PROVE  /\ Append(items, m) \in Seq(Message)
         /\ \A i \in DOMAIN Append(items, m) :
              \/ i \in DOMAIN items /\ Append(items, m)[i] = items[i]
              \/ i = Len(items) + 1 /\ Append(items, m)[i] = m
OBVIOUS

\* A question is put on the list when its turn has begun and nothing of it is there.
LEMMA AskShows ==
  ASSUME NEW s \in Seq(Message), NEW lp, NEW items \in Seq(Message), NEW k \in Turns,
         Known(items, s, lp), OneEach(items), lp[k] # "none", ~Held(<<"user", k>>, s),
         \A i \in DOMAIN items : items[i] # <<"temp", k>>
  PROVE  LET more == Append(items, <<"temp", k>>)
         IN  /\ more \in Seq(Message) /\ Known(more, s, lp) /\ OneEach(more)
             /\ \A c \in DOMAIN s : Late(items, s, c) => Late(more, s, c)
<1> DEFINE m == <<"temp", k>>
           more == Append(items, m)
<1>1. m \in Message /\ m[1] = "temp" /\ m[2] = k
  BY KindOf
<1>2. /\ more \in Seq(Message)
      /\ \A i \in DOMAIN more : \/ i \in DOMAIN items /\ more[i] = items[i]
                                \/ i = Len(items) + 1 /\ more[i] = m
  BY <1>1, AppendIs
<1>3. \A i \in DOMAIN items : IsQuestion(items[i]) => items[i][2] # k
  <2> SUFFICES ASSUME NEW i \in DOMAIN items, IsQuestion(items[i]), items[i][2] = k
               PROVE  FALSE
    OBVIOUS
  <2>1. items[i] = <<"user", k>>
    BY KindOf DEF IsQuestion
  <2> QED
    BY <2>1 DEF Known
<1> HIDE DEF more, m
<1>4. Known(more, s, lp)
  BY <1>1, <1>2 DEF Known
<1>5. OneEach(more)
  <2> SUFFICES ASSUME NEW i \in DOMAIN more, NEW j \in DOMAIN more,
                      IsQuestion(more[i]), IsQuestion(more[j]), more[i][2] = more[j][2]
               PROVE  i = j
    BY DEF OneEach
  <2> QED
    BY <1>1, <1>2, <1>3 DEF OneEach
<1>6. ASSUME NEW c \in DOMAIN s, Late(items, s, c)
      PROVE  Late(more, s, c)
  <2> SUFFICES ASSUME NEW i \in DOMAIN more, IsQuestion(more[i]),
                      NEW j \in DOMAIN s, s[j] = <<"user", more[i][2]>>
               PROVE  c <= j
    BY DEF Late
  <2>1. CASE i \in DOMAIN items /\ more[i] = items[i]
    BY <1>6, <2>1 DEF Late
  <2>2. CASE more[i] = m
    BY <1>1, <2>2 DEF Held
  <2> QED
    BY <1>2, <2>1, <2>2
<1> QED
  BY <1>2, <1>4, <1>5, <1>6 DEF more, m

LEMMA AnswerShows ==
  ASSUME NEW s, NEW lp, NEW items \in Seq(Message), NEW k \in Turns,
         Known(items, s, lp), OneEach(items), Held(<<"assistant", k>>, s)
  PROVE  LET more == Append(items, <<"assistant", k>>)
         IN  /\ more \in Seq(Message) /\ Known(more, s, lp) /\ OneEach(more)
             /\ \A c \in DOMAIN s : Late(items, s, c) => Late(more, s, c)
<1> DEFINE m == <<"assistant", k>>
           more == Append(items, m)
<1>1. m \in Message /\ m[1] # "temp" /\ ~IsQuestion(m)
  BY KindOf DEF IsQuestion
<1>2. /\ more \in Seq(Message)
      /\ \A i \in DOMAIN more : \/ i \in DOMAIN items /\ more[i] = items[i]
                                \/ i = Len(items) + 1 /\ more[i] = m
  BY <1>1, AppendIs
<1>3. Held(m, s)
  OBVIOUS
<1> HIDE DEF more, m
<1>4. Known(more, s, lp)
  BY <1>1, <1>2, <1>3 DEF Known
<1>5. OneEach(more)
  BY <1>1, <1>2 DEF OneEach
<1>6. \A c \in DOMAIN s : Late(items, s, c) => Late(more, s, c)
  BY <1>1, <1>2 DEF Late
<1> QED
  BY <1>2, <1>4, <1>5, <1>6 DEF more, m

\* The list of messages once the optimistic question has its real id.
Renamed(items, k) ==
    [i \in DOMAIN items |-> IF items[i] = <<"temp", k>> THEN <<"user", k>> ELSE items[i]]

\* The optimistic question gets its real id.
LEMMA RenameShows ==
  ASSUME NEW s, NEW lp, NEW items \in Seq(Message), NEW k \in Turns,
         Known(items, s, lp), OneEach(items), Held(<<"user", k>>, s)
  PROVE  /\ Renamed(items, k) \in Seq(Message) /\ Known(Renamed(items, k), s, lp)
         /\ OneEach(Renamed(items, k))
         /\ \A c \in DOMAIN s : Late(items, s, c) => Late(Renamed(items, k), s, c)
<1> DEFINE t == <<"temp", k>>
           u == <<"user", k>>
           list == [i \in DOMAIN items |-> IF items[i] = t THEN u ELSE items[i]]
<1>1. u \in Message /\ u[1] = "user" /\ u[2] = k /\ t[1] = "temp" /\ t[2] = k
  BY KindOf
<1>2. Held(u, s) /\ Renamed(items, k) = list
  BY DEF Renamed
<1> HIDE DEF t, u
<1>3. list \in Seq(Message) /\ DOMAIN list = DOMAIN items
  BY <1>1
<1>4. \A i \in DOMAIN items : list[i] = items[i] \/ (list[i] = u /\ items[i] = t)
  BY DEF list
<1> HIDE DEF list
<1>5. \A i \in DOMAIN items : list[i][2] = items[i][2]
                              /\ (IsQuestion(list[i]) <=> IsQuestion(items[i]))
  BY <1>1, <1>4 DEF IsQuestion
<1>6. Known(list, s, lp)
  BY <1>1, <1>2, <1>3, <1>4 DEF Known
<1>7. OneEach(list)
  <2> SUFFICES ASSUME NEW i \in DOMAIN items, NEW j \in DOMAIN items,
                      IsQuestion(list[i]), IsQuestion(list[j]), list[i][2] = list[j][2]
               PROVE  i = j
    BY <1>3 DEF OneEach
  <2> QED
    BY <1>5 DEF OneEach
<1>8. \A c \in DOMAIN s : Late(items, s, c) => Late(list, s, c)
  BY <1>3, <1>5 DEF Late
<1> QED
  BY <1>2, <1>3, <1>6, <1>7, <1>8

-----------------------------------------------------------------------------
(* The invariant. *)

\* Rows are distinct, and stored at the moment the server has reached in a turn.
StoredOK ==
    /\ Plain(stored)
    /\ \A k \in Turns : Held(<<"user", k>>, stored) => server[k] \in {"answering", "over"}
    /\ \A k \in Turns : Held(<<"assistant", k>>, stored) => server[k] = "over"
    /\ \A k \in Turns : loop[k] = "none" => server[k] = "none" /\ events[k] = <<>>

\* An event is sent after the row it tells of is stored.
EventsOK ==
    \A k \in Turns : \A i \in DOMAIN events[k] :
        /\ events[k][i] = "message_start" => Held(<<"user", k>>, stored)
        /\ events[k][i] = "done" => Held(<<"assistant", k>>, stored)

ListOK ==
    /\ Known(cache.items, stored, loop)
    /\ OneEach(cache.items)
    /\ Until(cache.items, cache.earlierCursor, stored)

\* The answer to a fetch is a page up to some message that was then the last.
FetchOK ==
    fetch.at = "answered" =>
        \E n \in 0 .. Len(stored) : PageTo(fetch.items, fetch.next, stored, n)

\* The items that were read, and the page that ends where they begin.
EarlierOK ==
    earlier.load.at # "none" =>
        /\ Known(earlier.base, stored, loop)
        /\ OneEach(earlier.base)
        /\ \E c \in DOMAIN stored :
              /\ stored[c] = earlier.cursor
              /\ Late(earlier.base, stored, c)
              /\ earlier.load.at = "answered" =>
                    PageTo(earlier.load.items, earlier.load.next, stored, c - 1)

ViewInv == TypeOK /\ StoredOK /\ EventsOK /\ ListOK /\ FetchOK /\ EarlierOK

LEMMA InitInv == Init => ViewInv
<1> SUFFICES ASSUME Init PROVE ViewInv
  OBVIOUS
<1>1. /\ stored \in Seq(Message) /\ DOMAIN stored = 1 .. History
      /\ \A i \in 1 .. History : stored[i] = <<"history", i>>
  BY ConstantsAssumption DEF Init, Message
<1>2. Idle \in Fetch /\ Asked \in Fetch /\ None \in Cursors
  BY DEF Idle, Asked, Fetch, Cursors
<1>3. TypeOK
  <2>1. /\ server \in [Turns -> {"none", "posted", "answering", "over"}]
        /\ events \in [Turns -> Seq(Event)]
        /\ loop \in [Turns -> {"none", "open", "closed"}]
    BY DEF Init
  <2>2. cache \in Cache /\ <<>> \in Seq(Message)
    BY <1>2 DEF Init, Cache
  <2>3. fetch \in Fetch /\ earlier \in [load : Fetch, base : Seq(Message), cursor : Cursors]
    BY <1>2, <2>2 DEF Init
  <2>4. current \in 0 .. MaxTurns /\ focus \in 0 .. MaxFocus
    BY ConstantsAssumption DEF Init
  <2>5. status \in {"idle", "streaming", "done", "error"} /\ overlap \in BOOLEAN
    BY DEF Init
  <2> QED
    BY <1>1, <2>1, <2>2, <2>3, <2>4, <2>5 DEF TypeOK
<1>4. Plain(stored)
  <2>1. \A i \in DOMAIN stored : stored[i][1] = "history" /\ stored[i][2] = i
    BY <1>1
  <2> QED
    BY <1>1, <2>1 DEF Plain, Distinct
<1>5. \A m : Held(m, stored) => m[1] = "history"
  BY <1>1 DEF Held
<1>6. StoredOK
  <2>1. \A k \in Turns : ~Held(<<"user", k>>, stored) /\ ~Held(<<"assistant", k>>, stored)
    BY <1>5
  <2>2. \A k \in Turns : server[k] = "none" /\ events[k] = <<>>
    BY DEF Init
  <2> QED
    BY <1>4, <2>1, <2>2 DEF StoredOK
<1>7. EventsOK
  BY DEF EventsOK, Init
<1>8. ListOK
  BY DEF ListOK, Init, Known, OneEach, Until
<1>9. FetchOK /\ EarlierOK
  BY DEF FetchOK, EarlierOK, Init, Asked, Idle
<1> QED
  BY <1>3, <1>6, <1>7, <1>8, <1>9 DEF ViewInv

-----------------------------------------------------------------------------
(* What a step leaves alone stays as it should be. *)

LEMMA ListsStay ==
  ASSUME ViewInv, stored' \in Seq(Message), Extended(stored, stored'),
         \A k \in Turns : loop[k] # "none" => loop'[k] # "none"
  PROVE  /\ cache' = cache => ListOK'
         /\ fetch' = fetch => FetchOK'
         /\ earlier' = earlier => EarlierOK'
<1> USE DEF ViewInv
<1>1. stored \in Seq(Message) /\ cache.items \in Seq(Message)
  BY DEF TypeOK, Cache
<1>2. ASSUME cache' = cache
      PROVE  ListOK'
  <2>1. /\ Known(cache.items, stored, loop) /\ OneEach(cache.items)
        /\ Until(cache.items, cache.earlierCursor, stored)
    BY DEF ListOK
  <2>2. Known(cache.items, stored', loop')
    BY <1>1, <2>1, KnownStays
  <2>3. Until(cache.items, cache.earlierCursor, stored')
    BY <1>1, <2>1, UntilStays
  <2> QED
    BY <1>2, <2>1, <2>2, <2>3 DEF ListOK
<1>3. ASSUME fetch' = fetch
      PROVE  FetchOK'
  <2> SUFFICES ASSUME fetch.at = "answered"
               PROVE  \E n \in 0 .. Len(stored') : PageTo(fetch.items, fetch.next, stored', n)
    BY <1>3 DEF FetchOK
  <2>1. PICK n \in 0 .. Len(stored) : PageTo(fetch.items, fetch.next, stored, n)
    BY DEF FetchOK
  <2>2. PageTo(fetch.items, fetch.next, stored', n)
    BY <1>1, <2>1, PageToStays
  <2>3. n \in 0 .. Len(stored')
    BY <1>1 DEF Extended
  <2> QED
    BY <2>2, <2>3
<1>4. ASSUME earlier' = earlier
      PROVE  EarlierOK'
  <2> SUFFICES ASSUME earlier.load.at # "none"
               PROVE  /\ Known(earlier.base, stored', loop') /\ OneEach(earlier.base)
                      /\ \E c \in DOMAIN stored' :
                            /\ stored'[c] = earlier.cursor
                            /\ Late(earlier.base, stored', c)
                            /\ earlier.load.at = "answered" =>
                                  PageTo(earlier.load.items, earlier.load.next, stored', c - 1)
    BY <1>4 DEF EarlierOK
  <2>1. earlier.base \in Seq(Message)
    BY DEF TypeOK
  <2>2. Known(earlier.base, stored, loop) /\ OneEach(earlier.base)
    BY DEF EarlierOK
  <2>3. Known(earlier.base, stored', loop')
    BY <1>1, <2>1, <2>2, KnownStays
  <2>4. PICK c \in DOMAIN stored :
              /\ stored[c] = earlier.cursor
              /\ Late(earlier.base, stored, c)
              /\ earlier.load.at = "answered" =>
                    PageTo(earlier.load.items, earlier.load.next, stored, c - 1)
    BY DEF EarlierOK
  <2>5. c \in DOMAIN stored' /\ stored'[c] = earlier.cursor
    BY <1>1, <2>4 DEF Extended
  <2>6. Late(earlier.base, stored', c)
    BY <1>1, <2>4, LateStays
  <2>7. c - 1 \in 0 .. Len(stored)
    BY <1>1
  <2>8. earlier.load.at = "answered" =>
           PageTo(earlier.load.items, earlier.load.next, stored', c - 1)
    BY <1>1, <2>4, <2>7, PageToStays
  <2> QED
    BY <2>2, <2>3, <2>5, <2>6, <2>8
<1> QED
  BY <1>2, <1>3, <1>4

\* A step of the window stores nothing, and loses or reads events.
LEMMA StoredStays ==
  ASSUME ViewInv, UNCHANGED <<stored, server>>,
         \A k \in Turns : loop'[k] = "none" => loop[k] = "none",
         \A k \in Turns : events'[k] \in {events[k], <<>>}
                          \/ (events[k] # <<>> /\ events'[k] = Tail(events[k]))
  PROVE  StoredOK' /\ EventsOK'
<1> USE DEF ViewInv
<1>1. stored' = stored /\ server' = server /\ \A k \in Turns : events[k] \in Seq(Event)
  BY DEF TypeOK
<1>2. \A k \in Turns : loop'[k] = "none" => server[k] = "none" /\ events'[k] = <<>>
  BY <1>1 DEF StoredOK
<1>3. StoredOK'
  BY <1>1, <1>2 DEF StoredOK
<1>4. ASSUME NEW k \in Turns, NEW i \in DOMAIN events'[k]
      PROVE  \E j \in DOMAIN events[k] : events'[k][i] = events[k][j]
  <2>1. CASE events'[k] \in {events[k], <<>>}
    BY <1>4, <2>1
  <2>2. CASE events[k] # <<>> /\ events'[k] = Tail(events[k])
    <3>1. i + 1 \in DOMAIN events[k] /\ events'[k][i] = events[k][i + 1]
      BY <1>1, <1>4, <2>2
    <3> QED
      BY <3>1
  <2> QED
    BY <2>1, <2>2
<1>5. EventsOK'
  <2> SUFFICES ASSUME NEW k \in Turns, NEW i \in DOMAIN events'[k]
               PROVE  /\ events'[k][i] = "message_start" => Held(<<"user", k>>, stored)
                      /\ events'[k][i] = "done" => Held(<<"assistant", k>>, stored)
    BY <1>1 DEF EventsOK
  <2>1. PICK j \in DOMAIN events[k] : events'[k][i] = events[k][j]
    BY <1>4
  <2> QED
    BY <2>1 DEF EventsOK
<1> QED
  BY <1>3, <1>5

-----------------------------------------------------------------------------
(* The steps of the server. *)

\* What every step of the server does: it stores at most the row its state allows,
\* and sends at most one event, of a row that is then stored.
Served(k, to, new, event) ==
    /\ \/ /\ server[k] = "posted" /\ to = "answering"
          /\ new = << <<"user", k>> >> /\ event = <<"message_start">>
       \/ /\ server[k] = "posted" /\ to = "over"
          /\ new = <<>> /\ event \in {<<>>, <<"rejected">>}
       \/ /\ server[k] = "answering" /\ to = "over"
          /\ new = << <<"assistant", k>> >> /\ event = <<"done">>
       \/ /\ server[k] = "answering" /\ to = "over"
          /\ new \in Partial(k) /\ event \in {<<>>, <<"error">>}
    /\ server' = [server EXCEPT ![k] = to]
    /\ stored' = stored \o new
    /\ events' = [events EXCEPT ![k] = @ \o event]
    /\ UNCHANGED <<loop, viewVars, overlap, focus>>

\* One row is stored after the others, and which one.
Grown(new, m) ==
    /\ new = <<m>> /\ stored' \in Seq(Message) /\ Len(stored') = Len(stored) + 1
    /\ \A i \in 1 .. Len(stored) : stored'[i] = stored[i]
    /\ stored'[Len(stored) + 1] = m

MayStore(k, to, m) ==
    /\ m = <<"user", k>> => server[k] = "posted"
    /\ m = <<"assistant", k>> => server[k] = "answering" /\ to = "over"

LEMMA ServerIs ==
  ASSUME NEW k \in Turns, Server(k)
  PROVE  \E to, new, event : Served(k, to, new, event)
<1> DEFINE u == << <<"user", k>> >>
           a == << <<"assistant", k>> >>
<1>1. CASE Accept(k)
  <2>1. Served(k, "answering", u, <<"message_start">>)
    BY <1>1 DEF Accept, ServerStep, Served
  <2> QED
    BY <2>1
<1>2. CASE Reject(k)
  <2>1. Served(k, "over", <<>>, <<"rejected">>)
    BY <1>2 DEF Reject, ServerStep, Served
  <2> QED
    BY <2>1
<1>3. CASE Finish(k)
  <2>1. Served(k, "over", a, <<"done">>)
    BY <1>3 DEF Finish, ServerStep, Served
  <2> QED
    BY <2>1
<1>4. CASE Break(k)
  <2>1. PICK new \in Partial(k) : ServerStep(k, {"answering"}, "over", new, <<"error">>)
    BY <1>4 DEF Break
  <2>2. Served(k, "over", new, <<"error">>)
    BY <2>1 DEF ServerStep, Served
  <2> QED
    BY <2>2
<1>5. CASE Abandon(k)
  <2>1. CASE \E new \in Partial(k) : ServerStep(k, {"answering"}, "over", new, <<>>)
    <3>1. PICK new \in Partial(k) : ServerStep(k, {"answering"}, "over", new, <<>>)
      BY <2>1
    <3>2. Served(k, "over", new, <<>>)
      BY <3>1 DEF ServerStep, Served
    <3> QED
      BY <3>2
  <2>2. CASE ServerStep(k, {"posted"}, "over", <<>>, <<>>)
    <3>1. Served(k, "over", <<>>, <<>>)
      BY <2>2 DEF ServerStep, Served
    <3> QED
      BY <3>1
  <2> QED
    BY <1>5, <2>1, <2>2 DEF Abandon
<1>6. CASE Stop(k)
  <2>1. Served(k, "over", <<>>, <<>>)
    BY <1>6 DEF Stop, ServerStep, Served, Partial
  <2> QED
    BY <2>1
<1> QED
  BY <1>1, <1>2, <1>3, <1>4, <1>5, <1>6 DEF Server

LEMMA ServerKeeps ==
  ASSUME ViewInv, NEW k \in Turns, Server(k)
  PROVE  ViewInv' /\ Extended(stored, stored')
<1> USE DEF ViewInv
<1> DEFINE u == <<"user", k>>
           a == <<"assistant", k>>
<1>1. PICK to, new, event : Served(k, to, new, event)
  BY ServerIs
<1>2. /\ stored \in Seq(Message) /\ server \in [Turns -> {"none", "posted", "answering", "over"}]
      /\ events \in [Turns -> Seq(Event)]
  BY DEF TypeOK
<1>3. u \in Message /\ a \in Message /\ u[1] = "user" /\ a[1] = "assistant" /\ u # a
  BY KindOf
<1>4. /\ server[k] \in {"posted", "answering"} /\ to \in {"answering", "over"}
      /\ \/ new = <<>>
         \/ new = <<u>> /\ server[k] = "posted"
         \/ new = <<a>> /\ server[k] = "answering" /\ to = "over"
      /\ \/ event \in {<<>>, <<"error">>, <<"rejected">>}
         \/ event = <<"message_start">> /\ new = <<u>>
         \/ event = <<"done">> /\ new = <<a>>
      /\ server' = [server EXCEPT ![k] = to]
      /\ stored' = stored \o new
      /\ events' = [events EXCEPT ![k] = @ \o event]
  BY <1>1 DEF Served, Partial
<1>5. UNCHANGED <<loop, status, current, cache, fetch, earlier, overlap, focus>>
  BY <1>1 DEF Served, viewVars
<1> HIDE DEF u, a
<1>6. \/ new = <<>> /\ stored' = stored
      \/ \E m \in {u, a} : Grown(new, m) /\ MayStore(k, to, m)
  <2>1. CASE new = <<>>
    BY <1>2, <1>4, <2>1
  <2>2. ASSUME NEW m \in {u, a}, new = <<m>>
        PROVE  Grown(new, m)
    <3>1. m \in Message /\ stored' = stored \o <<m>>
      BY <1>3, <1>4, <2>2
    <3> QED
      BY <1>2, <2>2, <3>1 DEF Grown
  <2>3. CASE new = <<u>> /\ server[k] = "posted"
    <3>1. Grown(new, u) /\ MayStore(k, to, u)
      BY <1>3, <2>2, <2>3 DEF MayStore, u
    <3> QED
      BY <3>1
  <2>4. CASE new = <<a>> /\ server[k] = "answering" /\ to = "over"
    <3>1. Grown(new, a) /\ MayStore(k, to, a)
      BY <1>3, <2>2, <2>4 DEF MayStore, a
    <3> QED
      BY <3>1
  <2> QED
    BY <1>4, <2>1, <2>3, <2>4
<1>7. Extended(stored, stored') /\ stored' \in Seq(Message)
  <2>1. CASE stored' = stored
    BY <1>2, <2>1 DEF Extended
  <2>2. CASE \E m : Grown(new, m)
    BY <1>2, <2>2 DEF Extended, Grown
  <2> QED
    BY <1>6, <2>1, <2>2
<1>8. event \in Seq(Event)
  <2>1. \A e \in Event : <<e>> \in Seq(Event)
    OBVIOUS
  <2>2. <<>> \in Seq(Event)
    OBVIOUS
  <2>3. {"message_start", "done", "error", "rejected"} = Event
    BY DEF Event
  <2> HIDE DEF Event
  <2> QED
    BY <1>4, <2>1, <2>2, <2>3
<1>9. TypeOK'
  <2>1. server' \in [Turns -> {"none", "posted", "answering", "over"}]
    BY <1>2, <1>4
  <2>2. events' \in [Turns -> Seq(Event)]
    BY <1>2, <1>4, <1>8
  <2> QED
    BY <1>5, <1>7, <2>1, <2>2 DEF TypeOK
<1>10. ~Held(u, stored) \/ server[k] # "posted"
  BY DEF StoredOK, u
<1>11. ~Held(a, stored) \/ server[k] = "over"
  BY DEF StoredOK, a
<1>12. Plain(stored')
  <2>1. CASE stored' = stored
    BY <2>1 DEF StoredOK
  <2>2. CASE stored' # stored
    <3>1. PICK m \in {u, a} : Grown(new, m) /\ MayStore(k, to, m)
      BY <1>6, <2>2
    <3>2. ~Held(m, stored) /\ m[1] # "temp"
      BY <1>3, <1>10, <1>11, <3>1 DEF MayStore, u, a
    <3>3. \A i \in 1 .. Len(stored) : stored[i] # m
      BY <1>2, <3>2 DEF Held
    <3>4. /\ stored' \in Seq(Message) /\ Len(stored') = Len(stored) + 1
          /\ \A i \in 1 .. Len(stored) : stored'[i] = stored[i]
          /\ stored'[Len(stored) + 1] = m
          /\ \A i \in DOMAIN stored' : i \in 1 .. Len(stored) \/ i = Len(stored) + 1
      BY <1>2, <3>1 DEF Grown
    <3>5. Distinct(stored) /\ \A i \in 1 .. Len(stored) : stored[i][1] # "temp"
      BY <1>2 DEF StoredOK, Plain
    <3>6. Distinct(stored')
      <4> SUFFICES ASSUME NEW i \in DOMAIN stored', NEW j \in DOMAIN stored', stored'[i] = stored'[j]
                   PROVE  i = j
        BY DEF Distinct
      <4>1. CASE i \in 1 .. Len(stored) /\ j \in 1 .. Len(stored)
        <5>1. i \in DOMAIN stored /\ j \in DOMAIN stored /\ stored[i] = stored[j]
          BY <1>2, <3>4, <4>1
        <5> QED
          BY <3>5, <5>1 DEF Distinct
      <4>2. CASE i = Len(stored) + 1 \/ j = Len(stored) + 1
        BY <3>3, <3>4, <4>2
      <4> QED
        BY <3>4, <4>1, <4>2
    <3> QED
      BY <3>2, <3>4, <3>5, <3>6 DEF Plain
  <2> QED
    BY <1>6, <2>1, <2>2
<1>13. ASSUME NEW m, Held(m, stored')
       PROVE  Held(m, stored) \/ (new = <<m>> /\ m \in {u, a})
  <2>1. PICK j \in DOMAIN stored' : stored'[j] = m
    BY <1>13 DEF Held
  <2>2. CASE stored' = stored
    BY <2>1, <2>2 DEF Held
  <2>3. CASE stored' # stored
    <3>1. PICK x \in {u, a} : Grown(new, x)
      BY <1>6, <2>3
    <3>2. (j \in 1 .. Len(stored) /\ stored[j] = m) \/ (new = <<m>> /\ m = x)
      BY <1>2, <2>1, <3>1 DEF Grown
    <3> QED
      BY <1>2, <3>2 DEF Held
  <2> QED
    BY <1>6, <2>2, <2>3
<1>14. \A j \in Turns : server'[j] = IF j = k THEN to ELSE server[j]
  BY <1>2, <1>4
<1>15. StoredOK'
  <2>1. ASSUME NEW j \in Turns, Held(<<"user", j>>, stored')
        PROVE  server'[j] \in {"answering", "over"}
    <3>1. CASE Held(<<"user", j>>, stored)
      BY <1>4, <1>14, <3>1 DEF StoredOK
    <3>2. CASE <<"user", j>> \in {u, a}
      <4>1. j = k
        BY <3>2 DEF u, a
      <4> QED
        BY <1>4, <1>14, <4>1
    <3> QED
      BY <1>13, <2>1, <3>1, <3>2
  <2>2. ASSUME NEW j \in Turns, Held(<<"assistant", j>>, stored')
        PROVE  server'[j] = "over"
    <3>1. CASE Held(<<"assistant", j>>, stored)
      BY <1>4, <1>14, <3>1 DEF StoredOK
    <3>2. CASE new = << <<"assistant", j>> >> /\ <<"assistant", j>> \in {u, a}
      <4>1. j = k /\ new = <<a>>
        BY <3>2 DEF u, a
      <4>2. <<a>> # <<>> /\ <<a>> # <<u>>
        BY <1>3
      <4>3. to = "over"
        BY <1>4, <4>1, <4>2
      <4> QED
        BY <1>14, <4>1, <4>3
    <3> QED
      BY <1>13, <2>2, <3>1, <3>2
  <2>3. ASSUME NEW j \in Turns, loop'[j] = "none"
        PROVE  server'[j] = "none" /\ events'[j] = <<>>
    <3>1. server[j] = "none" /\ events[j] = <<>>
      BY <1>5, <2>3 DEF StoredOK
    <3>2. j # k
      BY <1>4, <3>1
    <3> QED
      BY <1>2, <1>4, <3>1, <3>2
  <2> QED
    BY <1>12, <2>1, <2>2, <2>3 DEF StoredOK
<1>16. \A m : Held(m, stored) => Held(m, stored')
  BY <1>2, <1>7, HeldStays
<1>17. EventsOK'
  <2> SUFFICES ASSUME NEW j \in Turns, NEW i \in DOMAIN events'[j]
               PROVE  /\ events'[j][i] = "message_start" => Held(<<"user", j>>, stored')
                      /\ events'[j][i] = "done" => Held(<<"assistant", j>>, stored')
    BY DEF EventsOK
  <2>1. CASE j # k \/ i \in DOMAIN events[j]
    <3>1. i \in DOMAIN events[j] /\ events'[j][i] = events[j][i]
      BY <1>2, <1>4, <1>8, <2>1
    <3> QED
      BY <1>16, <3>1 DEF EventsOK
  <2>2. CASE j = k /\ i \notin DOMAIN events[j]
    <3>1. Len(event) \in {0, 1} /\ (Len(event) = 1 => event = <<event[1]>>)
      BY <1>4
    <3>2. events[k] \in Seq(Event) /\ events'[k] = events[k] \o event
      BY <1>2, <1>4
    <3>3. Len(event) = 1 /\ events'[k][i] = event[1]
      BY <1>8, <2>2, <3>1, <3>2
    <3>4. (event[1] = "message_start" => new = <<u>>) /\ (event[1] = "done" => new = <<a>>)
      BY <1>4, <3>3
    <3>5. \A m \in {u, a} : new = <<m>> => Held(m, stored')
      <4> SUFFICES ASSUME NEW m \in {u, a}, new = <<m>>
                   PROVE  Held(m, stored')
        OBVIOUS
      <4>1. new # <<>>
        OBVIOUS
      <4>2. PICK x \in {u, a} : Grown(new, x)
        BY <1>6, <4>1
      <4>3. x = m
        BY <4>2 DEF Grown
      <4>4. Len(stored) + 1 \in DOMAIN stored' /\ stored'[Len(stored) + 1] = m
        BY <1>2, <4>2, <4>3 DEF Grown
      <4> QED
        BY <4>4 DEF Held
    <3> QED
      BY <2>2, <3>3, <3>4, <3>5 DEF u, a
  <2> QED
    BY <2>1, <2>2
<1>18. ListOK' /\ FetchOK' /\ EarlierOK'
  BY <1>5, <1>7, ListsStay
<1> QED
  BY <1>7, <1>9, <1>15, <1>17, <1>18

-----------------------------------------------------------------------------
(* The query and the earlier pages. *)

LEMMA FixedAnswers ==
  /\ Idle \in Fetch /\ Idle.at = "none" /\ Asked \in Fetch /\ Asked.at = "sent"
  /\ None \in Cursors
BY DEF Idle, Asked, Fetch, Cursors

LEMMA QueryKeeps ==
  ASSUME ViewInv,
         FetchAnswered \/ FetchArrives \/ FetchFails \/ Focus
         \/ EarlierAnswered \/ EarlierArrives \/ EarlierFails \/ LoadEarlier
  PROVE  ViewInv'
<1> USE DEF ViewInv
<1>1. /\ stored' = stored /\ server' = server /\ loop' = loop /\ events' = events
      /\ status' = status /\ current' = current
  BY DEF FetchAnswered, FetchArrives, FetchFails, Focus, EarlierAnswered, EarlierArrives,
         EarlierFails, LoadEarlier
<1>2. /\ stored \in Seq(Message) /\ Plain(stored) /\ Distinct(stored)
      /\ stored' \in Seq(Message) /\ Extended(stored, stored')
  BY <1>1 DEF TypeOK, StoredOK, Plain, Extended
<1>3. StoredOK' /\ EventsOK'
  <2>1. UNCHANGED <<stored, server, loop, events>>
    BY <1>1
  <2> QED
    BY <2>1, StoredStays
<1>4. /\ cache' = cache => ListOK'
      /\ fetch' = fetch => FetchOK'
      /\ earlier' = earlier => EarlierOK'
  BY <1>1, <1>2, ListsStay
<1>5. /\ cache \in Cache /\ fetch \in Fetch /\ overlap \in BOOLEAN /\ focus \in 0 .. MaxFocus
      /\ earlier \in [load : Fetch, base : Seq(Message), cursor : Cursors]
  BY DEF TypeOK
<1>6. ASSUME cache' \in Cache, fetch' \in Fetch, overlap' \in BOOLEAN, focus' \in 0 .. MaxFocus,
             earlier' \in [load : Fetch, base : Seq(Message), cursor : Cursors]
      PROVE  TypeOK'
  BY <1>1, <1>6 DEF TypeOK
<1>7. CASE FetchAnswered
  <2>1. /\ fetch' = Page(None)
        /\ UNCHANGED <<cache, earlier, overlap, focus>>
    BY <1>7 DEF FetchAnswered
  <2>2. Len(stored) \in 0 .. Len(stored)
    BY <1>2
  <2>3. fetch' \in Fetch /\ PageTo(fetch'.items, fetch'.next, stored, Len(stored))
    BY <1>2, <2>1, <2>2, PageIs
  <2>4. FetchOK'
    BY <1>1, <2>2, <2>3 DEF FetchOK
  <2> QED
    BY <1>3, <1>4, <1>5, <1>6, <2>1, <2>3, <2>4
<1>8. CASE FetchArrives
  <2>1. /\ fetch.at = "answered" /\ fetch' = Idle
        /\ cache' = [loaded |-> TRUE, items |-> fetch.items, earlierCursor |-> fetch.next]
        /\ UNCHANGED <<earlier, overlap, focus>>
    BY <1>8 DEF FetchArrives
  <2>2. fetch.items \in Seq(Message) /\ fetch.next \in Cursors
    BY <1>5 DEF Fetch
  <2>3. cache' \in Cache /\ fetch' \in Fetch
    BY <2>1, <2>2, FixedAnswers DEF Cache
  <2>4. FetchOK'
    BY <2>1, FixedAnswers DEF FetchOK
  <2>5. PICK n \in 0 .. Len(stored) : PageTo(fetch.items, fetch.next, stored, n)
    BY <2>1 DEF FetchOK
  <2>6. PICK d \in 0 .. n : Slice(fetch.items, stored, d, n) /\ From(fetch.next, stored, d, n)
    BY <2>5 DEF PageTo
  <2>7. /\ Known(fetch.items, stored, loop) /\ OneEach(fetch.items)
        /\ Late(fetch.items, stored, d + 1)
    BY <1>2, <2>6, PageShows
  <2>8. fetch.next # None => d + 1 \in DOMAIN stored /\ stored[d + 1] = fetch.next
    BY <1>2, <2>6 DEF From
  <2>9. Until(fetch.items, fetch.next, stored)
    BY <2>7, <2>8 DEF Until
  <2>10. ListOK'
    BY <1>1, <2>1, <2>7, <2>9 DEF ListOK
  <2> QED
    BY <1>3, <1>4, <1>5, <1>6, <2>1, <2>3, <2>4, <2>10
<1>9. CASE FetchFails
  <2>1. /\ fetch' = Idle /\ overlap' = TRUE
        /\ UNCHANGED <<cache, earlier, focus>>
    BY <1>9 DEF FetchFails
  <2>2. FetchOK' /\ fetch' \in Fetch
    BY <2>1, FixedAnswers DEF FetchOK
  <2> QED
    BY <1>3, <1>4, <1>5, <1>6, <2>1, <2>2
<1>10. CASE Focus
  <2>1. /\ fetch' = Asked /\ focus < MaxFocus /\ focus' = focus + 1
        /\ UNCHANGED <<cache, earlier>> /\ overlap' \in BOOLEAN
    BY <1>10 DEF Focus
  <2>2. FetchOK' /\ fetch' \in Fetch
    BY <2>1, FixedAnswers DEF FetchOK
  <2>3. focus' \in 0 .. MaxFocus
    BY <1>5, <2>1, ConstantsAssumption
  <2> QED
    BY <1>3, <1>4, <1>5, <1>6, <2>1, <2>2, <2>3
<1>11. CASE LoadEarlier
  <2>1. /\ cache.loaded /\ cache.earlierCursor # None
        /\ earlier' = [load |-> Asked, base |-> cache.items, cursor |-> cache.earlierCursor]
        /\ UNCHANGED <<cache, fetch, focus>> /\ overlap' \in BOOLEAN
    BY <1>11 DEF LoadEarlier
  <2>2. cache.items \in Seq(Message) /\ cache.earlierCursor \in Cursors
    BY <1>5 DEF Cache
  <2>3. earlier' \in [load : Fetch, base : Seq(Message), cursor : Cursors]
    BY <2>1, <2>2, FixedAnswers
  <2>4. /\ earlier'.load.at = "sent" /\ earlier'.base = cache.items
        /\ earlier'.cursor = cache.earlierCursor
    BY <2>1, FixedAnswers
  <2>5. Known(cache.items, stored, loop) /\ OneEach(cache.items)
    BY DEF ListOK
  <2>6. PICK c \in DOMAIN stored : /\ stored[c] = cache.earlierCursor
                                   /\ Late(cache.items, stored, c)
    BY <2>1 DEF ListOK, Until
  <2>7. EarlierOK'
    BY <1>1, <2>4, <2>5, <2>6 DEF EarlierOK
  <2> QED
    BY <1>3, <1>4, <1>5, <1>6, <2>1, <2>3, <2>7
<1>12. CASE EarlierAnswered
  <2>1. /\ earlier.load.at = "sent"
        /\ earlier' = [earlier EXCEPT !.load = Page(earlier.cursor)]
        /\ UNCHANGED <<cache, fetch, overlap, focus>>
    BY <1>12 DEF EarlierAnswered
  <2>2. /\ earlier'.base = earlier.base /\ earlier'.cursor = earlier.cursor
        /\ earlier'.load = Page(earlier.cursor)
    BY <1>5, <2>1
  <2>3. PICK c \in DOMAIN stored : stored[c] = earlier.cursor /\ Late(earlier.base, stored, c)
    BY <2>1 DEF EarlierOK
  <2>4. earlier.cursor # None
    BY <1>2, <2>3, KindOf
  <2>5. c - 1 \in 0 .. Len(stored) /\ (c - 1) + 1 = c
    BY <1>2
  <2>6. /\ Page(earlier.cursor) \in Fetch
        /\ PageTo(Page(earlier.cursor).items, Page(earlier.cursor).next, stored, c - 1)
    <3> DEFINE n == c - 1
    <3>1. n \in 0 .. Len(stored) /\ n + 1 \in DOMAIN stored /\ stored[n + 1] = earlier.cursor
      BY <2>3, <2>5
    <3> HIDE DEF n
    <3>2. /\ Page(earlier.cursor) \in Fetch
          /\ PageTo(Page(earlier.cursor).items, Page(earlier.cursor).next, stored, n)
      BY <1>2, <2>4, <3>1, PageIs
    <3> QED
      BY <3>2 DEF n
  <2>7. earlier' \in [load : Fetch, base : Seq(Message), cursor : Cursors]
    BY <1>5, <2>1, <2>6
  <2>8. Known(earlier.base, stored, loop) /\ OneEach(earlier.base)
    BY <2>1 DEF EarlierOK
  <2>9. EarlierOK'
    BY <1>1, <2>2, <2>3, <2>6, <2>8 DEF EarlierOK
  <2> QED
    BY <1>3, <1>4, <1>5, <1>6, <2>1, <2>7, <2>9
<1>13. CASE EarlierArrives
  <2>1. /\ earlier.load.at = "answered"
        /\ cache' = [loaded |-> TRUE, items |-> earlier.load.items \o earlier.base,
                     earlierCursor |-> earlier.load.next]
        /\ earlier' = [load |-> Idle, base |-> <<>>, cursor |-> None]
        /\ UNCHANGED <<fetch, overlap, focus>>
    BY <1>13 DEF EarlierArrives
  <2>2. /\ earlier.load.items \in Seq(Message) /\ earlier.load.next \in Cursors
        /\ earlier.base \in Seq(Message)
    BY <1>5 DEF Fetch
  <2>3. cache' \in Cache /\ earlier' \in [load : Fetch, base : Seq(Message), cursor : Cursors]
    BY <2>1, <2>2, FixedAnswers DEF Cache
  <2>4. EarlierOK'
    BY <2>1, FixedAnswers DEF EarlierOK
  <2>5. Known(earlier.base, stored, loop) /\ OneEach(earlier.base)
    BY <2>1 DEF EarlierOK
  <2>6. PICK c \in DOMAIN stored :
             /\ stored[c] = earlier.cursor /\ Late(earlier.base, stored, c)
             /\ PageTo(earlier.load.items, earlier.load.next, stored, c - 1)
    BY <2>1 DEF EarlierOK
  <2>7. PICK d \in 0 .. c - 1 : /\ Slice(earlier.load.items, stored, d, c - 1)
                                /\ From(earlier.load.next, stored, d, c - 1)
    BY <2>6 DEF PageTo
  <2>8. /\ Known(earlier.load.items \o earlier.base, stored, loop)
        /\ OneEach(earlier.load.items \o earlier.base)
        /\ Late(earlier.load.items \o earlier.base, stored, d + 1)
    BY <1>2, <2>2, <2>5, <2>6, <2>7, JoinShows
  <2>9. earlier.load.next # None => d + 1 \in DOMAIN stored /\ stored[d + 1] = earlier.load.next
    BY <1>2, <2>7 DEF From
  <2>10. ListOK'
    BY <1>1, <2>1, <2>8, <2>9 DEF ListOK, Until
  <2> QED
    BY <1>3, <1>4, <1>5, <1>6, <2>1, <2>3, <2>4, <2>10
<1>14. CASE EarlierFails
  <2>1. /\ earlier' = [load |-> Idle, base |-> <<>>, cursor |-> None]
        /\ UNCHANGED <<cache, fetch, overlap, focus>>
    BY <1>14 DEF EarlierFails
  <2>2. EarlierOK' /\ earlier' \in [load : Fetch, base : Seq(Message), cursor : Cursors]
    BY <2>1, FixedAnswers DEF EarlierOK
  <2> QED
    BY <1>3, <1>4, <1>5, <1>6, <2>1, <2>2
<1> QED
  BY <1>7, <1>8, <1>9, <1>10, <1>11, <1>12, <1>13, <1>14

-----------------------------------------------------------------------------
(* The stream. *)

LEMMA RefetchIs ==
  ASSUME ViewInv, Refetch
  PROVE  fetch' \in Fetch /\ (fetch' = fetch \/ fetch' = Asked)
BY FixedAnswers DEF Refetch, ViewInv, TypeOK

LEMMA EndLoopIs ==
  ASSUME ViewInv, NEW k \in Turns, NEW st \in {"idle", "streaming", "done", "error"},
         EndLoop(k, st), cache' = cache
  PROVE  /\ loop' = [loop EXCEPT ![k] = "closed"]
         /\ status' \in {"idle", "streaming", "done", "error"}
         /\ current' \in 0 .. MaxTurns
         /\ overlap' \in BOOLEAN
         /\ fetch' \in Fetch /\ (fetch' = fetch \/ fetch' = Asked)
<1>1. /\ loop' = [loop EXCEPT ![k] = "closed"]
      /\ status' = IF st = "streaming" THEN "error" ELSE st
      /\ current' = 0
  BY DEF EndLoop
<1>2. CASE status' = "done"
  <2>1. UNCHANGED <<fetch, overlap>>
    BY <1>2 DEF EndLoop
  <2> QED
    BY <1>1, <2>1, ConstantsAssumption DEF ViewInv, TypeOK
<1>3. CASE status' # "done"
  <2>1. Refetch /\ overlap' \in BOOLEAN
    BY <1>3 DEF EndLoop
  <2> QED
    BY <1>1, <2>1, RefetchIs, ConstantsAssumption
<1> QED
  BY <1>2, <1>3

LEMMA ReadsIs ==
  ASSUME ViewInv, NEW k \in Turns, NEW event, Reads(k, event)
  PROVE  /\ events' \in [Turns -> Seq(Event)]
         /\ \A j \in Turns : events'[j] = events[j]
                             \/ (events[j] # <<>> /\ events'[j] = Tail(events[j]))
         /\ 1 \in DOMAIN events[k] /\ events[k][1] = event
<1>1. events \in [Turns -> Seq(Event)] /\ events[k] # <<>> /\ Head(events[k]) = event
  BY DEF Reads, ViewInv, TypeOK
<1>2. events' = [events EXCEPT ![k] = Tail(@)]
  BY DEF Reads
<1>3. Tail(events[k]) \in Seq(Event)
  BY <1>1
<1> QED
  BY <1>1, <1>2, <1>3

LEMMA StreamKeeps ==
  ASSUME ViewInv, NEW k \in Turns,
         MessageStart(k) \/ Done(k) \/ Error(k) \/ Rejected(k) \/ EndOfStream(k)
         \/ Disconnect(k) \/ Abort(k)
  PROVE  ViewInv'
<1> USE DEF ViewInv
<1>1. /\ stored' = stored /\ server' = server /\ earlier' = earlier /\ focus' = focus
  BY DEF MessageStart, Done, Error, Rejected, EndOfStream, Disconnect, Abort, Leave
<1>2. /\ stored \in Seq(Message) /\ stored' \in Seq(Message) /\ Extended(stored, stored')
      /\ loop \in [Turns -> {"none", "open", "closed"}] /\ events \in [Turns -> Seq(Event)]
      /\ cache.items \in Seq(Message) /\ cache \in Cache
  BY <1>1 DEF TypeOK, Extended, Cache
<1>3. ASSUME loop' = loop \/ loop' = [loop EXCEPT ![k] = "closed"]
      PROVE  /\ loop' \in [Turns -> {"none", "open", "closed"}]
             /\ \A j \in Turns : loop'[j] = "none" => loop[j] = "none"
  BY <1>2, <1>3
<1>4. ASSUME loop' = loop \/ loop' = [loop EXCEPT ![k] = "closed"],
             \A j \in Turns : events'[j] \in {events[j], <<>>}
                              \/ (events[j] # <<>> /\ events'[j] = Tail(events[j]))
      PROVE  /\ StoredOK' /\ EventsOK'
             /\ cache' = cache => ListOK'
             /\ fetch' = fetch => FetchOK'
             /\ EarlierOK'
  <2>1. UNCHANGED <<stored, server>>
    BY <1>1
  <2>2. \A j \in Turns : loop'[j] = "none" => loop[j] = "none"
    BY <1>3, <1>4
  <2>3. \A j \in Turns : loop[j] # "none" => loop'[j] # "none"
    BY <1>2, <1>4
  <2> QED
    BY <1>1, <1>2, <1>4, <2>1, <2>2, <2>3, StoredStays, ListsStay
<1>5. ASSUME NEW its \in Seq(Message), Patched(its), stored' = stored, loop' = loop,
             Known(its, stored, loop), OneEach(its),
             \A c \in DOMAIN stored : Late(cache.items, stored, c) => Late(its, stored, c)
      PROVE  cache' \in Cache /\ ListOK'
  <2>1. /\ cache' \in Cache /\ cache'.items = its
        /\ cache'.earlierCursor = cache.earlierCursor
    BY <1>2, <1>5 DEF Patched, Cache
  <2>2. Until(its, cache.earlierCursor, stored)
    BY <1>5 DEF ListOK, Until
  <2> QED
    BY <1>5, <2>1, <2>2 DEF ListOK
<1>6. CASE MessageStart(k)
  <2> DEFINE named == Renamed(cache.items, k)
  <2>1. /\ Reads(k, "message_start") /\ Patched(named)
        /\ UNCHANGED <<loop, status, current, fetch, overlap>>
    BY <1>6 DEF MessageStart, Renamed
  <2>2. Held(<<"user", k>>, stored)
    BY <2>1, ReadsIs DEF EventsOK
  <2>3. Known(cache.items, stored, loop) /\ OneEach(cache.items)
    BY DEF ListOK
  <2>4. /\ named \in Seq(Message) /\ Known(named, stored, loop) /\ OneEach(named)
        /\ \A c \in DOMAIN stored : Late(cache.items, stored, c) => Late(named, stored, c)
    BY <1>2, <2>2, <2>3, RenameShows
  <2> HIDE DEF named
  <2>5. cache' \in Cache /\ ListOK'
    BY <1>1, <1>5, <2>1, <2>4
  <2>6. TypeOK'
    BY <1>1, <1>2, <2>1, <2>5, ReadsIs DEF TypeOK
  <2> QED
    BY <1>4, <2>1, <2>5, <2>6, ReadsIs
<1>7. CASE Done(k)
  <2> DEFINE more == Append(cache.items, <<"assistant", k>>)
  <2>1. /\ Reads(k, "done") /\ Patched(more) /\ status' = "done"
        /\ UNCHANGED <<loop, current, fetch, overlap>>
    BY <1>7 DEF Done
  <2>2. Held(<<"assistant", k>>, stored)
    BY <2>1, ReadsIs DEF EventsOK
  <2>3. Known(cache.items, stored, loop) /\ OneEach(cache.items)
    BY DEF ListOK
  <2>4. /\ more \in Seq(Message) /\ Known(more, stored, loop) /\ OneEach(more)
        /\ \A c \in DOMAIN stored : Late(cache.items, stored, c) => Late(more, stored, c)
    BY <1>2, <2>2, <2>3, AnswerShows
  <2> HIDE DEF more
  <2>5. cache' \in Cache /\ ListOK'
    BY <1>1, <1>5, <2>1, <2>4
  <2>6. TypeOK'
    BY <1>1, <1>2, <2>1, <2>5, ReadsIs DEF TypeOK
  <2> QED
    BY <1>4, <2>1, <2>5, <2>6, ReadsIs
<1>8. CASE Error(k)
  <2>1. /\ Reads(k, "error") /\ status' = "error"
        /\ UNCHANGED <<loop, current, cache, fetch, overlap>>
    BY <1>8 DEF Error
  <2>2. TypeOK'
    BY <1>1, <1>2, <2>1, ReadsIs DEF TypeOK
  <2> QED
    BY <1>4, <2>1, <2>2, ReadsIs
<1>9. ASSUME NEW st \in {"idle", "streaming", "done", "error"}, EndLoop(k, st), cache' = cache,
             events' \in [Turns -> Seq(Event)],
             \A j \in Turns : events'[j] \in {events[j], <<>>}
                              \/ (events[j] # <<>> /\ events'[j] = Tail(events[j]))
      PROVE  ViewInv'
  <2>1. /\ loop' = [loop EXCEPT ![k] = "closed"]
        /\ status' \in {"idle", "streaming", "done", "error"}
        /\ current' \in 0 .. MaxTurns /\ overlap' \in BOOLEAN
        /\ fetch' \in Fetch /\ (fetch' = fetch \/ fetch' = Asked)
    BY <1>9, EndLoopIs
  <2>2. TypeOK'
    BY <1>1, <1>3, <1>9, <2>1 DEF TypeOK
  <2>3. FetchOK'
    <3>1. fetch' = Asked => FetchOK'
      BY FixedAnswers DEF FetchOK
    <3> QED
      BY <1>4, <1>9, <2>1, <3>1
  <2> QED
    BY <1>4, <1>9, <2>1, <2>2, <2>3
<1>10. CASE Rejected(k)
  <2>1. Reads(k, "rejected") /\ EndLoop(k, "error") /\ cache' = cache
    BY <1>10 DEF Rejected
  <2> QED
    BY <1>9, <2>1, ReadsIs
<1>11. CASE EndOfStream(k)
  <2>1. EndLoop(k, status) /\ cache' = cache /\ events' = events
    BY <1>11 DEF EndOfStream
  <2>2. status \in {"idle", "streaming", "done", "error"}
    BY DEF TypeOK
  <2> QED
    BY <1>2, <1>9, <2>1, <2>2
<1>12. ASSUME NEW st \in {"idle", "error"}, Leave(k, st)
       PROVE  ViewInv'
  <2>1. events' = [events EXCEPT ![k] = <<>>] /\ EndLoop(k, st) /\ cache' = cache
    BY <1>12 DEF Leave
  <2>2. /\ events' \in [Turns -> Seq(Event)]
        /\ \A j \in Turns : events'[j] \in {events[j], <<>>}
    BY <1>2, <2>1
  <2> QED
    BY <1>9, <1>12, <2>1, <2>2
<1>13. CASE Disconnect(k)
  BY <1>12, <1>13 DEF Disconnect
<1>14. CASE Abort(k)
  BY <1>12, <1>14 DEF Abort
<1> QED
  BY <1>6, <1>7, <1>8, <1>10, <1>11, <1>13, <1>14

\* The question is put on the list before anything of its turn can be there.
LEMMA SendKeeps ==
  ASSUME ViewInv, NEW k \in Turns, Send(k)
  PROVE  ViewInv'
<1> USE DEF ViewInv
<1> DEFINE more == Append(cache.items, <<"temp", k>>)
<1>1. /\ loop[k] = "none" /\ status' = "streaming" /\ current' = k
      /\ loop' = [loop EXCEPT ![k] = "open"]
      /\ server' = [server EXCEPT ![k] = "posted"]
      /\ Patched(more) /\ overlap' \in BOOLEAN
      /\ UNCHANGED <<stored, events, fetch, earlier, focus>>
  BY DEF Send
<1>2. /\ stored \in Seq(Message) /\ stored' \in Seq(Message) /\ Extended(stored, stored')
      /\ loop \in [Turns -> {"none", "open", "closed"}]
      /\ server \in [Turns -> {"none", "posted", "answering", "over"}]
      /\ cache.items \in Seq(Message) /\ cache \in Cache
  BY <1>1 DEF TypeOK, Extended, Cache
<1>3. server[k] = "none" /\ events[k] = <<>>
  BY <1>1 DEF StoredOK
<1>4. ~Held(<<"user", k>>, stored) /\ ~Held(<<"assistant", k>>, stored)
  BY <1>3 DEF StoredOK
<1>5. /\ \A j \in Turns : loop[j] # "none" => loop'[j] # "none"
      /\ \A j \in Turns : j # k => loop'[j] = loop[j] /\ server'[j] = server[j]
      /\ loop'[k] # "none" /\ server'[k] = "posted"
  BY <1>1, <1>2
<1>6. StoredOK'
  <2>1. \A j \in Turns : Held(<<"user", j>>, stored') => server'[j] \in {"answering", "over"}
    BY <1>1, <1>4, <1>5 DEF StoredOK
  <2>2. \A j \in Turns : Held(<<"assistant", j>>, stored') => server'[j] = "over"
    BY <1>1, <1>4, <1>5 DEF StoredOK
  <2>3. \A j \in Turns : loop'[j] = "none" => server'[j] = "none" /\ events'[j] = <<>>
    BY <1>1, <1>5 DEF StoredOK
  <2> QED
    BY <1>1, <2>1, <2>2, <2>3 DEF StoredOK
<1>7. EventsOK'
  BY <1>1 DEF EventsOK
<1>8. FetchOK' /\ EarlierOK'
  BY <1>1, <1>2, <1>5, ListsStay
<1>9. Known(cache.items, stored, loop) /\ OneEach(cache.items)
  BY DEF ListOK
<1>10. \A i \in DOMAIN cache.items : cache.items[i] # <<"temp", k>>
  BY <1>1, <1>9 DEF Known
<1>11. Known(cache.items, stored, loop')
  <2>1. stored \in Seq(Message) /\ Extended(stored, stored)
    BY <1>2 DEF Extended
  <2> QED
    BY <1>2, <1>5, <1>9, <2>1, KnownStays
<1>12. /\ more \in Seq(Message) /\ Known(more, stored, loop') /\ OneEach(more)
       /\ \A c \in DOMAIN stored : Late(cache.items, stored, c) => Late(more, stored, c)
  BY <1>2, <1>4, <1>5, <1>9, <1>10, <1>11, AskShows
<1> HIDE DEF more
<1>13. /\ cache' \in Cache /\ cache'.items = more /\ cache'.earlierCursor = cache.earlierCursor
  BY <1>1, <1>2, <1>12 DEF Patched, Cache
<1>14. Until(more, cache.earlierCursor, stored)
  BY <1>12 DEF ListOK, Until
<1>15. ListOK'
  BY <1>1, <1>12, <1>13, <1>14 DEF ListOK
<1>16. TypeOK'
  BY <1>1, <1>2, <1>13, ConstantsAssumption DEF TypeOK, Turns
<1> QED
  BY <1>6, <1>7, <1>8, <1>15, <1>16

-----------------------------------------------------------------------------
(* The theorems. *)

LEMMA StepInv == ViewInv /\ [Next]_vars => ViewInv'
<1> SUFFICES ASSUME ViewInv, [Next]_vars PROVE ViewInv'
  OBVIOUS
<1>1. ASSUME NEW k \in Turns, Server(k)
      PROVE  ViewInv'
  BY <1>1, ServerKeeps
<1>2. ASSUME NEW k \in Turns, Window(k) \/ Disconnect(k) \/ Abort(k)
      PROVE  ViewInv'
  BY <1>2, StreamKeeps DEF Window
<1>3. ASSUME NEW k \in Turns, Send(k)
      PROVE  ViewInv'
  BY <1>3, SendKeeps
<1>4. CASE Query \/ FetchFails \/ EarlierFails \/ Focus \/ LoadEarlier
  BY <1>4, QueryKeeps DEF Query
<1>5. CASE UNCHANGED vars
  BY <1>5 DEF vars, viewVars, ViewInv, TypeOK, StoredOK, EventsOK, ListOK, FetchOK, EarlierOK,
              Plain, Distinct, Held, Known, OneEach, Until, Late, PageTo, Slice, From
<1> QED
  BY <1>1, <1>2, <1>3, <1>4, <1>5 DEF Next

\* The invariant of a window and its server: what is stored, what the events tell of,
\* what the list and each request on its way hold.
THEOREM Invariance == Spec => []ViewInv
BY InitInv, StepInv, PTL DEF Spec

\* The variables of useChatStream, useMessages and the server keep their types: an
\* earlier page is asked for with a cursor that is a stored message.
THEOREM TypeCorrect == Spec => []TypeOK
<1>1. ViewInv => TypeOK
  BY DEF ViewInv
<1> QED
  BY Invariance, <1>1, PTL

\* useChatStream.ts:72, for any interleaving of refetches, earlier pages and turns:
\* a question is on the list once, under its temporary or its stored id.
THEOREM OneQuestion == Spec => []QuestionOnce
<1>1. ViewInv => QuestionOnce
  BY DEF ViewInv, ListOK, OneEach, IsQuestion, QuestionOnce
<1> QED
  BY Invariance, <1>1, PTL

\* Nothing is shown, an optimistic question apart, that the server does not have: a
\* done event, an answered page or a list that was read earlier never runs ahead.
THEOREM StoredIsShown == Spec => []ShowsOnlyStored
<1>1. ViewInv => ShowsOnlyStored
  BY DEF ViewInv, ListOK, Known, Held, ShowsOnlyStored, Shown, ToSet
<1> QED
  BY Invariance, <1>1, PTL

-----------------------------------------------------------------------------
(* Alignment. *)

\* A page up to message n, and after it the optimistic question of turn k.
Asking(items, cursor, s, k, n) ==
    \E d \in 0 .. n :
        /\ n \in 0 .. Len(s) /\ DOMAIN items = 1 .. n - d + 1
        /\ \A i \in 1 .. n - d : items[i] = s[d + i]
        /\ items[n - d + 1] = <<"temp", k>>
        /\ From(cursor, s, d, n)

Shows(n)   == PageTo(cache.items, cache.earlierCursor, stored, n)
Asks(k, n) == Asking(cache.items, cache.earlierCursor, stored, k, n)
Open(k)    == loop[k] = "open"

\* How far the list is behind what is stored, while turn k is streaming: by what the
\* events on their way tell of.
Progress(k) ==
    LET L == Len(stored) IN
    \/ server[k] = "posted" /\ events[k] = <<>> /\ Asks(k, L)
    \/ /\ server[k] = "answering" /\ events[k] = <<"message_start">>
       /\ L > 0 /\ stored[L] = <<"user", k>> /\ Asks(k, L - 1)
    \/ server[k] = "answering" /\ events[k] = <<>> /\ Shows(L)
    \/ /\ server[k] = "over" /\ events[k] = <<"message_start", "done">>
       /\ L > 1 /\ stored[L - 1] = <<"user", k>> /\ stored[L] = <<"assistant", k>>
       /\ Asks(k, L - 2)
    \/ /\ server[k] = "over" /\ events[k] = <<"done">>
       /\ L > 0 /\ stored[L] = <<"assistant", k>> /\ Shows(L - 1)
    \/ /\ server[k] = "over"
       /\ events[k] \in {<<>>, <<"message_start">>, <<"error">>, <<"rejected">>,
                         <<"message_start", "error">>}

TurnsSteady ==
    /\ \A k \in Turns : loop[k] = "closed" => server[k] = "over"
    /\ \A k \in Turns : Open(k) /\ status # "streaming" => server[k] = "over" /\ events[k] = <<>>
    /\ \A j, k \in Turns : Open(j) /\ Open(k) => j = k
    /\ \A k \in Turns : Open(k) /\ status = "streaming" => Progress(k)

RequestsSteady ==
    /\ fetch.at # "none" =>
          /\ earlier.load.at = "none"
          /\ \A k \in Turns : Open(k) => status # "streaming"
          /\ fetch.at = "answered" => PageTo(fetch.items, fetch.next, stored, Len(stored))
    /\ earlier.load.at # "none" =>
          /\ \A k \in Turns : Open(k) => status # "streaming"
          /\ earlier.base = cache.items /\ earlier.cursor = cache.earlierCursor

ListSteady ==
    fetch.at = "none" /\ ((\A k \in Turns : ~Open(k)) \/ status = "done") => Shows(Len(stored))

\* While no two loads have overlapped, one thing at a time changes the list, and the
\* list is a page up to the last message whenever no turn is under way.
Steady == ~overlap => TurnsSteady /\ RequestsSteady /\ ListSteady

\* The lists that the stream makes of a page.
LEMMA AskOfPage ==
  ASSUME NEW s \in Seq(Message), NEW items \in Seq(Message), NEW cursor, NEW k \in Turns,
         NEW n, PageTo(items, cursor, s, n)
  PROVE  Asking(Append(items, <<"temp", k>>), cursor, s, k, n)
<1> DEFINE more == Append(items, <<"temp", k>>)
<1>1. PICK d \in 0 .. n : Slice(items, s, d, n) /\ From(cursor, s, d, n)
  BY DEF PageTo
<1>2. /\ n \in 0 .. Len(s) /\ d \in 0 .. n /\ DOMAIN items = 1 .. n - d /\ Len(items) = n - d
      /\ \A i \in 1 .. n - d : items[i] = s[d + i]
  BY <1>1 DEF Slice
<1>3. /\ DOMAIN more = 1 .. n - d + 1 /\ more[n - d + 1] = <<"temp", k>>
      /\ \A i \in 1 .. n - d : more[i] = items[i]
  BY <1>2
<1> HIDE DEF more
<1>4. Asking(more, cursor, s, k, n)
  BY <1>1, <1>2, <1>3 DEF Asking
<1> QED
  BY <1>4 DEF more

LEMMA PageOfAsk ==
  ASSUME NEW s, Plain(s), NEW items, NEW cursor, NEW k \in Turns, NEW n \in Nat,
         Asking(items, cursor, s, k, n), n + 1 <= Len(s), s[n + 1] = <<"user", k>>
  PROVE  PageTo([i \in DOMAIN items |-> IF items[i] = <<"temp", k>>
                                         THEN <<"user", k>> ELSE items[i]],
                cursor, s, n + 1)
<1> DEFINE named == [i \in DOMAIN items |-> IF items[i] = <<"temp", k>>
                                             THEN <<"user", k>> ELSE items[i]]
<1>1. PICK d \in 0 .. n :
        /\ n \in 0 .. Len(s) /\ DOMAIN items = 1 .. n - d + 1
        /\ \A i \in 1 .. n - d : items[i] = s[d + i]
        /\ items[n - d + 1] = <<"temp", k>>
        /\ From(cursor, s, d, n)
  BY DEF Asking
<1>2. \A i \in 1 .. n - d : s[d + i][1] # "temp"
  BY <1>1 DEF Plain
<1>3. \A i \in 1 .. n - d : named[i] = s[d + i]
  BY <1>1, <1>2
<1>4. named[n - d + 1] = s[n + 1] /\ DOMAIN named = 1 .. n - d + 1
  BY <1>1
<1> HIDE DEF named
<1>5. n + 1 - d = n - d + 1 /\ d + (n - d + 1) = n + 1 /\ n + 1 \in 0 .. Len(s) /\ d \in 0 .. n + 1
  BY <1>1 DEF Plain
<1>6. \A i \in 1 .. n + 1 - d : named[i] = s[d + i]
  <2> SUFFICES ASSUME NEW i \in 1 .. n + 1 - d
               PROVE  named[i] = s[d + i]
    OBVIOUS
  <2>1. CASE i \in 1 .. n - d
    BY <1>3, <2>1
  <2>2. CASE i = n - d + 1
    BY <1>4, <1>5, <2>2
  <2> QED
    BY <1>1, <2>1, <2>2
<1>7. Slice(named, s, d, n + 1)
  BY <1>4, <1>5, <1>6 DEF Slice
<1>8. From(cursor, s, d, n + 1)
  BY <1>1 DEF From
<1>9. PageTo(named, cursor, s, n + 1)
  BY <1>5, <1>7, <1>8 DEF PageTo
<1> QED
  BY <1>9 DEF named

LEMMA PageAndAnswer ==
  ASSUME NEW s \in Seq(Message), NEW items \in Seq(Message), NEW cursor, NEW m \in Message,
         NEW n \in Nat, PageTo(items, cursor, s, n), n + 1 <= Len(s), s[n + 1] = m
  PROVE  PageTo(Append(items, m), cursor, s, n + 1)
<1> DEFINE more == Append(items, m)
<1>1. PICK d \in 0 .. n : Slice(items, s, d, n) /\ From(cursor, s, d, n)
  BY DEF PageTo
<1>2. /\ n \in 0 .. Len(s) /\ DOMAIN items = 1 .. n - d /\ Len(items) = n - d
      /\ \A i \in 1 .. n - d : items[i] = s[d + i]
  BY <1>1 DEF Slice
<1>3. /\ DOMAIN more = 1 .. n - d + 1 /\ more[n - d + 1] = m
      /\ \A i \in 1 .. n - d : more[i] = s[d + i]
  BY <1>2
<1> HIDE DEF more
<1>5. n + 1 - d = n - d + 1 /\ d + (n - d + 1) = n + 1 /\ n + 1 \in 0 .. Len(s) /\ d \in 0 .. n + 1
  OBVIOUS
<1>6. \A i \in 1 .. n + 1 - d : more[i] = s[d + i]
  <2> SUFFICES ASSUME NEW i \in 1 .. n + 1 - d
               PROVE  more[i] = s[d + i]
    OBVIOUS
  <2>1. CASE i \in 1 .. n - d
    BY <1>3, <2>1
  <2>2. CASE i = n - d + 1
    BY <1>3, <1>5, <2>2
  <2> QED
    BY <2>1, <2>2
<1>7. Slice(more, s, d, n + 1)
  BY <1>3, <1>5, <1>6 DEF Slice
<1>8. From(cursor, s, d, n + 1)
  BY <1>1 DEF From
<1>9. PageTo(more, cursor, s, n + 1)
  BY <1>5, <1>7, <1>8 DEF PageTo
<1> QED
  BY <1>9 DEF more

LEMMA PageAndPage ==
  ASSUME NEW s, Plain(s), NEW page \in Seq(Message), NEW base \in Seq(Message),
         NEW cursor, NEW next, NEW n, NEW c \in DOMAIN s, s[c] = cursor,
         PageTo(base, cursor, s, n), PageTo(page, next, s, c - 1)
  PROVE  PageTo(page \o base, next, s, n)
<1> DEFINE all == page \o base
<1>1. PICK d \in 0 .. n : Slice(base, s, d, n) /\ From(cursor, s, d, n)
  BY DEF PageTo
<1>2. PICK e \in 0 .. c - 1 : Slice(page, s, e, c - 1) /\ From(next, s, e, c - 1)
  BY DEF PageTo
<1>3. n \in 0 .. Len(s) /\ c \in Nat /\ s \in Seq(Message)
  BY <1>1 DEF Slice, Plain
<1>4. c = d + 1
  <2>1. cursor # None
    BY <1>3, KindOf
  <2>2. d # 0 /\ s[d + 1] = cursor /\ d < n
    BY <1>1, <2>1 DEF From
  <2>3. d + 1 \in DOMAIN s
    BY <1>3, <2>2
  <2> QED
    BY <2>2, <2>3 DEF Plain, Distinct
<1>5. /\ DOMAIN page = 1 .. d - e /\ Len(page) = d - e /\ e \in 0 .. d
      /\ \A i \in 1 .. d - e : page[i] = s[e + i]
  BY <1>2, <1>4 DEF Slice
<1>6. /\ DOMAIN base = 1 .. n - d /\ Len(base) = n - d
      /\ \A i \in 1 .. n - d : base[i] = s[d + i]
  BY <1>1 DEF Slice
<1>7. /\ DOMAIN all = 1 .. n - e
      /\ \A i \in 1 .. d - e : all[i] = page[i]
      /\ \A i \in d - e + 1 .. n - e : all[i] = base[i - (d - e)]
  <2>1. /\ Len(all) = Len(page) + Len(base) /\ all \in Seq(Message)
        /\ \A i \in 1 .. Len(page) : all[i] = page[i]
        /\ \A i \in Len(page) + 1 .. Len(page) + Len(base) : all[i] = base[i - Len(page)]
    OBVIOUS
  <2>2. n \in Nat /\ d \in Nat /\ e \in Nat /\ (d - e) + (n - d) = n - e
    BY <1>3, <1>5
  <2> HIDE DEF all
  <2>3. Len(all) = n - e /\ DOMAIN all = 1 .. n - e
    BY <1>5, <1>6, <2>1, <2>2
  <2>4. \A i \in d - e + 1 .. n - e : all[i] = base[i - (d - e)]
    BY <1>5, <1>6, <2>1, <2>2
  <2> QED
    BY <1>5, <2>1, <2>3, <2>4
<1> HIDE DEF all
<1>8. \A i \in 1 .. n - e : all[i] = s[e + i]
  <2> SUFFICES ASSUME NEW i \in 1 .. n - e
               PROVE  all[i] = s[e + i]
    OBVIOUS
  <2>1. CASE i \in 1 .. d - e
    <3>1. all[i] = page[i] /\ page[i] = s[e + i]
      BY <1>5, <1>7, <2>1
    <3> QED
      BY <3>1
  <2>2. CASE i \in d - e + 1 .. n - e
    <3>1. n \in Nat /\ d \in Nat /\ e \in Nat
      BY <1>3, <1>5
    <3>2. i - (d - e) \in 1 .. n - d /\ d + (i - (d - e)) = e + i
      BY <2>2, <3>1
    <3> QED
      BY <1>6, <1>7, <2>2, <3>2
  <2> QED
    BY <1>5, <2>1, <2>2
<1>9. e \in 0 .. n
  BY <1>3, <1>5
<1>10. Slice(all, s, e, n)
  BY <1>3, <1>7, <1>8, <1>9 DEF Slice
<1>11. From(next, s, e, n)
  <2>1. From(next, s, e, c - 1)
    BY <1>2
  <2>2. e # 0 => e < n
    BY <1>1, <1>2, <1>3, <1>4 DEF From
  <2> QED
    BY <2>1, <2>2 DEF From
<1>12. PageTo(all, next, s, n)
  BY <1>9, <1>10, <1>11 DEF PageTo
<1> QED
  BY <1>12 DEF all

LEMMA EventsJoin ==
  /\ \A x, y \in Event : <<x>> \o <<y>> = <<x, y>>
  /\ \A s \in Seq(Event) : <<>> \o s = s /\ s \o <<>> = s
<1>1. ASSUME NEW x \in Event, NEW y \in Event
      PROVE  <<x>> \o <<y>> = <<x, y>>
  <2>1. <<x>> \in Seq(Event) /\ <<y>> \in Seq(Event) /\ <<x, y>> \in Seq(Event)
    OBVIOUS
  <2>2. Len(<<x>> \o <<y>>) = 2 /\ Len(<<x, y>>) = 2 /\ <<x>> \o <<y>> \in Seq(Event)
    BY <2>1
  <2>3. \A i \in 1 .. 2 : (<<x>> \o <<y>>)[i] = <<x, y>>[i]
    BY <2>1
  <2> QED
    BY <2>1, <2>2, <2>3, SeqEqual
<1> QED
  BY <1>1

LEMMA AskingStays ==
  ASSUME NEW s \in Seq(Message), NEW r \in Seq(Message), Extended(s, r),
         NEW items, NEW cursor, NEW k, NEW n, Asking(items, cursor, s, k, n)
  PROVE  Asking(items, cursor, r, k, n)
<1>1. PICK d \in 0 .. n :
        /\ n \in 0 .. Len(s) /\ DOMAIN items = 1 .. n - d + 1
        /\ \A i \in 1 .. n - d : items[i] = s[d + i]
        /\ items[n - d + 1] = <<"temp", k>>
        /\ From(cursor, s, d, n)
  BY DEF Asking
<1>2. n \in 0 .. Len(r) /\ \A i \in 1 .. n - d : r[d + i] = s[d + i]
  BY <1>1 DEF Extended
<1>3. d # 0 => r[d + 1] = s[d + 1]
  BY <1>1 DEF From, Extended
<1>4. From(cursor, r, d, n)
  BY <1>1, <1>3 DEF From
<1> QED
  BY <1>1, <1>2, <1>4 DEF Asking

\* While a turn is streaming nothing else is under way, and there is no other turn.
LEMMA StreamingAlone ==
  ASSUME ViewInv, Steady, ~overlap, NEW k \in Turns, Open(k),
         status = "streaming" \/ events[k] # <<>> \/ server[k] \in {"posted", "answering"}
  PROVE  /\ status = "streaming" /\ Progress(k)
         /\ fetch.at = "none" /\ earlier.load.at = "none"
         /\ \A j \in Turns : Open(j) => j = k
<1>1. TurnsSteady /\ RequestsSteady
  BY DEF Steady
<1>2. status = "streaming"
  BY <1>1 DEF TurnsSteady
<1>3. Progress(k) /\ \A j \in Turns : Open(j) => j = k
  BY <1>1, <1>2 DEF TurnsSteady
<1>4. fetch.at = "none" /\ earlier.load.at = "none"
  BY <1>1, <1>2 DEF RequestsSteady
<1> QED
  BY <1>2, <1>3, <1>4

LEMMA SteadyServer ==
  ASSUME ViewInv, Steady, NEW k \in Turns, Server(k)
  PROVE  Steady'
<1> DEFINE u == <<"user", k>>
           a == <<"assistant", k>>
           L == Len(stored)
<1>1. PICK to, new, event : Served(k, to, new, event)
  BY ServerIs
<1>2. /\ stored \in Seq(Message) /\ server \in [Turns -> {"none", "posted", "answering", "over"}]
      /\ events \in [Turns -> Seq(Event)] /\ loop \in [Turns -> {"none", "open", "closed"}]
      /\ u \in Message /\ a \in Message
  BY KindOf DEF ViewInv, TypeOK
<1>3. stored' \in Seq(Message) /\ Extended(stored, stored')
  BY ServerKeeps DEF ViewInv, TypeOK
<1>4. /\ UNCHANGED <<loop, status, cache, fetch, earlier, overlap>>
      /\ server' = [server EXCEPT ![k] = to] /\ stored' = stored \o new
      /\ events' = [events EXCEPT ![k] = @ \o event]
      /\ server[k] \in {"posted", "answering"}
  BY <1>1 DEF Served, viewVars
<1> SUFFICES ASSUME ~overlap
             PROVE  TurnsSteady' /\ RequestsSteady' /\ ListSteady'
  BY <1>4 DEF Steady
<1>5. TurnsSteady /\ RequestsSteady
  BY DEF Steady
<1>6. Open(k)
  <2>1. loop[k] # "none"
    BY <1>4 DEF ViewInv, StoredOK
  <2>2. loop[k] # "closed"
    BY <1>4, <1>5 DEF TurnsSteady
  <2> QED
    BY <1>2, <2>1, <2>2 DEF Open
<1>7. /\ status = "streaming" /\ Progress(k)
      /\ fetch.at = "none" /\ earlier.load.at = "none"
      /\ \A j \in Turns : Open(j) => j = k
  BY <1>4, <1>6, StreamingAlone
<1>8. server'[k] = to /\ events'[k] = events[k] \o event /\ \A j \in Turns : j # k => server'[j] = server[j]
  BY <1>2, <1>4
<1>9. /\ \A n : Asks(k, n) => Asking(cache'.items, cache'.earlierCursor, stored', k, n)
      /\ Shows(L) => PageTo(cache'.items, cache'.earlierCursor, stored', L)
  <2>1. ASSUME NEW n, Asks(k, n)
        PROVE  Asking(cache'.items, cache'.earlierCursor, stored', k, n)
    BY <1>2, <1>3, <1>4, <2>1, AskingStays DEF Asks
  <2>2. ASSUME Shows(L)
        PROVE  PageTo(cache'.items, cache'.earlierCursor, stored', L)
    <3>1. L \in 0 .. Len(stored)
      BY <1>2
    <3> HIDE DEF L
    <3> QED
      BY <1>2, <1>3, <1>4, <2>2, <3>1, PageToStays DEF Shows
  <2> QED
    BY <2>1, <2>2
<1>10. Progress(k)'
  <2> DEFINE R == Len(stored')
  <2>1. CASE to = "answering"
    <3>1. server[k] = "posted" /\ new = <<u>> /\ event = <<"message_start">>
      BY <1>1, <2>1 DEF Served
    <3>2. events[k] = <<>> /\ Asks(k, L)
      BY <1>7, <3>1 DEF Progress
    <3>3. events'[k] = <<"message_start">>
      BY <1>8, <3>1, <3>2
    <3>4. R = L + 1 /\ stored'[R] = u /\ R > 0 /\ R - 1 = L
      <4>1. stored' = stored \o <<u>>
        BY <1>4, <3>1
      <4> HIDE DEF u
      <4> QED
        BY <1>2, <4>1
    <3>5. Asking(cache'.items, cache'.earlierCursor, stored', k, R - 1)
      <4>1. Asking(cache'.items, cache'.earlierCursor, stored', k, L)
        BY <1>9, <3>2
      <4> HIDE DEF R, L
      <4> QED
        BY <3>4, <4>1
    <3> QED
      BY <1>8, <2>1, <3>3, <3>4, <3>5 DEF Progress, Asks
  <2>2. CASE to = "over" /\ event = <<"done">>
    <3>1. server[k] = "answering" /\ new = <<a>>
      BY <1>1, <2>2 DEF Served
    <3>2. R = L + 1 /\ stored'[R] = a /\ R > 0 /\ R - 1 = L /\ (L > 0 => stored'[L] = stored[L])
      <4>1. stored' = stored \o <<a>>
        BY <1>4, <3>1
      <4> HIDE DEF a
      <4> QED
        BY <1>2, <4>1
    <3>3. CASE /\ events[k] = <<"message_start">> /\ L > 0
               /\ stored[L] = u /\ Asks(k, L - 1)
      <4>1. events'[k] = <<"message_start", "done">>
        <5>1. "message_start" \in Event /\ "done" \in Event
          BY DEF Event
        <5> QED
          BY <1>8, <2>2, <3>3, <5>1, EventsJoin
      <4>2. Asking(cache'.items, cache'.earlierCursor, stored', k, L - 1)
        BY <1>9, <3>3
      <4>3. R > 1 /\ R - 2 = L - 1 /\ stored'[R - 1] = u
        BY <1>2, <3>2, <3>3
      <4>4. Asking(cache'.items, cache'.earlierCursor, stored', k, R - 2)
        <5> HIDE DEF R, L
        <5> QED
          BY <4>2, <4>3
      <4> QED
        BY <1>8, <2>2, <3>2, <4>1, <4>3, <4>4 DEF Progress, Asks
    <3>4. CASE events[k] = <<>> /\ Shows(L)
      <4>1. events'[k] = <<"done">>
        BY <1>8, <2>2, <3>4
      <4>2. PageTo(cache'.items, cache'.earlierCursor, stored', L)
        BY <1>9, <3>4
      <4>3. PageTo(cache'.items, cache'.earlierCursor, stored', R - 1)
        <5> HIDE DEF R, L
        <5> QED
          BY <3>2, <4>2
      <4> QED
        BY <1>8, <2>2, <3>2, <4>1, <4>3 DEF Progress, Shows
    <3> QED
      BY <1>7, <3>1, <3>3, <3>4 DEF Progress
  <2>3. CASE to = "over" /\ event # <<"done">>
    <3>1. /\ server[k] = "posted" => event \in {<<>>, <<"rejected">>}
          /\ server[k] = "answering" => event \in {<<>>, <<"error">>}
      BY <1>1, <2>3 DEF Served
    <3>2. /\ server[k] = "posted" => events[k] = <<>>
          /\ server[k] = "answering" => events[k] \in {<<>>, <<"message_start">>}
      BY <1>7 DEF Progress
    <3>3. /\ <<>> \o <<>> = <<>> /\ <<>> \o <<"rejected">> = <<"rejected">>
          /\ <<>> \o <<"error">> = <<"error">> /\ <<"message_start">> \o <<>> = <<"message_start">>
          /\ <<"message_start">> \o <<"error">> = <<"message_start", "error">>
      <4>1. "message_start" \in Event /\ "error" \in Event /\ "rejected" \in Event
        BY DEF Event
      <4> HIDE DEF Event
      <4>2. <<"message_start">> \in Seq(Event) /\ <<"error">> \in Seq(Event)
            /\ <<"rejected">> \in Seq(Event) /\ <<>> \in Seq(Event)
        BY <4>1
      <4> QED
        BY <4>1, <4>2, EventsJoin
    <3>4. events'[k] \in {<<>>, <<"message_start">>, <<"error">>, <<"rejected">>,
                          <<"message_start", "error">>}
      BY <1>4, <1>8, <3>1, <3>2, <3>3
    <3> QED
      BY <1>8, <2>3, <3>4 DEF Progress
  <2> QED
    BY <1>1, <2>1, <2>2, <2>3 DEF Served
<1>11. \A j \in Turns : Open(j)' => j = k
  BY <1>4, <1>7 DEF Open
<1>12. TurnsSteady'
  <2>1. \A j \in Turns : loop'[j] = "closed" => server'[j] = "over"
    BY <1>4, <1>5, <1>6, <1>8 DEF TurnsSteady, Open
  <2>2. status' = "streaming"
    BY <1>4, <1>7
  <2> QED
    BY <1>10, <1>11, <2>1, <2>2 DEF TurnsSteady
<1>13. RequestsSteady'
  BY <1>4, <1>7 DEF RequestsSteady
<1>14. ListSteady'
  BY <1>4, <1>6, <1>7 DEF ListSteady, Open
<1> QED
  BY <1>12, <1>13, <1>14

LEMMA SteadyQuery ==
  ASSUME ViewInv, ViewInv', Steady,
         FetchAnswered \/ FetchArrives \/ FetchFails \/ Focus
         \/ EarlierAnswered \/ EarlierArrives \/ EarlierFails \/ LoadEarlier
  PROVE  Steady'
<1> DEFINE L == Len(stored)
<1>1. /\ stored' = stored /\ server' = server /\ loop' = loop /\ events' = events
      /\ status' = status
  BY DEF FetchAnswered, FetchArrives, FetchFails, Focus, EarlierAnswered, EarlierArrives,
         EarlierFails, LoadEarlier
<1>2. /\ stored \in Seq(Message) /\ Plain(stored) /\ Distinct(stored)
      /\ cache \in Cache /\ fetch \in Fetch
      /\ earlier \in [load : Fetch, base : Seq(Message), cursor : Cursors]
  BY DEF ViewInv, TypeOK, StoredOK, Plain
<1> SUFFICES ASSUME ~overlap'
             PROVE  TurnsSteady' /\ RequestsSteady' /\ ListSteady'
  BY DEF Steady
<1>3. ~overlap
  BY DEF FetchAnswered, FetchArrives, FetchFails, Focus, EarlierAnswered, EarlierArrives,
         EarlierFails, LoadEarlier
<1>4. TurnsSteady /\ RequestsSteady /\ ListSteady
  BY <1>3 DEF Steady
<1>5. (\A j \in Turns : Open(j)' <=> Open(j)) /\ ((\A j \in Turns : ~Open(j)') <=> \A j \in Turns : ~Open(j))
  BY <1>1 DEF Open
<1>6. ASSUME (\A j \in Turns : Open(j) => status # "streaming") \/ cache' = cache
      PROVE  TurnsSteady'
  <2>1. CASE \A j \in Turns : Open(j) => status # "streaming"
    BY <1>1, <1>4, <2>1 DEF TurnsSteady, Open
  <2>2. CASE cache' = cache
    <3>1. \A j \in Turns : Progress(j)' <=> Progress(j)
      BY <1>1, <2>2 DEF Progress, Asks, Shows
    <3> QED
      BY <1>1, <1>4, <3>1 DEF TurnsSteady, Open
  <2> QED
    BY <1>6, <2>1, <2>2
<1>7. ASSUME cache' = cache, fetch'.at # "none" \/ fetch.at = "none"
      PROVE  ListSteady'
  BY <1>1, <1>4, <1>5, <1>7 DEF ListSteady, Shows
<1>8. CASE FetchAnswered
  <2>1. fetch.at = "sent" /\ fetch' = Page(None) /\ UNCHANGED <<cache, earlier>>
    BY <1>8 DEF FetchAnswered
  <2>2. /\ fetch'.at = "answered" /\ PageTo(fetch'.items, fetch'.next, stored, L)
    <3>1. L \in 0 .. Len(stored)
      BY <1>2
    <3> QED
      BY <1>2, <2>1, <3>1, PageIs
  <2>3. earlier.load.at = "none" /\ \A j \in Turns : Open(j) => status # "streaming"
    BY <1>4, <2>1 DEF RequestsSteady
  <2>4. RequestsSteady'
    BY <1>1, <1>5, <2>1, <2>2, <2>3 DEF RequestsSteady
  <2> QED
    BY <1>6, <1>7, <2>1, <2>2, <2>4
<1>9. CASE FetchArrives
  <2>1. /\ fetch.at = "answered" /\ fetch' = Idle /\ UNCHANGED earlier
        /\ cache' = [loaded |-> TRUE, items |-> fetch.items, earlierCursor |-> fetch.next]
    BY <1>9 DEF FetchArrives
  <2>2. /\ earlier.load.at = "none" /\ \A j \in Turns : Open(j) => status # "streaming"
        /\ PageTo(fetch.items, fetch.next, stored, L)
    BY <1>4, <2>1 DEF RequestsSteady
  <2>3. RequestsSteady'
    BY <2>1, <2>2, FixedAnswers DEF RequestsSteady
  <2>4. ListSteady'
    BY <1>1, <2>1, <2>2 DEF ListSteady, Shows
  <2> QED
    BY <1>6, <2>2, <2>3, <2>4
<1>10. CASE FetchFails
  <2>1. overlap'
    BY <1>10 DEF FetchFails
  <2> QED
    BY <2>1
<1>11. CASE Focus
  <2>1. /\ fetch' = Asked /\ UNCHANGED <<cache, earlier>>
        /\ status # "streaming" /\ earlier.load.at = "none"
    BY <1>11 DEF Focus
  <2>2. RequestsSteady'
    BY <1>1, <2>1, FixedAnswers DEF RequestsSteady
  <2> QED
    BY <1>6, <1>7, <2>1, <2>2, FixedAnswers
<1>12. CASE LoadEarlier
  <2>1. /\ earlier' = [load |-> Asked, base |-> cache.items, cursor |-> cache.earlierCursor]
        /\ UNCHANGED <<cache, fetch>> /\ status # "streaming" /\ fetch.at = "none"
    BY <1>12 DEF LoadEarlier
  <2>2. /\ earlier'.base = cache.items /\ earlier'.cursor = cache.earlierCursor
    BY <2>1
  <2>3. RequestsSteady'
    BY <1>1, <2>1, <2>2 DEF RequestsSteady
  <2> QED
    BY <1>6, <1>7, <2>1, <2>3
<1>13. CASE EarlierAnswered
  <2>1. /\ earlier.load.at = "sent" /\ UNCHANGED <<cache, fetch>>
        /\ earlier' = [earlier EXCEPT !.load = Page(earlier.cursor)]
    BY <1>13 DEF EarlierAnswered
  <2>2. earlier'.base = earlier.base /\ earlier'.cursor = earlier.cursor
    BY <1>2, <2>1
  <2>3. fetch.at = "none" /\ \A j \in Turns : Open(j) => status # "streaming"
    BY <1>4, <2>1 DEF RequestsSteady
  <2>4. earlier.base = cache.items /\ earlier.cursor = cache.earlierCursor
    BY <1>4, <2>1 DEF RequestsSteady
  <2>5. RequestsSteady'
    BY <1>1, <1>5, <2>1, <2>2, <2>3, <2>4 DEF RequestsSteady
  <2> QED
    BY <1>6, <1>7, <2>1, <2>3, <2>5
<1>14. CASE EarlierArrives
  <2>1. /\ earlier.load.at = "answered" /\ UNCHANGED fetch
        /\ cache' = [loaded |-> TRUE, items |-> earlier.load.items \o earlier.base,
                     earlierCursor |-> earlier.load.next]
        /\ earlier' = [load |-> Idle, base |-> <<>>, cursor |-> None]
    BY <1>14 DEF EarlierArrives
  <2>2. /\ fetch.at = "none" /\ \A j \in Turns : Open(j) => status # "streaming"
        /\ earlier.base = cache.items /\ earlier.cursor = cache.earlierCursor
    BY <1>4, <2>1 DEF RequestsSteady
  <2>3. PICK c \in DOMAIN stored :
             /\ stored[c] = earlier.cursor
             /\ PageTo(earlier.load.items, earlier.load.next, stored, c - 1)
    BY <2>1 DEF ViewInv, EarlierOK
  <2>4. earlier.load.items \in Seq(Message) /\ earlier.base \in Seq(Message)
    BY <1>2 DEF Fetch
  <2>5. ASSUME Shows(L)
        PROVE  PageTo(cache'.items, cache'.earlierCursor, stored, L)
    <3>1. PageTo(earlier.base, earlier.cursor, stored, L)
      BY <2>2, <2>5 DEF Shows
    <3> HIDE DEF L
    <3>2. PageTo(earlier.load.items \o earlier.base, earlier.load.next, stored, L)
      BY <1>2, <2>3, <2>4, <3>1, PageAndPage
    <3> QED
      BY <2>1, <3>2
  <2>6. ListSteady'
    BY <1>1, <1>4, <1>5, <2>1, <2>2, <2>5 DEF ListSteady, Shows
  <2>7. RequestsSteady'
    BY <2>1, <2>2, FixedAnswers DEF RequestsSteady
  <2> QED
    BY <1>6, <2>2, <2>6, <2>7
<1>15. CASE EarlierFails
  <2>1. /\ earlier' = [load |-> Idle, base |-> <<>>, cursor |-> None]
        /\ UNCHANGED <<cache, fetch>> /\ earlier.load.at = "sent"
    BY <1>15 DEF EarlierFails
  <2>2. fetch.at = "none"
    BY <1>4, <2>1 DEF RequestsSteady
  <2>3. RequestsSteady'
    BY <2>1, <2>2, FixedAnswers DEF RequestsSteady
  <2> QED
    BY <1>6, <1>7, <2>1, <2>2, <2>3
<1> QED
  BY <1>8, <1>9, <1>10, <1>11, <1>12, <1>13, <1>14, <1>15

\* A turn begins on a list that is a page up to the last message.
LEMMA SteadySend ==
  ASSUME ViewInv, Steady, NEW k \in Turns, Send(k)
  PROVE  Steady'
<1> DEFINE L == Len(stored)
           more == Append(cache.items, <<"temp", k>>)
<1>1. /\ status # "streaming" /\ loop[k] = "none" /\ status' = "streaming"
      /\ loop' = [loop EXCEPT ![k] = "open"]
      /\ server' = [server EXCEPT ![k] = "posted"]
      /\ Patched(more)
      /\ UNCHANGED <<stored, events, fetch, earlier>>
  BY DEF Send
<1>2. /\ stored \in Seq(Message) /\ loop \in [Turns -> {"none", "open", "closed"}]
      /\ server \in [Turns -> {"none", "posted", "answering", "over"}]
      /\ cache.items \in Seq(Message) /\ cache \in Cache
  BY DEF ViewInv, TypeOK, Cache
<1> SUFFICES ASSUME ~overlap'
             PROVE  TurnsSteady' /\ RequestsSteady' /\ ListSteady'
  BY DEF Steady
<1>3. /\ ~overlap /\ fetch.at = "none" /\ earlier.load.at = "none"
      /\ \A j \in Turns : ~Open(j)
  BY DEF Send, Open
<1>4. TurnsSteady /\ ListSteady
  BY <1>3 DEF Steady
<1>5. Shows(L)
  BY <1>3, <1>4 DEF ListSteady
<1>6. Asking(more, cache.earlierCursor, stored, k, L)
  <2> HIDE DEF L
  <2> QED
    BY <1>2, <1>5, AskOfPage DEF Shows
<1> HIDE DEF more
<1>7. cache'.items = more /\ cache'.earlierCursor = cache.earlierCursor
  BY <1>1, <1>2 DEF Patched, Cache
<1>8. events[k] = <<>>
  BY <1>1 DEF ViewInv, StoredOK
<1>9. Progress(k)'
  BY <1>1, <1>2, <1>6, <1>7, <1>8 DEF Progress, Asks
<1>10. \A j \in Turns : /\ j # k => loop'[j] = loop[j] /\ server'[j] = server[j]
                        /\ loop'[j] = "open" <=> j = k
  BY <1>1, <1>2, <1>3 DEF Open
<1>11. TurnsSteady'
  <2>1. \A j \in Turns : loop'[j] = "closed" => server'[j] = "over"
    BY <1>1, <1>4, <1>10 DEF TurnsSteady
  <2> QED
    BY <1>1, <1>9, <1>10, <2>1 DEF TurnsSteady, Open
<1>12. RequestsSteady'
  BY <1>1, <1>3 DEF RequestsSteady
<1>13. ListSteady'
  BY <1>1, <1>10 DEF ListSteady, Open
<1> QED
  BY <1>11, <1>12, <1>13

\* The loop of a turn ends.
LEMMA SteadyEnd ==
  ASSUME ViewInv, Steady, NEW k \in Turns, Open(k), NEW st, EndLoop(k, st),
         st = "done" => status = "done",
         UNCHANGED <<stored, server, cache, earlier>>
  PROVE  Steady'
<1>1. /\ loop' = [loop EXCEPT ![k] = "closed"]
      /\ status' = IF st = "streaming" THEN "error" ELSE st
  BY DEF EndLoop
<1>2. /\ loop \in [Turns -> {"none", "open", "closed"}]
      /\ server \in [Turns -> {"none", "posted", "answering", "over"}]
  BY DEF ViewInv, TypeOK
<1> SUFFICES ASSUME ~overlap'
             PROVE  TurnsSteady' /\ RequestsSteady' /\ ListSteady'
  BY DEF Steady
<1>3. /\ ~overlap
      /\ status' # "done" => /\ Refetch /\ earlier.load.at = "none"
                             /\ server[k] \notin {"posted", "answering"}
      /\ status' = "done" => fetch' = fetch
  BY DEF EndLoop
<1>4. TurnsSteady /\ RequestsSteady /\ ListSteady
  BY <1>3 DEF Steady
<1>5. server[k] = "over"
  <2>1. CASE status = "streaming"
    <3>1. Progress(k)
      BY <1>4, <2>1 DEF TurnsSteady
    <3>2. status' # "done"
      BY <1>1, <2>1
    <3> QED
      BY <1>3, <3>1, <3>2 DEF Progress
  <2>2. CASE status # "streaming"
    BY <1>4, <2>2 DEF TurnsSteady
  <2> QED
    BY <2>1, <2>2
<1>6. \A j \in Turns : loop'[j] # "open" /\ (j # k => loop'[j] = loop[j])
  BY <1>1, <1>2, <1>4 DEF TurnsSteady, Open
<1>7. TurnsSteady'
  BY <1>4, <1>5, <1>6 DEF TurnsSteady, Open
<1>8. CASE status' = "done"
  <2>1. status = "done" /\ fetch' = fetch
    BY <1>1, <1>3, <1>8
  <2>2. RequestsSteady'
    BY <1>4, <1>6, <2>1 DEF RequestsSteady, Open
  <2>3. ListSteady'
    BY <1>4, <2>1 DEF ListSteady, Shows
  <2> QED
    BY <1>7, <2>2, <2>3
<1>9. CASE status' # "done"
  <2>1. Refetch /\ earlier.load.at = "none"
    BY <1>3, <1>9
  <2>2. fetch'.at = "sent" \/ (fetch' = fetch /\ fetch.at # "none")
    BY <2>1, FixedAnswers DEF Refetch
  <2>3. ListSteady'
    BY <2>2 DEF ListSteady
  <2>4. RequestsSteady'
    BY <1>4, <1>6, <2>1, <2>2 DEF RequestsSteady, Open
  <2> QED
    BY <1>7, <2>3, <2>4
<1> QED
  BY <1>8, <1>9

LEMMA SteadyStream ==
  ASSUME ViewInv, Steady, NEW k \in Turns,
         MessageStart(k) \/ Done(k) \/ Error(k) \/ Rejected(k) \/ EndOfStream(k)
         \/ Disconnect(k) \/ Abort(k)
  PROVE  Steady'
<1> DEFINE L == Len(stored)
<1>1. /\ stored' = stored /\ server' = server /\ earlier' = earlier /\ Open(k)
  BY DEF MessageStart, Done, Error, Rejected, EndOfStream, Disconnect, Abort, Leave, Reads, Open
<1>2. /\ stored \in Seq(Message) /\ Plain(stored) /\ loop \in [Turns -> {"none", "open", "closed"}]
      /\ events \in [Turns -> Seq(Event)] /\ events[k] \in Seq(Event)
      /\ cache.items \in Seq(Message) /\ cache \in Cache
  BY DEF ViewInv, TypeOK, StoredOK, Cache
<1>3. ASSUME ~overlap, UNCHANGED <<loop, fetch>>, events[k] # <<>>,
             events' = [events EXCEPT ![k] = Tail(@)],
             status' = "streaming" => Progress(k)' /\ status = "streaming",
             status' # "streaming" => server[k] = "over" /\ Tail(events[k]) = <<>>,
             status' = "done" => PageTo(cache'.items, cache'.earlierCursor, stored, L)
      PROVE  TurnsSteady' /\ RequestsSteady' /\ ListSteady'
  <2>1. /\ fetch.at = "none" /\ earlier.load.at = "none"
        /\ \A j \in Turns : Open(j) => j = k
    BY <1>1, <1>3, StreamingAlone
  <2>2. TurnsSteady
    BY <1>3 DEF Steady
  <2>3. events'[k] = Tail(events[k])
    BY <1>2, <1>3
  <2>4. TurnsSteady'
    <3>1. \A j \in Turns : loop'[j] = "closed" => server'[j] = "over"
      BY <1>1, <1>3, <2>2 DEF TurnsSteady
    <3>2. \A j \in Turns : Open(j)' => j = k
      BY <1>3, <2>1 DEF Open
    <3>3. status' # "streaming" => server'[k] = "over" /\ events'[k] = <<>>
      BY <1>1, <1>3, <2>3
    <3> QED
      BY <1>3, <3>1, <3>2, <3>3 DEF TurnsSteady
  <2>5. RequestsSteady'
    BY <1>1, <1>3, <2>1 DEF RequestsSteady
  <2>6. ListSteady'
    <3>1. ~(\A j \in Turns : ~Open(j)')
      BY <1>1, <1>3 DEF Open
    <3> QED
      BY <1>1, <1>3, <3>1 DEF ListSteady, Shows
  <2> QED
    BY <2>4, <2>5, <2>6
<1>4. ASSUME NEW event, Reads(k, event), ~overlap
      PROVE  /\ events[k] # <<>> /\ events[k][1] = event
             /\ events' = [events EXCEPT ![k] = Tail(@)]
             /\ events'[k] = Tail(events[k])
             /\ status = "streaming" /\ Progress(k)
  BY <1>1, <1>2, <1>4, StreamingAlone DEF Reads
<1>5. /\ Tail(<<"message_start">>) = <<>> /\ Tail(<<"done">>) = <<>> /\ Tail(<<"error">>) = <<>>
      /\ Tail(<<"rejected">>) = <<>>
      /\ Tail(<<"message_start", "done">>) = <<"done">>
      /\ Tail(<<"message_start", "error">>) = <<"error">>
  <2>1. \A x \in Event : Tail(<<x>>) = <<>>
    OBVIOUS
  <2>2. ASSUME NEW x \in Event, NEW y \in Event
        PROVE  Tail(<<x, y>>) = <<y>>
    <3>1. <<x, y>> \in Seq(Event) /\ <<y>> \in Seq(Event) /\ <<x, y>> # <<>>
      OBVIOUS
    <3>2. /\ Tail(<<x, y>>) \in Seq(Event) /\ Len(Tail(<<x, y>>)) = 1
          /\ Tail(<<x, y>>)[1] = y
      BY <3>1
    <3> QED
      BY <3>1, <3>2, SeqEqual
  <2>3. /\ "message_start" \in Event /\ "done" \in Event /\ "error" \in Event
        /\ "rejected" \in Event
    BY DEF Event
  <2> QED
    BY <2>1, <2>2, <2>3
<1>6. CASE MessageStart(k)
  <2> DEFINE named == [i \in DOMAIN cache.items |->
                         IF cache.items[i] = <<"temp", k>> THEN <<"user", k>> ELSE cache.items[i]]
  <2>1. /\ Reads(k, "message_start") /\ Patched(named)
        /\ UNCHANGED <<loop, status, fetch, overlap>>
    BY <1>6 DEF MessageStart
  <2> SUFFICES ASSUME ~overlap
               PROVE  TurnsSteady' /\ RequestsSteady' /\ ListSteady'
    BY <2>1 DEF Steady
  <2>2. /\ events[k] # <<>> /\ events[k][1] = "message_start"
        /\ events' = [events EXCEPT ![k] = Tail(@)] /\ events'[k] = Tail(events[k])
        /\ status = "streaming" /\ Progress(k)
    BY <1>4, <2>1
  <2>3. ASSUME NEW n \in Nat, Asks(k, n), n + 1 <= Len(stored), stored[n + 1] = <<"user", k>>
        PROVE  PageTo(named, cache.earlierCursor, stored, n + 1)
    BY <1>2, <2>3, PageOfAsk DEF Asks
  <2> HIDE DEF named
  <2>4. cache'.items = named /\ cache'.earlierCursor = cache.earlierCursor
    BY <1>2, <2>1 DEF Patched, Cache
  <2>5. Progress(k)'
    <3>1. CASE /\ server[k] = "answering" /\ events[k] = <<"message_start">>
               /\ L > 0 /\ stored[L] = <<"user", k>> /\ Asks(k, L - 1)
      <4>1. L - 1 \in Nat /\ (L - 1) + 1 = L /\ L <= Len(stored)
        BY <1>2, <3>1
      <4> HIDE DEF L
      <4>2. PageTo(named, cache.earlierCursor, stored, L)
        BY <2>3, <3>1, <4>1
      <4> QED
        BY <1>1, <1>5, <2>2, <2>4, <3>1, <4>2 DEF Progress, Shows, L
    <3>2. CASE /\ server[k] = "over" /\ events[k] = <<"message_start", "done">>
               /\ L > 1 /\ stored[L - 1] = <<"user", k>> /\ stored[L] = <<"assistant", k>>
               /\ Asks(k, L - 2)
      <4>1. L - 2 \in Nat /\ (L - 2) + 1 = L - 1 /\ L - 1 <= Len(stored) /\ L > 0
        BY <1>2, <3>2
      <4> HIDE DEF L
      <4>2. PageTo(named, cache.earlierCursor, stored, L - 1)
        BY <2>3, <3>2, <4>1
      <4> QED
        BY <1>1, <1>5, <2>2, <2>4, <3>2, <4>1, <4>2 DEF Progress, Shows, L
    <3>3. CASE /\ server[k] = "over"
               /\ events[k] \in {<<"message_start">>, <<"message_start", "error">>}
      <4>1. events'[k] \in {<<>>, <<"error">>}
        BY <1>5, <2>2, <3>3
      <4> QED
        BY <1>1, <3>3, <4>1 DEF Progress
    <3>4. /\ <<"done">>[1] = "done" /\ <<"error">>[1] = "error" /\ <<"rejected">>[1] = "rejected"
      OBVIOUS
    <3> QED
      BY <2>2, <3>1, <3>2, <3>3, <3>4 DEF Progress
  <2> QED
    BY <1>3, <2>1, <2>2, <2>5
<1>7. CASE Done(k)
  <2> DEFINE m == <<"assistant", k>>
             more == Append(cache.items, m)
  <2>1. /\ Reads(k, "done") /\ Patched(more) /\ status' = "done"
        /\ UNCHANGED <<loop, fetch, overlap>>
    BY <1>7 DEF Done
  <2> SUFFICES ASSUME ~overlap
               PROVE  TurnsSteady' /\ RequestsSteady' /\ ListSteady'
    BY <2>1 DEF Steady
  <2>2. /\ events[k] # <<>> /\ events[k][1] = "done"
        /\ events' = [events EXCEPT ![k] = Tail(@)] /\ events'[k] = Tail(events[k])
        /\ status = "streaming" /\ Progress(k)
    BY <1>4, <2>1
  <2>3. /\ <<"message_start">>[1] = "message_start" /\ <<"error">>[1] = "error"
        /\ <<"rejected">>[1] = "rejected" /\ <<"message_start", "done">>[1] = "message_start"
        /\ <<"message_start", "error">>[1] = "message_start"
    OBVIOUS
  <2>4. /\ server[k] = "over" /\ events[k] = <<"done">>
        /\ L > 0 /\ stored[L] = m /\ Shows(L - 1)
    BY <2>2, <2>3 DEF Progress
  <2>5. m \in Message
    BY KindOf
  <2>6. L - 1 \in Nat /\ (L - 1) + 1 = L /\ L <= Len(stored)
    BY <1>2, <2>4
  <2> HIDE DEF L, m
  <2>7. PageTo(more, cache.earlierCursor, stored, L)
    BY <1>2, <2>4, <2>5, <2>6, PageAndAnswer DEF Shows
  <2> HIDE DEF more
  <2>8. cache'.items = more /\ cache'.earlierCursor = cache.earlierCursor
    BY <1>2, <2>1 DEF Patched, Cache
  <2>9. PageTo(cache'.items, cache'.earlierCursor, stored, L)
    BY <2>7, <2>8
  <2> QED
    BY <1>3, <1>5, <2>1, <2>2, <2>4, <2>9
<1>8. CASE Error(k)
  <2>1. /\ Reads(k, "error") /\ status' = "error"
        /\ UNCHANGED <<loop, cache, fetch, overlap>>
    BY <1>8 DEF Error
  <2> SUFFICES ASSUME ~overlap
               PROVE  TurnsSteady' /\ RequestsSteady' /\ ListSteady'
    BY <2>1 DEF Steady
  <2>2. /\ events[k] # <<>> /\ events[k][1] = "error"
        /\ events' = [events EXCEPT ![k] = Tail(@)] /\ events'[k] = Tail(events[k])
        /\ status = "streaming" /\ Progress(k)
    BY <1>4, <2>1
  <2>3. /\ <<"message_start">>[1] = "message_start" /\ <<"done">>[1] = "done"
        /\ <<"rejected">>[1] = "rejected" /\ <<"message_start", "done">>[1] = "message_start"
        /\ <<"message_start", "error">>[1] = "message_start"
    OBVIOUS
  <2>4. server[k] = "over" /\ events[k] = <<"error">>
    BY <2>2, <2>3 DEF Progress
  <2> QED
    BY <1>3, <1>5, <2>1, <2>2, <2>4
<1>9. CASE Rejected(k)
  <2>1. EndLoop(k, "error") /\ UNCHANGED cache
    BY <1>9 DEF Rejected
  <2> QED
    BY <1>1, <2>1, SteadyEnd
<1>10. CASE EndOfStream(k)
  <2>1. EndLoop(k, status) /\ UNCHANGED cache
    BY <1>10 DEF EndOfStream
  <2> QED
    BY <1>1, <2>1, SteadyEnd
<1>11. CASE Disconnect(k)
  <2>1. EndLoop(k, "error") /\ UNCHANGED cache
    BY <1>11 DEF Disconnect, Leave
  <2> QED
    BY <1>1, <2>1, SteadyEnd
<1>12. CASE Abort(k)
  <2>1. EndLoop(k, "idle") /\ UNCHANGED cache
    BY <1>12 DEF Abort, Leave
  <2> QED
    BY <1>1, <2>1, SteadyEnd
<1> QED
  BY <1>6, <1>7, <1>8, <1>9, <1>10, <1>11, <1>12

LEMMA SteadyInit == Init => Steady
<1> SUFFICES ASSUME Init PROVE TurnsSteady /\ RequestsSteady /\ ListSteady
  BY DEF Steady
<1>1. fetch.at = "sent" /\ earlier.load.at = "none" /\ \A k \in Turns : loop[k] = "none"
  BY FixedAnswers DEF Init
<1>2. TurnsSteady
  BY <1>1 DEF TurnsSteady, Open
<1>3. RequestsSteady /\ ListSteady
  BY <1>1 DEF RequestsSteady, ListSteady, Open
<1> QED
  BY <1>2, <1>3

LEMMA SteadyStep == ViewInv /\ ViewInv' /\ Steady /\ [Next]_vars => Steady'
<1> SUFFICES ASSUME ViewInv, ViewInv', Steady, [Next]_vars PROVE Steady'
  OBVIOUS
<1>1. ASSUME NEW k \in Turns, Server(k)
      PROVE  Steady'
  BY <1>1, SteadyServer
<1>2. ASSUME NEW k \in Turns, Window(k) \/ Disconnect(k) \/ Abort(k)
      PROVE  Steady'
  BY <1>2, SteadyStream DEF Window
<1>3. ASSUME NEW k \in Turns, Send(k)
      PROVE  Steady'
  BY <1>3, SteadySend
<1>4. CASE Query \/ FetchFails \/ EarlierFails \/ Focus \/ LoadEarlier
  BY <1>4, SteadyQuery DEF Query
<1>5. CASE UNCHANGED vars
  <2>1. UNCHANGED <<stored, server, events, loop, status, cache, fetch, earlier, overlap>>
    BY <1>5 DEF vars
  <2>2. \A k \in Turns : Progress(k)' <=> Progress(k)
    BY <2>1 DEF Progress, Asks, Shows
  <2>3. TurnsSteady' <=> TurnsSteady
    BY <2>1, <2>2 DEF TurnsSteady, Open
  <2>4. (RequestsSteady' <=> RequestsSteady) /\ (ListSteady' <=> ListSteady)
    BY <2>1 DEF RequestsSteady, ListSteady, Open, Shows
  <2> QED
    BY <2>1, <2>3, <2>4 DEF Steady
<1> QED
  BY <1>1, <1>2, <1>3, <1>4, <1>5 DEF Next

\* A page up to the last message is what Aligned asks for.
LEMMA ShowsAligned ==
  ASSUME ViewInv, Shows(Len(stored))
  PROVE  Aligned
<1> DEFINE L == Len(stored)
           n == Len(cache.items)
<1>1. stored \in Seq(Message) /\ cache.items \in Seq(Message)
  BY DEF ViewInv, TypeOK, Cache
<1>2. PICK d \in 0 .. L : /\ Slice(cache.items, stored, d, L)
                          /\ From(cache.earlierCursor, stored, d, L)
  BY DEF Shows, PageTo
<1>3. n = L - d /\ \A i \in 1 .. n : cache.items[i] = stored[d + i]
  BY <1>1, <1>2 DEF Slice
<1>4. L - n + 1 = d + 1 /\ L \in Nat
  BY <1>1, <1>3
<1>5. cache.items = SubSeq(stored, d + 1, L)
  <2> DEFINE part == SubSeq(stored, d + 1, L)
  <2>1. part \in Seq(Message) /\ Len(part) = L - d /\ \A i \in 1 .. L - d : part[i] = stored[d + i]
    BY <1>1, <1>4
  <2> HIDE DEF part
  <2>2. cache.items = part
    BY <1>1, <1>3, <2>1, SeqEqual
  <2> QED
    BY <2>2 DEF part
<1>6. cache.earlierCursor = IF n = L THEN None ELSE cache.items[1]
  <2>1. CASE d = 0
    BY <1>2, <1>3, <1>4, <2>1 DEF From
  <2>2. CASE d # 0
    <3>1. n # L /\ 1 \in 1 .. n /\ cache.earlierCursor = stored[d + 1]
      BY <1>2, <1>3, <1>4, <2>2 DEF From
    <3> QED
      BY <1>3, <3>1
  <2> QED
    BY <2>1, <2>2
<1>7. n <= L /\ cache.items = SubSeq(stored, L - n + 1, L)
  <2>1. n <= L
    BY <1>2, <1>3, <1>4
  <2> HIDE DEF n, L
  <2> QED
    BY <1>4, <1>5, <2>1
<1> QED
  BY <1>6, <1>7 DEF Aligned

\* useMessages.ts:41, for any interleaving of turns, refetches and earlier pages in
\* which no two loads overlap: once nothing is under way, the list is the end of what
\* the server stores, with the cursor of what comes before it.
THEOREM AlignedAtRest == Spec => []AlignedUnlessOverlapped
<1>1. Init => ViewInv /\ Steady
  BY InitInv, SteadyInit
<1>2. ViewInv /\ Steady /\ [Next]_vars => ViewInv' /\ Steady'
  BY StepInv, SteadyStep
<1>3. ViewInv /\ Steady => AlignedUnlessOverlapped
  <2> SUFFICES ASSUME ViewInv, Steady, AtRest, ~overlap
               PROVE  Aligned
    BY DEF AlignedUnlessOverlapped
  <2>1. Shows(Len(stored))
    BY DEF Steady, ListSteady, AtRest, Open
  <2> QED
    BY <2>1, ShowsAligned
<1> QED
  BY <1>1, <1>2, <1>3, PTL DEF Spec
=============================================================================
