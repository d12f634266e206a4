---------------- MODULE ReplicationProofs ----------------
(* Proofs about Replication, for every set of files, artifacts, followers,
   every page size and every bound; and about Operator, the commands that
   back up a data directory and restore it, for every set of blobs, every
   content of the directory and any number of commands and of failures. *)
EXTENDS Replication, Operator, FiniteSetTheorems, SequenceTheorems, WellFoundedInduction, TLAPS

--------------------------------
(* What Replay, the fold of a journal's row changes, computes: it splits   *)
(* at any serial and depends only on the entries it reads.  Replay is      *)
(* defined by the last entry that touches a row; that there is one rests   *)
(* on the least-number principle, taken from the well-foundedness of < on  *)
(* the naturals.                                                           *)

(* A non-empty set of naturals has a least element. *)
LEMMA LeastNatural ==
    ASSUME NEW T \in SUBSET Nat, T # {}
    PROVE  \E m \in T : \A n \in T : m <= n
<1> DEFINE R == {ss \in Nat \X Nat : ss[1] < ss[2]}
<1>1. IsWellFoundedOn(R, Nat) BY NatLessThanWellFounded, Zenon DEF OpToRel
<1>2. \E x \in T : \A y \in T : ~(<<y, x>> \in R)
  <2> HIDE DEF R
  <2> QED BY <1>1, WFMin
<1>3. PICK x \in T : \A y \in T : ~(<<y, x>> \in R) BY <1>2
<1>4. \A y \in T : ~(y < x) BY <1>3
<1> QED BY <1>4

(* A row touched by some serial of a range has a last one that touches it. *)
LEMMA LastTouchExists ==
    ASSUME NEW journal, NEW a \in Nat, NEW s \in Nat, NEW k,
           \E i \in (a + 1)..s : journal[i].mut[k] # Untouched
    PROVE  \E i \in (a + 1)..s : IsLastTouch(journal, a, s, k, i)
<1> DEFINE T == {n \in Nat : /\ n <= s
                             /\ s - n \in (a + 1)..s
                             /\ journal[s - n].mut[k] # Untouched}
<1>1. PICK i \in (a + 1)..s : journal[i].mut[k] # Untouched OBVIOUS
<1>2. s - i \in Nat /\ s - (s - i) = i OBVIOUS
<1>3. s - i \in T BY <1>1, <1>2
<1>4. PICK m \in T : \A n \in T : m <= n
  <2> HIDE DEF T
  <2>1. T \in SUBSET Nat BY DEF T
  <2> QED BY <1>3, <2>1, LeastNatural
<1>5. \A n \in (s - m + 1)..s : journal[n].mut[k] = Untouched
  <2>1. SUFFICES ASSUME NEW n \in (s - m + 1)..s, journal[n].mut[k] # Untouched
                 PROVE  FALSE
    OBVIOUS
  <2>2. s - n \in Nat /\ s - (s - n) = n /\ s - n < m BY <1>4, <2>1
  <2>3. s - n \in T BY <1>4, <2>1, <2>2
  <2> QED BY <1>4, <2>2, <2>3
<1> QED BY <1>4, <1>5 DEF IsLastTouch

LEMMA LastTouchUnique ==
    ASSUME NEW journal, NEW a \in Nat, NEW s \in Nat, NEW k, NEW i, NEW n,
           IsLastTouch(journal, a, s, k, i), IsLastTouch(journal, a, s, k, n)
    PROVE  i = n
BY DEF IsLastTouch

LEMMA LastTouchChosen ==
    ASSUME NEW journal, NEW a \in Nat, NEW s \in Nat, NEW k, NEW i,
           IsLastTouch(journal, a, s, k, i)
    PROVE  HasTouch(journal, a, s, k) /\ LastTouch(journal, a, s, k) = i
<1>1. i \in (a + 1)..s /\ HasTouch(journal, a, s, k) BY DEF IsLastTouch, HasTouch
<1>2. IsLastTouch(journal, a, s, k, LastTouch(journal, a, s, k)) BY <1>1, Zenon DEF HasTouch, LastTouch
<1> QED BY <1>1, <1>2, LastTouchUnique

(* The row a range of the journal leaves behind, when the range touches it. *)
LEMMA ReplayTouched ==
    ASSUME NEW journal, NEW a \in Nat, NEW s \in Nat, NEW rows, NEW k \in Keys, NEW i,
           IsLastTouch(journal, a, s, k, i)
    PROVE  Replay(journal, a, s, rows)[k] = journal[i].mut[k]
BY LastTouchChosen DEF Replay

(* ... and when it does not. *)
LEMMA ReplayUntouched ==
    ASSUME NEW journal, NEW a \in Nat, NEW s \in Nat, NEW rows, NEW k \in Keys,
           \A n \in (a + 1)..s : journal[n].mut[k] = Untouched
    PROVE  /\ ~HasTouch(journal, a, s, k)
           /\ Replay(journal, a, s, rows)[k] = rows[k]
BY DEF Replay, HasTouch, IsLastTouch

(* Replaying a range is replaying its two halves one after the other. *)
LEMMA ReplaySplit ==
    ASSUME NEW journal, NEW a \in Nat, NEW s \in Nat, a <= s, NEW rows
    PROVE  Replay(journal, 0, s, rows)
             = Replay(journal, a, s, Replay(journal, 0, a, rows))
<1> DEFINE first == Replay(journal, 0, a, rows)
<1>1. ASSUME NEW k \in Keys
      PROVE  Replay(journal, 0, s, rows)[k] = Replay(journal, a, s, first)[k]
  <2>1. CASE \E i \in (a + 1)..s : journal[i].mut[k] # Untouched
    <3>1. PICK i \in (a + 1)..s : IsLastTouch(journal, a, s, k, i) BY <2>1, LastTouchExists
    <3>2. IsLastTouch(journal, 0, s, k, i) BY <3>1 DEF IsLastTouch
    <3>3. Replay(journal, a, s, first)[k] = journal[i].mut[k] BY <3>1, ReplayTouched
    <3>4. Replay(journal, 0, s, rows)[k] = journal[i].mut[k]
      <4> HIDE DEF first
      <4>1. 0 \in Nat OBVIOUS
      <4> QED BY ONLY <3>2, <4>1, s \in Nat, k \in Keys, ReplayTouched
    <3> HIDE DEF first
    <3> QED BY <3>3, <3>4
  <2>2. CASE ~ \E i \in (a + 1)..s : journal[i].mut[k] # Untouched
    <3>1. \A n \in (a + 1)..s : journal[n].mut[k] = Untouched BY <2>2
    <3>2. Replay(journal, a, s, first)[k] = first[k] BY <3>1, ReplayUntouched
    <3>3. CASE \E i \in (0 + 1)..a : journal[i].mut[k] # Untouched
      <4>1. PICK i \in (0 + 1)..a : IsLastTouch(journal, 0, a, k, i) BY <3>3, LastTouchExists, 0 \in Nat
      <4>2. IsLastTouch(journal, 0, s, k, i) BY <4>1, <3>1 DEF IsLastTouch
      <4>3. first[k] = journal[i].mut[k] BY <4>1, ReplayTouched, 0 \in Nat
      <4>4. Replay(journal, 0, s, rows)[k] = journal[i].mut[k]
        <5>1. 0 \in Nat OBVIOUS
        <5> QED BY ONLY <4>2, <5>1, s \in Nat, k \in Keys, ReplayTouched
      <4> QED BY <3>2, <4>3, <4>4
    <3>4. CASE ~ \E i \in (0 + 1)..a : journal[i].mut[k] # Untouched
      <4>1. first[k] = rows[k] BY <3>4, ReplayUntouched, 0 \in Nat
      <4>2. \A n \in (0 + 1)..s : journal[n].mut[k] = Untouched BY <3>1, <3>4
      <4>3. Replay(journal, 0, s, rows)[k] = rows[k] BY <4>2, ReplayUntouched, 0 \in Nat
      <4> QED BY <3>2, <4>1, <4>3
    <3> QED BY <3>3, <3>4
  <2> QED BY <2>1, <2>2
<1> QED BY <1>1 DEF Replay

(* changes is the part a+1..t of journal. *)
IsSlice(changes, journal, a, n, t) ==
    t = a + n /\ \A i \in 1..n : changes[i] = journal[a + i]

(* Replaying a page is replaying the slice of the journal it holds.         *)
LEMMA ReplaySlice ==
    ASSUME NEW journal, NEW changes, NEW a \in Nat, NEW n \in Nat, NEW t \in Nat,
           NEW rows, IsSlice(changes, journal, a, n, t)
    PROVE  Replay(changes, 0, n, rows) = Replay(journal, a, t, rows)
<1>0. t = a + n /\ \A i \in 1..n : changes[i] = journal[a + i] BY DEF IsSlice
<1>1. ASSUME NEW k \in Keys
      PROVE  Replay(changes, 0, n, rows)[k] = Replay(journal, a, t, rows)[k]
  <2>1. \A x \in (a + 1)..t : x - a \in 1..n /\ journal[x] = changes[x - a]
    <3> SUFFICES ASSUME NEW x \in (a + 1)..t
                 PROVE  x - a \in 1..n /\ journal[x] = changes[x - a]
      OBVIOUS
    <3>1. x - a \in 1..n /\ a + (x - a) = x BY <1>0
    <3> QED BY <1>0, <3>1
  <2>2. CASE \E i \in (0 + 1)..n : changes[i].mut[k] # Untouched
    <3>1. PICK i \in (0 + 1)..n : IsLastTouch(changes, 0, n, k, i) BY <2>2, LastTouchExists, 0 \in Nat
    <3>2. /\ i \in 1..n /\ changes[i].mut[k] # Untouched
          /\ \A x \in (i + 1)..n : changes[x].mut[k] = Untouched
      BY <3>1 DEF IsLastTouch
    <3>3. a + i \in (a + 1)..t /\ journal[a + i] = changes[i] BY <1>0, <3>2
    <3>4. ASSUME NEW x \in (a + i + 1)..t PROVE journal[x].mut[k] = Untouched
      <4>1. x \in (a + 1)..t /\ x - a \in (i + 1)..n BY <1>0, <3>2
      <4> QED BY <2>1, <3>2, <4>1
    <3>5. IsLastTouch(journal, a, t, k, a + i) BY <3>2, <3>3, <3>4 DEF IsLastTouch
    <3>6. Replay(changes, 0, n, rows)[k] = changes[i].mut[k]
      <4>1. 0 \in Nat OBVIOUS
      <4> QED BY ONLY <3>1, <4>1, n \in Nat, k \in Keys, ReplayTouched
    <3>7. Replay(journal, a, t, rows)[k] = journal[a + i].mut[k] BY <3>5, ReplayTouched
    <3> QED BY <3>3, <3>6, <3>7
  <2>3. CASE ~ \E i \in (0 + 1)..n : changes[i].mut[k] # Untouched
    <3>1. \A x \in (a + 1)..t : journal[x].mut[k] = Untouched BY <2>1, <2>3
    <3>2. Replay(changes, 0, n, rows)[k] = rows[k] BY <2>3, ReplayUntouched, 0 \in Nat
    <3>3. Replay(journal, a, t, rows)[k] = rows[k] BY <3>1, ReplayUntouched
    <3> QED BY <3>2, <3>3
  <2> QED BY <2>2, <2>3
<1> QED BY <1>1 DEF Replay

(* Rows at serial s depend on the first s entries only. *)
LEMMA ReplayPrefix ==
    ASSUME NEW one, NEW two, NEW s \in Nat, NEW rows,
           \A i \in 1..s : one[i] = two[i]
    PROVE  Replay(one, 0, s, rows) = Replay(two, 0, s, rows)
<1>1. IsSlice(one, two, 0, s, s) BY DEF IsSlice
<1> QED BY <1>1, ReplaySlice, 0 \in Nat

(* Entries a+1..s of which only the last one changes rows, by m. *)
LEMMA ReplayOneTxn ==
    ASSUME NEW journal, NEW a \in Nat, NEW s \in Nat, a < s, NEW m, NEW rows,
           \A i \in (a + 1)..(s - 1) : journal[i].mut = NoChange,
           journal[s].mut = m
    PROVE  Replay(journal, a, s, rows)
             = [k \in Keys |-> IF m[k] = Untouched THEN rows[k] ELSE m[k]]
<1>1. ASSUME NEW k \in Keys
      PROVE  Replay(journal, a, s, rows)[k] = IF m[k] = Untouched THEN rows[k] ELSE m[k]
  <2>1. CASE m[k] = Untouched
    <3>1. \A n \in (a + 1)..s : journal[n].mut[k] = Untouched BY <2>1 DEF NoChange
    <3> QED BY <2>1, <3>1, ReplayUntouched
  <2>2. CASE m[k] # Untouched
    <3>1. IsLastTouch(journal, a, s, k, s) BY <2>2 DEF IsLastTouch
    <3> QED BY <2>2, <3>1, ReplayTouched
  <2> QED BY <2>1, <2>2
<1> QED BY <1>1 DEF Replay

--------------------------------
(* Types of the operators the actions are built from. *)

LEMMA FunctionIsSeq ==
    ASSUME NEW S, NEW n \in Nat, NEW f \in [1..n -> S]
    PROVE  f \in Seq(S) /\ Len(f) = n
<1>1. f \in Seq(S) BY SeqDef
<1> QED BY <1>1, LenProperties

LEMMA ConcatParts ==
    ASSUME NEW S, NEW s \in Seq(S), NEW t \in Seq(S), NEW u, u = s \o t
    PROVE  /\ u \in Seq(S)
           /\ Len(u) = Len(s) + Len(t)
           /\ \A i \in 1..Len(s) : u[i] = s[i]
           /\ \A i \in 1..Len(t) : u[Len(s) + i] = t[i]
<1>1. Len(s) \in Nat /\ Len(t) \in Nat OBVIOUS
<1>2. /\ u \in Seq(S)
      /\ Len(u) = Len(s) + Len(t)
      /\ \A i \in 1..(Len(s) + Len(t)) :
           u[i] = IF i <= Len(s) THEN s[i] ELSE t[i - Len(s)]
  BY ConcatProperties
<1>3. ASSUME NEW i \in 1..Len(t) PROVE u[Len(s) + i] = t[i]
  <2>1. /\ Len(s) + i \in 1..(Len(s) + Len(t))
        /\ ~(Len(s) + i <= Len(s))
        /\ (Len(s) + i) - Len(s) = i
    BY <1>1
  <2> QED BY <1>2, <2>1
<1> QED BY <1>1, <1>2, <1>3

LEMMA TxnEntriesType ==
    ASSUME NEW s \in Nat, NEW q \in Seq(Keys), NEW m \in Mutations,
           \A i \in 1..Len(q) : m[q[i]] # Untouched,
           NEW blobs \in SUBSET Blobs
    PROVE  /\ TxnEntries(s, q, m, blobs) \in Seq(Entries)
           /\ Len(TxnEntries(s, q, m, blobs)) = Len(q)
           /\ \A i \in 1..Len(q) :
                /\ TxnEntries(s, q, m, blobs)[i].mut = IF i = Len(q) THEN m ELSE NoChange
                /\ TxnEntries(s, q, m, blobs)[i].blobs = IF i = Len(q) THEN blobs ELSE {}
<1>1. Len(q) \in Nat /\ \A i \in 1..Len(q) : q[i] \in Keys OBVIOUS
<1>2. NoChange \in Mutations BY SentinelAssumption DEF NoChange, Mutations, Values
<1>3. ASSUME NEW i \in 1..Len(q)
      PROVE  [serial |-> s + i, key |-> q[i], to |-> m[q[i]],
              mut |-> IF i = Len(q) THEN m ELSE NoChange,
              blobs |-> IF i = Len(q) THEN blobs ELSE {}] \in Entries
  <2>1. q[i] \in Keys /\ m[q[i]] \in Values \cup {Absent} BY <1>1 DEF Mutations
  <2>2. s + i \in Nat OBVIOUS
  <2> QED BY <1>2, <2>1, <2>2 DEF Entries
<1>4. TxnEntries(s, q, m, blobs) \in [1..Len(q) -> Entries] BY <1>3 DEF TxnEntries
<1>5. \A i \in 1..Len(q) :
        /\ TxnEntries(s, q, m, blobs)[i].mut = IF i = Len(q) THEN m ELSE NoChange
        /\ TxnEntries(s, q, m, blobs)[i].blobs = IF i = Len(q) THEN blobs ELSE {}
  BY DEF TxnEntries
<1> QED BY <1>1, <1>4, <1>5, FunctionIsSeq

LEMMA ReplayType ==
    ASSUME NEW journal, NEW a \in Nat, NEW s \in Nat, NEW rows \in Rows,
           \A i \in (a + 1)..s : journal[i].mut \in Mutations
    PROVE  Replay(journal, a, s, rows) \in Rows
<1>1. ASSUME NEW k \in Keys
      PROVE  /\ Replay(journal, a, s, rows)[k] \in Values \cup {Absent}
             /\ k \notin Overrides => Replay(journal, a, s, rows)[k] # Hidden
  <2>1. CASE \E i \in (a + 1)..s : journal[i].mut[k] # Untouched
    <3>1. PICK i \in (a + 1)..s : IsLastTouch(journal, a, s, k, i) BY <2>1, LastTouchExists
    <3>2. Replay(journal, a, s, rows)[k] = journal[i].mut[k] BY <3>1, ReplayTouched
    <3>3. journal[i].mut[k] # Untouched BY <3>1 DEF IsLastTouch
    <3> QED BY <3>2, <3>3 DEF Mutations
  <2>2. CASE ~ \E i \in (a + 1)..s : journal[i].mut[k] # Untouched
    <3>1. Replay(journal, a, s, rows)[k] = rows[k]
      <4>1. \A n \in (a + 1)..s : journal[n].mut[k] = Untouched BY <2>2
      <4>2. ~HasTouch(journal, a, s, k) BY <4>1 DEF HasTouch, IsLastTouch
      <4> QED BY <4>2 DEF Replay
    <3> QED BY <3>1 DEF Rows
  <2> QED BY <2>1, <2>2
<1>2. Replay(journal, a, s, rows) = [k \in Keys |-> Replay(journal, a, s, rows)[k]] BY DEF Replay
<1> HIDE DEF Replay
<1> QED BY <1>1, <1>2 DEF Rows

LEMMA NoRowsType == NoRows \in Rows
BY SentinelAssumption DEF NoRows, Rows, Values

(* The page the primary serves holds its journal's entries after `after`.   *)
LEMMA ServeChangesType ==
    ASSUME NEW after \in Nat, pJournal \in Seq(Entries)
    PROVE  LET p == ServeChanges(after, PageLimit)
           IN  /\ p \in Pages
               /\ p.after = after
               /\ after <= Len(pJournal) => Through(p) <= Len(pJournal)
               /\ \A i \in 1..Len(p.changes) : p.changes[i] = pJournal[after + i]
<1> DEFINE n == IF after + PageLimit <= Len(pJournal) THEN after + PageLimit
                                                     ELSE Len(pJournal)
           p == ServeChanges(after, PageLimit)
<1>1. /\ Len(pJournal) \in Nat
      /\ n \in Nat /\ n <= Len(pJournal)
      /\ \A i \in (after + 1)..n : pJournal[i] \in Entries
  BY PageLimitAssumption
<1>2. /\ p.changes = SubSeq(pJournal, after + 1, n)
      /\ p.after = after
      /\ p.current = Len(pJournal)
      /\ p = [after |-> after, changes |-> p.changes, current |-> Len(pJournal)]
  BY DEF ServeChanges
<1> HIDE DEF n, p
<1>3. /\ p.changes \in Seq(Entries)
      /\ Len(p.changes) = IF after + 1 <= n THEN n - (after + 1) + 1 ELSE 0
      /\ \A i \in 1..(n - (after + 1) + 1) : p.changes[i] = pJournal[(after + 1) + i - 1]
  BY <1>1, <1>2, SubSeqProperties
<1>4. p \in Pages BY <1>1, <1>2, <1>3 DEF Pages
<1>5. after <= Len(pJournal) => Through(p) <= Len(pJournal) BY <1>1, <1>2, <1>3 DEF Through
<1>6. \A i \in 1..Len(p.changes) : p.changes[i] = pJournal[after + i] BY <1>1, <1>3
<1> QED BY <1>2, <1>4, <1>5, <1>6 DEF p

LEMMA PageType ==
    ASSUME NEW p \in Pages
    PROVE  /\ p.after \in Nat /\ p.current \in Nat
           /\ p.changes \in Seq(Entries) /\ Len(p.changes) \in Nat
           /\ Through(p) \in Nat
           /\ \A i \in 1..Len(p.changes) : /\ p.changes[i] \in Entries
                                            /\ p.changes[i].mut \in Mutations
           /\ PageBlobs(p) \in SUBSET Blobs
<1>1. p.after \in Nat /\ p.current \in Nat /\ p.changes \in Seq(Entries) BY DEF Pages
<1>2. Len(p.changes) \in Nat /\ \A i \in 1..Len(p.changes) : p.changes[i] \in Entries BY <1>1
<1>3. \A e \in Entries : e.mut \in Mutations /\ e.blobs \in SUBSET Blobs BY DEF Entries
<1>4. PageBlobs(p) \in SUBSET Blobs BY <1>2, <1>3 DEF PageBlobs
<1>5. Through(p) \in Nat BY <1>1, <1>2 DEF Through
<1> QED BY <1>1, <1>2, <1>3, <1>4, <1>5

LEMMA CopiedEntriesType ==
    ASSUME NEW p \in Pages, NEW rows
    PROVE  /\ CopiedEntries(p, rows) \in Seq(Entries)
           /\ Len(CopiedEntries(p, rows)) = Len(p.changes)
<1> DEFINE n == Len(p.changes)
           merged == [k \in Keys |->
                     IF ~HasTouch(p.changes, 0, n, k) THEN Untouched
                     ELSE LET v == p.changes[LastTouch(p.changes, 0, n, k)].mut[k]
                          IN  IF v = Absent /\ rows[k] = Absent THEN Untouched ELSE v]
           entry(i) == [serial |-> p.after + i,
                        key    |-> p.changes[i].key,
                        to     |-> p.changes[i].to,
                        mut    |-> IF i = n THEN merged ELSE NoChange,
                        blobs  |-> IF i = n THEN PageBlobs(p) ELSE {}]
<1>1. /\ p.changes \in Seq(Entries) /\ p.after \in Nat /\ n \in Nat
      /\ \A i \in 1..n : p.changes[i] \in Entries
  BY DEF Pages
<1>2. NoChange \in Mutations BY SentinelAssumption DEF NoChange, Mutations, Values
<1>3. merged \in Mutations
  <2>1. ASSUME NEW k \in Keys
        PROVE  /\ merged[k] \in Values \cup {Absent, Untouched}
               /\ k \notin Overrides => merged[k] # Hidden
    <3>1. CASE HasTouch(p.changes, 0, n, k)
      <4>1. PICK i \in 1..n : IsLastTouch(p.changes, 0, n, k, i) BY <3>1 DEF HasTouch
      <4>2. LastTouch(p.changes, 0, n, k) = i BY <1>1, <4>1, LastTouchChosen, 0 \in Nat
      <4>3. p.changes[i].mut \in Mutations BY <1>1 DEF Entries
      <4> QED BY <3>1, <4>2, <4>3, SentinelAssumption DEF Mutations, Values
    <3>2. CASE ~HasTouch(p.changes, 0, n, k) BY <3>2, SentinelAssumption DEF Values
    <3> QED BY <3>1, <3>2
  <2> QED BY <2>1 DEF Mutations
<1>4. PageBlobs(p) \in SUBSET Blobs BY <1>1 DEF PageBlobs, Entries
<1>5. ASSUME NEW i \in 1..n PROVE entry(i) \in Entries
  <2> HIDE DEF merged
  <2>1. p.changes[i].key \in Keys /\ p.changes[i].to \in Values \cup {Absent} BY <1>1 DEF Entries
  <2>2. p.after + i \in Nat BY <1>1
  <2> QED BY <1>2, <1>3, <1>4, <2>1, <2>2 DEF Entries
<1>6. CopiedEntries(p, rows) = [i \in 1..n |-> entry(i)] BY DEF CopiedEntries
<1> HIDE DEF entry, n
<1>7. CopiedEntries(p, rows) \in [1..n -> Entries] BY <1>5, <1>6
<1> QED BY <1>1, <1>7, FunctionIsSeq DEF n

--------------------------------
(* Every mutation of the primary is one commit_driver_txn of a certain form. *)

HostedMutation ==
    \/ \E k \in Files, a \in Artifacts, P \in {{}} \cup {{p} : p \in Provenances} :
         PublishFile(k, a, P)
    \/ \E from, to \in Files : PromoteFile(from, to)
    \/ \E S \in (SUBSET Files) \ {{}} : \E q \in Listings(S), marked \in BOOLEAN :
         MarkFiles(q, marked)
    \/ \E k \in Overrides : PutOverride(k) \/ DeleteOverride(k)

(* A row that starts to name a blob does so in a transaction that           *)
(* references the blob.                                                     *)
Announces(m, blobs) ==
    \A k \in Keys :
        m[k] \in Records => \/ m[k].blob \in blobs
                            \/ pRows[k] \in Records /\ pRows[k].blob = m[k].blob

IsCommit(q, m, blobs) ==
    /\ q \in Seq(Keys)
    /\ Len(q) > 0
    /\ m \in Mutations
    /\ \A i \in 1..Len(q) : m[q[i]] # Untouched
    /\ blobs \in SUBSET Blobs
    /\ Announces(m, blobs)
    /\ CommitDriverTxn(q, m, blobs)
    /\ pBlobs' \in SUBSET Blobs

LEMMA Distinct ==
    /\ Hidden \notin Records /\ Hidden # Absent /\ Hidden # Untouched
    /\ Absent \notin Records /\ Absent # Untouched
    /\ Untouched \notin Records
BY SentinelAssumption DEF Values

LEMMA OneKey ==
    ASSUME NEW k \in Keys
    PROVE  /\ <<k>> \in Seq(Keys)
           /\ Len(<<k>>) = 1
           /\ <<k>>[1] = k
OBVIOUS

LEMMA PublishFileIsCommit ==
    ASSUME TypeOK, NEW k \in Files, NEW a \in Artifacts,
           NEW P \in {{}} \cup {{p} : p \in Provenances}, PublishFile(k, a, P)
    PROVE  \E q, m, blobs : IsCommit(q, m, blobs)
<1> DEFINE prov == CHOOSE p \in P : TRUE
           m == [x \in Keys |->
                   IF x = k THEN [blob |-> a, marked |-> FALSE]
                   ELSE IF x = a /\ P # {}
                        THEN [blob |-> prov, marked |-> FALSE]
                        ELSE Untouched]
           blobs == {a} \cup P
<1>1. k \in Keys /\ a \in Keys /\ a \in Blobs /\ k # a /\ k \notin Overrides /\ a \notin Overrides
  BY KeyAssumption DEF Keys, Blobs
<1>2. P # {} => prov \in P /\ prov \in Blobs BY DEF Blobs
<1>3. blobs \in SUBSET Blobs BY <1>1 DEF Blobs
<1> HIDE DEF prov
<1>4. /\ [blob |-> a, marked |-> FALSE] \in Records
      /\ P # {} => [blob |-> prov, marked |-> FALSE] \in Records
  BY <1>1, <1>2 DEF Records
<1>5. m \in Mutations /\ m[k] # Untouched BY <1>1, <1>4, Distinct DEF Mutations, Values
<1>6. Announces(m, blobs) BY <1>1, <1>2, Distinct DEF Announces, Records
<1>7. CommitDriverTxn(<<k>>, m, blobs) /\ pBlobs' \in SUBSET Blobs BY <1>3 DEF PublishFile, TypeOK, prov
<1>8. IsCommit(<<k>>, m, blobs)
  <2> HIDE DEF m, blobs
  <2> QED BY <1>1, <1>3, <1>4, <1>5, <1>6, <1>7, OneKey DEF IsCommit
<1> QED BY <1>8

LEMMA PromoteFileIsCommit ==
    ASSUME TypeOK, NEW from \in Files, NEW to \in Files,
           PromoteFile(from, to)
    PROVE  \E q, m, blobs : IsCommit(q, m, blobs)
<1> DEFINE m == [NoChange EXCEPT ![to] = pRows[from]]
           blobs == {pRows[from].blob}
<1>1. /\ from \in Keys /\ to \in Keys
      /\ from \notin Overrides /\ to \notin Overrides
  BY KeyAssumption DEF Keys
<1>2. pRows[from] \in Records BY <1>1 DEF PromoteFile, TypeOK, Rows, Values
<1>3. blobs \in SUBSET Blobs BY <1>2 DEF Records
<1>4. m \in Mutations BY <1>1, <1>2, Distinct DEF NoChange, Mutations, Values
<1>5. m[to] # Untouched BY <1>1, <1>2, Distinct DEF NoChange
<1>6. Announces(m, blobs) BY <1>1, Distinct DEF Announces, NoChange
<1>7. CommitDriverTxn(<<to>>, m, blobs) /\ pBlobs' \in SUBSET Blobs BY DEF PromoteFile, TypeOK
<1>8. IsCommit(<<to>>, m, blobs)
  <2> HIDE DEF m, blobs
  <2> QED BY <1>1, <1>3, <1>4, <1>5, <1>6, <1>7, OneKey DEF IsCommit
<1> QED BY <1>8

LEMMA MarkFilesIsCommit ==
    ASSUME TypeOK, NEW S \in (SUBSET Files) \ {{}}, NEW q \in Listings(S),
           NEW marked \in BOOLEAN, MarkFiles(q, marked)
    PROVE  \E r, m, blobs : IsCommit(r, m, blobs)
<1> DEFINE m == [k \in Keys |-> IF \E i \in DOMAIN q : q[i] = k
                                  THEN [pRows[k] EXCEPT !.marked = marked]
                                  ELSE Untouched]
<1>1. Cardinality(S) \in Nat /\ Cardinality(S) > 0
  <2>1. IsFiniteSet(S) BY KeyAssumption, FS_Subset
  <2> QED BY <2>1, FS_CardinalityType, FS_EmptySet
<1>2. /\ q \in Seq(Keys)
      /\ Len(q) = Cardinality(S)
      /\ DOMAIN q = 1..Len(q)
      /\ \A i \in DOMAIN q : q[i] \in Files
  <2>1. q \in [1..Cardinality(S) -> S] BY DEF Listings
  <2>2. S \subseteq Files /\ Files \subseteq Keys BY DEF Keys
  <2>3. q \in [1..Cardinality(S) -> Keys] BY <2>1, <2>2
  <2> QED BY <1>1, <2>1, <2>2, <2>3, FunctionIsSeq
<1>3. ASSUME NEW k \in Keys, NEW i \in DOMAIN q, q[i] = k
      PROVE  /\ pRows[k] \in Records
             /\ [pRows[k] EXCEPT !.marked = marked] \in Records
             /\ [pRows[k] EXCEPT !.marked = marked].blob = pRows[k].blob
             /\ k \notin Overrides
  <2>1. k \in Files /\ k \notin Overrides BY <1>2, <1>3, KeyAssumption
  <2>2. pRows[k] # Absent BY <1>3 DEF MarkFiles
  <2>3. pRows[k] \in Records BY <2>1, <2>2 DEF TypeOK, Rows, Values
  <2> QED BY <2>1, <2>3 DEF Records
<1>4. m \in Mutations BY <1>3, Distinct DEF Mutations, Values
<1>5. \A i \in 1..Len(q) : m[q[i]] # Untouched
  <2> SUFFICES ASSUME NEW i \in 1..Len(q) PROVE m[q[i]] # Untouched OBVIOUS
  <2>1. q[i] \in Keys /\ i \in DOMAIN q BY <1>2
  <2>2. m[q[i]] = [pRows[q[i]] EXCEPT !.marked = marked] BY <2>1
  <2>3. [pRows[q[i]] EXCEPT !.marked = marked] \in Records BY <1>3, <2>1
  <2> QED BY <2>2, <2>3, Distinct
<1>6. Announces(m, {})
  <2> SUFFICES ASSUME NEW k \in Keys, m[k] \in Records
               PROVE  pRows[k] \in Records /\ pRows[k].blob = m[k].blob
    BY DEF Announces
  <2>1. PICK i \in DOMAIN q : q[i] = k BY Distinct
  <2> QED BY <1>3, <2>1
<1>7. CommitDriverTxn(q, m, {}) /\ pBlobs' \in SUBSET Blobs BY DEF MarkFiles, TypeOK
<1>8. IsCommit(q, m, {})
  <2> HIDE DEF m
  <2> QED BY <1>1, <1>2, <1>4, <1>5, <1>6, <1>7 DEF IsCommit
<1> QED BY <1>8

LEMMA OverrideIsCommit ==
    ASSUME TypeOK, NEW k \in Overrides, PutOverride(k) \/ DeleteOverride(k)
    PROVE  \E q, m, blobs : IsCommit(q, m, blobs)
<1>1. k \in Keys BY DEF Keys
<1>2. ASSUME NEW v \in {Hidden, Absent},
             CommitDriverTxn(<<k>>, [NoChange EXCEPT ![k] = v], {}),
             UNCHANGED pBlobs
      PROVE  IsCommit(<<k>>, [NoChange EXCEPT ![k] = v], {})
  <2> DEFINE m == [NoChange EXCEPT ![k] = v]
  <2>1. m \in Mutations /\ m[k] # Untouched BY <1>1, <1>2, Distinct DEF NoChange, Mutations, Values
  <2>2. Announces(m, {}) BY <1>1, <1>2, Distinct DEF Announces, NoChange
  <2>3. CommitDriverTxn(<<k>>, m, {}) /\ pBlobs' \in SUBSET Blobs BY <1>2 DEF TypeOK
  <2> HIDE DEF m
  <2>4. IsCommit(<<k>>, m, {}) BY <1>1, <2>1, <2>2, <2>3, OneKey DEF IsCommit
  <2> QED BY <2>4 DEF m
<1>3. CASE PutOverride(k) BY <1>2, <1>3 DEF PutOverride
<1>4. CASE DeleteOverride(k) BY <1>2, <1>4 DEF DeleteOverride
<1> QED BY <1>3, <1>4

LEMMA HostedMutationIsCommit ==
    ASSUME TypeOK, HostedMutation
    PROVE  \E q, m, blobs : IsCommit(q, m, blobs)
BY PublishFileIsCommit, PromoteFileIsCommit, MarkFilesIsCommit, OverrideIsCommit
   DEF HostedMutation

(* What such a transaction does to the journal and to the rows. *)
LEMMA CommitEffect ==
    ASSUME TypeOK, NEW q, NEW m, NEW blobs, IsCommit(q, m, blobs)
    PROVE  /\ pJournal' \in Seq(Entries)
           /\ Len(pJournal') = Len(pJournal) + Len(q)
           /\ \A i \in 1..Len(pJournal) : pJournal'[i] = pJournal[i]
           /\ \A i \in 1..Len(q) :
                /\ pJournal'[Len(pJournal) + i].mut = IF i = Len(q) THEN m ELSE NoChange
                /\ pJournal'[Len(pJournal) + i].blobs = IF i = Len(q) THEN blobs ELSE {}
           /\ pRows' = [k \in Keys |-> IF m[k] = Untouched THEN pRows[k] ELSE m[k]]
           /\ pRows' \in Rows
           /\ UNCHANGED <<rVars, fVars, monitor, env>>
<1> DEFINE t == TxnEntries(Len(pJournal), q, m, blobs)
<1>1. /\ pJournal \in Seq(Entries) /\ Len(pJournal) \in Nat
      /\ q \in Seq(Keys) /\ Len(q) \in Nat
  BY DEF TypeOK, IsCommit
<1>2. /\ t \in Seq(Entries)
      /\ Len(t) = Len(q)
      /\ \A i \in 1..Len(q) : /\ t[i].mut = IF i = Len(q) THEN m ELSE NoChange
                              /\ t[i].blobs = IF i = Len(q) THEN blobs ELSE {}
  <2>1. /\ m \in Mutations /\ blobs \in SUBSET Blobs
        /\ \A i \in 1..Len(q) : m[q[i]] # Untouched
    BY DEF IsCommit
  <2> QED BY <1>1, <2>1, TxnEntriesType
<1>3. pJournal' = pJournal \o t BY DEF IsCommit, CommitDriverTxn
<1>4. pRows' = [k \in Keys |-> IF m[k] = Untouched THEN pRows[k] ELSE m[k]] BY DEF IsCommit, CommitDriverTxn
<1>5. UNCHANGED <<rVars, fVars, monitor, env>> BY DEF IsCommit, CommitDriverTxn
<1> HIDE DEF t
<1>6. /\ pJournal' \in Seq(Entries)
      /\ Len(pJournal') = Len(pJournal) + Len(t)
      /\ \A i \in 1..Len(pJournal) : pJournal'[i] = pJournal[i]
      /\ \A i \in 1..Len(t) : pJournal'[Len(pJournal) + i] = t[i]
  <2>1. pJournal \in Seq(Entries) /\ t \in Seq(Entries) BY <1>1, <1>2
  <2> QED BY <1>3, <2>1, ConcatParts, SMT
<1>7. pRows' \in Rows BY <1>4, Distinct DEF IsCommit, TypeOK, Rows, Mutations
<1> QED BY <1>2, <1>4, <1>5, <1>6, <1>7

--------------------------------
(* Type correctness. *)

LEMMA TypeOKInit == Init => TypeOK
<1> SUFFICES ASSUME Init PROVE TypeOK OBVIOUS
<1>1. pJournal \in Seq(Entries) /\ rJournal \in Seq(Entries) /\ <<>> \in Seq(Entries) BY DEF Init
<1>2. NoPage \in Pages BY <1>1 DEF NoPage, Pages
<1>3. rBlobs \in [Blobs -> BlobStates] BY DEF Init, BlobStates
<1>4. monitor \in [status : Statuses, serial : Nat, primary : Nat] BY DEF Init, Starting, Statuses
<1>5. /\ pc \in [Followers -> {"idle", "serial", "request", "page", "blobs"}]
      /\ seen \in [Followers -> Nat]
      /\ page \in [Followers -> Pages]
      /\ need \in [Followers -> SUBSET Blobs]
  BY <1>2 DEF Init
<1>6. faults \in 0..MaxFaults /\ restores \in 0..MaxRestores /\ cursor \in Nat
  BY MaxFaultsAssumption, MaxRestoresAssumption DEF Init
<1>7. pRows \in Rows /\ rRows \in Rows /\ pBlobs \in SUBSET Blobs /\ lost \in BOOLEAN BY NoRowsType DEF Init
<1> QED BY <1>1, <1>3, <1>4, <1>5, <1>6, <1>7 DEF TypeOK

(* Leaving sync_once keeps the follower's registers well typed. *)
LEMMA LeaveType ==
    ASSUME TypeOK, NEW f \in Followers, Leave(f)
    PROVE  /\ pc' \in [Followers -> {"idle", "serial", "request", "page", "blobs"}]
           /\ seen' \in [Followers -> Nat]
           /\ page' \in [Followers -> Pages]
           /\ need' \in [Followers -> SUBSET Blobs]
<1>1. NoPage \in Pages BY DEF NoPage, Pages
<1> QED BY <1>1 DEF Leave, TypeOK

LEMMA FailType ==
    ASSUME TypeOK, NEW f \in Followers, Fail(f),
           UNCHANGED <<pVars, rVars, restores, lost>>, faults' \in 0..MaxFaults
    PROVE  TypeOK'
<1>1. Leave(f) /\ monitor' = [monitor EXCEPT !.status = "error"] BY DEF Fail
<1>2. monitor' \in [status : Statuses, serial : Nat, primary : Nat] BY <1>1 DEF TypeOK, Statuses
<1> QED BY <1>1, <1>2, LeaveType DEF TypeOK, pVars, rVars

LEMMA RecordType ==
    ASSUME NEW s \in Nat, NEW p \in Nat, Record(s, p)
    PROVE  monitor' \in [status : Statuses, serial : Nat, primary : Nat]
BY DEF Record, Statuses

LEMMA TypeOKStep == TypeOK /\ [Next]_vars => TypeOK'
<1> SUFFICES ASSUME TypeOK, [Next]_vars PROVE TypeOK' OBVIOUS
<1>1. CASE HostedMutation
  <2>1. PICK q, m, blobs : IsCommit(q, m, blobs) BY <1>1, HostedMutationIsCommit
  <2>2. pBlobs' \in SUBSET Blobs BY <2>1 DEF IsCommit
  <2> QED BY <2>1, <2>2, CommitEffect DEF TypeOK, rVars, fVars, env
<1>2. ASSUME NEW a \in Artifacts, NEW P \in {{}} \cup {{p} : p \in Provenances},
             AbandonUpload(a, P)
      PROVE  TypeOK'
  <2>1. pBlobs' \in SUBSET Blobs BY <1>2 DEF AbandonUpload, TypeOK, Blobs
  <2>2. faults' \in 0..MaxFaults BY <1>2, MaxFaultsAssumption DEF AbandonUpload, TypeOK
  <2> QED BY <1>2, <2>1, <2>2 DEF AbandonUpload, TypeOK, rVars, fVars
<1>3. ASSUME NEW b \in Blobs, PurgePrimary(b) PROVE TypeOK' BY <1>3 DEF PurgePrimary, TypeOK, rVars, fVars, env
<1>4. ASSUME NEW s \in 0..MaxSerial, RestorePrimary(s) PROVE TypeOK'
  <2>1. /\ s \in Nat /\ s <= Len(pJournal) /\ Len(pJournal) \in Nat
        /\ \A i \in 1..s : pJournal[i] \in Entries
    BY <1>4, MaxSerialAssumption DEF RestorePrimary, TypeOK
  <2>2. SubSeq(pJournal, 1, s) \in Seq(Entries) BY <2>1, SubSeqProperties
  <2>3. \A i \in (0 + 1)..s : pJournal[i].mut \in Mutations BY <2>1 DEF Entries
  <2>4. RowsAt(s) \in Rows BY <2>1, <2>3, ReplayType, NoRowsType, 0 \in Nat DEF RowsAt
  <2>5. Referenced(RowsAt(s)) \in SUBSET Blobs BY DEF Referenced, Records
  <2>6. restores' \in 0..MaxRestores BY <1>4, MaxRestoresAssumption DEF RestorePrimary, TypeOK
  <2>7. lost' \in BOOLEAN BY <1>4 DEF RestorePrimary, TypeOK
  <2> QED BY <1>4, <2>2, <2>4, <2>5, <2>6, <2>7 DEF RestorePrimary, TypeOK, rVars, fVars
<1>5. ASSUME NEW f \in Followers, ReadCursor(f) PROVE TypeOK' BY <1>5 DEF ReadCursor, TypeOK, pVars, rVars, env
<1>6. ASSUME NEW f \in Followers, ReadSerial(f) PROVE TypeOK'
  <2>1. CASE Len(rJournal) = seen[f] BY <1>6, <2>1 DEF ReadSerial, TypeOK, pVars, rVars, env
  <2>2. CASE Len(rJournal) # seen[f] BY <1>6, <2>2, FailType DEF ReadSerial, TypeOK, env
  <2> QED BY <2>1, <2>2
<1>7. ASSUME NEW f \in Followers, RequestPage(f) PROVE TypeOK'
  <2>1. ServeChanges(seen[f], PageLimit) \in Pages BY ServeChangesType DEF TypeOK
  <2> QED BY <1>7, <2>1 DEF RequestPage, TypeOK, pVars, rVars, env
<1>8. ASSUME NEW f \in Followers, ReceivePage(f) PROVE TypeOK'
  <2>1. CASE Validates(page[f], seen[f])
    <3>1. PageBlobs(page[f]) \in SUBSET Blobs BY PageType DEF TypeOK
    <3> QED BY <1>8, <2>1, <3>1 DEF ReceivePage, TypeOK, pVars, rVars, env
  <2>2. CASE ~Validates(page[f], seen[f]) BY <1>8, <2>2, FailType DEF ReceivePage, TypeOK, env
  <2> QED BY <2>1, <2>2
<1>9. ASSUME NEW f \in Followers, NEW b \in Blobs, VerifyBlob(f, b) PROVE TypeOK'
  <2>1. CASE rBlobs[b] = "good" BY <1>9, <2>1 DEF VerifyBlob, TypeOK, pVars, rVars, env
  <2>2. CASE rBlobs[b] = "corrupt" BY <1>9, <2>2, FailType DEF VerifyBlob, TypeOK, env
  <2> QED BY <1>9, <2>1, <2>2 DEF VerifyBlob
<1>10. ASSUME NEW f \in Followers, NEW b \in Blobs, FetchBlob(f, b) PROVE TypeOK'
  <2>1. CASE b \in pBlobs
    <3>1. rBlobs' \in [Blobs -> BlobStates] BY <1>10, <2>1 DEF FetchBlob, TypeOK, BlobStates
    <3>2. need' \in [Followers -> SUBSET Blobs]
      <4>1. need \in [Followers -> SUBSET Blobs] /\ need[f] \ {b} \in SUBSET Blobs BY DEF TypeOK
      <4>2. need' = [need EXCEPT ![f] = need[f] \ {b}] BY <1>10, <2>1 DEF FetchBlob
      <4> QED BY <4>1, <4>2
    <3>3. UNCHANGED <<pVars, rRows, rJournal, cursor, pc, seen, page, monitor, env>> BY <1>10, <2>1 DEF FetchBlob
    <3> QED BY <3>1, <3>2, <3>3 DEF TypeOK, pVars, env
  <2>2. CASE b \notin pBlobs BY <1>10, <2>2, FailType DEF FetchBlob, TypeOK, env, rVars
  <2> QED BY <2>1, <2>2
<1>11. ASSUME NEW f \in Followers, TransferFails(f) PROVE TypeOK'
  <2>1. faults' \in 0..MaxFaults BY <1>11, MaxFaultsAssumption DEF TransferFails, TypeOK
  <2> QED BY <1>11, <2>1, FailType DEF TransferFails
<1>12. ASSUME NEW f \in Followers, CaughtUp(f) PROVE TypeOK'
  <2>1. page[f].after \in Nat /\ page[f].current \in Nat BY DEF TypeOK, Pages
  <2>2. monitor' \in [status : Statuses, serial : Nat, primary : Nat] BY <1>12, <2>1, RecordType DEF CaughtUp
  <2> QED BY <1>12, <2>2, LeaveType DEF CaughtUp, TypeOK, pVars, rVars, env
<1>13. ASSUME NEW f \in Followers, ApplyPage(f) PROVE TypeOK'
  <2>1. /\ page[f] \in Pages
        /\ page[f].changes \in Seq(Entries)
        /\ Len(page[f].changes) \in Nat
        /\ page[f].current \in Nat
        /\ Through(page[f]) \in Nat
        /\ \A i \in (0 + 1)..Len(page[f].changes) : page[f].changes[i].mut \in Mutations
    <3>1. page[f] \in Pages BY DEF TypeOK
    <3> QED BY <3>1, PageType
  <2>2. CASE Len(rJournal) = seen[f]
    <3>1. rRows' = Replay(page[f].changes, 0, Len(page[f].changes), rRows) BY <1>13, <2>2 DEF ApplyPage
    <3>2. rRows' \in Rows BY <2>1, <3>1, ReplayType, 0 \in Nat DEF TypeOK
    <3>3. CopiedEntries(page[f], rRows) \in Seq(Entries) BY <2>1, CopiedEntriesType
    <3>4. rJournal' \in Seq(Entries)
      <4>1. rJournal \in Seq(Entries) /\ rJournal' = rJournal \o CopiedEntries(page[f], rRows)
        BY <1>13, <2>2 DEF ApplyPage, TypeOK
      <4> QED BY <3>3, <4>1, ConcatProperties
    <3>5. monitor' \in [status : Statuses, serial : Nat, primary : Nat] BY <1>13, <2>1, <2>2, RecordType DEF ApplyPage
    <3>6. cursor' \in Nat BY <1>13, <2>1, <2>2 DEF ApplyPage
    <3>7. Leave(f) /\ UNCHANGED <<pVars, rBlobs, env>> BY <1>13, <2>2 DEF ApplyPage
    <3> QED BY <3>2, <3>4, <3>5, <3>6, <3>7, LeaveType DEF TypeOK, pVars, env
  <2>3. CASE Len(rJournal) # seen[f] BY <1>13, <2>3, FailType DEF ApplyPage, TypeOK, env, rVars
  <2> QED BY <2>2, <2>3
<1>14. CASE Restart
  <2>1. NoPage \in Pages BY DEF NoPage, Pages
  <2>2. monitor' \in [status : Statuses, serial : Nat, primary : Nat] BY <1>14 DEF Restart, Starting, Statuses, TypeOK
  <2>3. faults' \in 0..MaxFaults BY <1>14, MaxFaultsAssumption DEF Restart, TypeOK
  <2> QED BY <1>14, <2>1, <2>2, <2>3 DEF Restart, TypeOK, pVars, rVars
<1>15. ASSUME NEW b \in Blobs, PurgeReplica(b) PROVE TypeOK'
  <2>1. rBlobs' \in [Blobs -> BlobStates] BY <1>15 DEF PurgeReplica, TypeOK, BlobStates
  <2> QED BY <1>15, <2>1 DEF PurgeReplica, TypeOK, pVars, fVars, env
<1>16. CASE UNCHANGED vars BY <1>16 DEF TypeOK, vars, pVars, rVars, fVars, env
<1> QED BY <1>1, <1>2, <1>3, <1>4, <1>5, <1>6, <1>7, <1>8, <1>9, <1>10, <1>11, <1>12,
     <1>13, <1>14, <1>15, <1>16
     DEF Next, PrimaryNext, Sync, HostedMutation

(* Every reachable state is well typed: no page, copied entry or restored   *)
(* row escapes the types of the journal protocol, whatever the interleaving *)
(* of commit_driver_txn_at, sync_once, purges and restores.                 *)
THEOREM TypeCorrect == Spec => []TypeOK
<1>1. Init => TypeOK BY TypeOKInit
<1>2. TypeOK /\ [Next]_vars => TypeOK' BY TypeOKStep
<1> QED BY <1>1, <1>2, PTL DEF Spec

--------------------------------
(* Steps, by what they do to each part of the state. *)

Applies(f) == ApplyPage(f) /\ Len(rJournal) = seen[f]

LEMMA PrimaryCases ==
    ASSUME TypeOK, [Next]_vars
    PROVE  \/ UNCHANGED <<pRows, pJournal, lost>>
           \/ \E q, m, blobs : IsCommit(q, m, blobs)
           \/ \E s \in 0..MaxSerial : RestorePrimary(s)
<1>1. CASE HostedMutation BY <1>1, HostedMutationIsCommit
<1>2. ASSUME NEW a \in Artifacts, NEW P \in {{}} \cup {{p} : p \in Provenances},
             AbandonUpload(a, P)
      PROVE  UNCHANGED <<pRows, pJournal, lost>>
  BY <1>2 DEF AbandonUpload
<1>3. ASSUME NEW b \in Blobs, PurgePrimary(b)
      PROVE  UNCHANGED <<pRows, pJournal, lost>>
  BY <1>3 DEF PurgePrimary, env
<1>4. ASSUME NEW f \in Followers, Sync(f) \/ TransferFails(f)
      PROVE  UNCHANGED <<pRows, pJournal, lost>>
  BY <1>4 DEF Sync, ReadCursor, ReadSerial, RequestPage, ReceivePage, VerifyBlob,
              FetchBlob, CaughtUp, ApplyPage, TransferFails, pVars, env
<1>5. CASE Restart BY <1>5 DEF Restart, pVars
<1>6. ASSUME NEW b \in Blobs, PurgeReplica(b)
      PROVE  UNCHANGED <<pRows, pJournal, lost>>
  BY <1>6 DEF PurgeReplica, pVars, env
<1>7. CASE UNCHANGED vars BY <1>7 DEF vars, pVars, env
<1> QED BY <1>1, <1>2, <1>3, <1>4, <1>5, <1>6, <1>7 DEF Next, PrimaryNext, HostedMutation

LEMMA CommitLeavesReplica ==
    ASSUME NEW q, NEW m, NEW blobs, IsCommit(q, m, blobs)
    PROVE  UNCHANGED <<rRows, rJournal, rBlobs, cursor, pc, seen, page, need, monitor, lost>>
BY DEF IsCommit, CommitDriverTxn, rVars, fVars, env

LEMMA ReplicaCases ==
    ASSUME TypeOK, [Next]_vars
    PROVE  \/ UNCHANGED <<rRows, rJournal, cursor>>
           \/ \E f \in Followers : Applies(f)
<1>1. CASE HostedMutation BY <1>1, HostedMutationIsCommit, CommitLeavesReplica
<1>2. ASSUME NEW a \in Artifacts, NEW P \in {{}} \cup {{p} : p \in Provenances},
             AbandonUpload(a, P)
      PROVE  UNCHANGED <<rRows, rJournal, cursor>>
  BY <1>2 DEF AbandonUpload, rVars
<1>3. ASSUME NEW b \in Blobs, PurgePrimary(b)
      PROVE  UNCHANGED <<rRows, rJournal, cursor>>
  BY <1>3 DEF PurgePrimary, rVars
<1>4. ASSUME NEW s \in 0..MaxSerial, RestorePrimary(s)
      PROVE  UNCHANGED <<rRows, rJournal, cursor>>
  BY <1>4 DEF RestorePrimary, rVars
<1>5. ASSUME NEW f \in Followers, Sync(f) \/ TransferFails(f), ~Applies(f)
      PROVE  UNCHANGED <<rRows, rJournal, cursor>>
  BY <1>5 DEF Sync, ReadCursor, ReadSerial, RequestPage, ReceivePage, VerifyBlob,
              FetchBlob, CaughtUp, ApplyPage, Applies, TransferFails, rVars
<1>6. CASE Restart BY <1>6 DEF Restart, rVars
<1>7. ASSUME NEW b \in Blobs, PurgeReplica(b)
      PROVE  UNCHANGED <<rRows, rJournal, cursor>>
  BY <1>7 DEF PurgeReplica
<1>8. CASE UNCHANGED vars BY <1>8 DEF vars, rVars
<1> QED BY <1>1, <1>2, <1>3, <1>4, <1>5, <1>6, <1>7, <1>8 DEF Next, PrimaryNext, HostedMutation

(* What a step can make of the registers of follower f. *)
StaysPut(f) == pc'[f] = pc[f] /\ seen'[f] = seen[f] /\ page'[f] = page[f]
GoesIdle(f) == pc'[f] = "idle" /\ seen'[f] = 0
TakesCursor(f) ==
    /\ pc'[f] = "serial"
    /\ seen'[f] = cursor
    /\ UNCHANGED <<rJournal, cursor>>
GetsPage(f) ==
    /\ pc'[f] = "page"
    /\ seen'[f] = seen[f]
    /\ page'[f] = ServeChanges(seen[f], PageLimit)
    /\ UNCHANGED <<pRows, pJournal, rRows, rJournal, cursor, lost>>
Advances(f) ==
    /\ seen'[f] = seen[f] /\ page'[f] = page[f]
    /\ \/ pc'[f] = "request"
       \/ /\ pc[f] = "page" /\ pc'[f] = "blobs"
          /\ Validates(page[f], seen[f])
          /\ need'[f] = PageBlobs(page[f])

FollowerCase(f) ==
    \/ StaysPut(f)
    \/ GoesIdle(f)
    \/ TakesCursor(f)
    \/ GetsPage(f)
    \/ Advances(f)

LEMMA LeaveCase ==
    ASSUME TypeOK, NEW f \in Followers, NEW g \in Followers, Leave(f)
    PROVE  StaysPut(g) \/ GoesIdle(g)
BY DEF Leave, TypeOK, StaysPut, GoesIdle

LEMMA FollowerCases ==
    ASSUME TypeOK, [Next]_vars, NEW g \in Followers
    PROVE  FollowerCase(g)
<1>1. CASE HostedMutation BY <1>1, HostedMutationIsCommit, CommitLeavesReplica DEF FollowerCase, StaysPut
<1>2. ASSUME NEW a \in Artifacts, NEW P \in {{}} \cup {{p} : p \in Provenances},
             AbandonUpload(a, P)
      PROVE  FollowerCase(g)
  BY <1>2 DEF AbandonUpload, fVars, FollowerCase, StaysPut
<1>3. ASSUME NEW b \in Blobs, PurgePrimary(b)
      PROVE  FollowerCase(g)
  BY <1>3 DEF PurgePrimary, fVars, FollowerCase, StaysPut
<1>4. ASSUME NEW s \in 0..MaxSerial, RestorePrimary(s)
      PROVE  FollowerCase(g)
  BY <1>4 DEF RestorePrimary, fVars, FollowerCase, StaysPut
<1>5. ASSUME NEW f \in Followers, Sync(f) \/ TransferFails(f)
      PROVE  FollowerCase(g)
  <2>1. CASE Leave(f) BY <2>1, LeaveCase DEF FollowerCase
  <2>2. CASE ReadCursor(f) BY <2>2 DEF ReadCursor, TypeOK, rVars, FollowerCase, StaysPut, TakesCursor
  <2>3. CASE ReadSerial(f) /\ ~Leave(f) BY <2>3 DEF ReadSerial, Fail, TypeOK, FollowerCase, StaysPut, Advances
  <2>4. CASE RequestPage(f) BY <2>4 DEF RequestPage, TypeOK, pVars, rVars, env, FollowerCase, StaysPut, GetsPage
  <2>5. CASE ReceivePage(f) /\ ~Leave(f) BY <2>5 DEF ReceivePage, Fail, TypeOK, FollowerCase, StaysPut, Advances
  <2>6. ASSUME NEW b \in Blobs, VerifyBlob(f, b) \/ FetchBlob(f, b), ~Leave(f)
        PROVE  FollowerCase(g)
    BY <2>6 DEF VerifyBlob, FetchBlob, Fail, FollowerCase, StaysPut
  <2>7. CaughtUp(f) \/ ApplyPage(f) \/ TransferFails(f) => Leave(f) BY DEF CaughtUp, ApplyPage, TransferFails, Fail
  <2> QED BY <1>5, <2>1, <2>2, <2>3, <2>4, <2>5, <2>6, <2>7 DEF Sync
<1>6. CASE Restart BY <1>6 DEF Restart, FollowerCase, GoesIdle
<1>7. ASSUME NEW b \in Blobs, PurgeReplica(b)
      PROVE  FollowerCase(g)
  BY <1>7 DEF PurgeReplica, fVars, FollowerCase, StaysPut
<1>8. CASE UNCHANGED vars BY <1>8 DEF vars, fVars, FollowerCase, StaysPut
<1> QED BY <1>1, <1>2, <1>3, <1>4, <1>5, <1>6, <1>7, <1>8 DEF Next, PrimaryNext, HostedMutation

--------------------------------
(* The cursor, the registers of the followers, and the health record. *)

FollowerInv ==
    /\ cursor = Len(rJournal)
    /\ \A f \in Followers :
         /\ seen[f] <= Len(rJournal)
         /\ pc[f] \in {"page", "blobs"} => page[f].after = seen[f]
         /\ pc[f] = "blobs" => Validates(page[f], seen[f])

(* The applied page lengthens the copied journal up to its last serial.     *)
LEMMA AppliesEffect ==
    ASSUME TypeOK, FollowerInv, NEW f \in Followers, Applies(f)
    PROVE  /\ pc[f] = "blobs" /\ need[f] = {}
           /\ page[f].after = Len(rJournal)
           /\ page[f].current >= Through(page[f])
           /\ Through(page[f]) = Len(rJournal) + Len(page[f].changes)
           /\ Len(rJournal) < Through(page[f])
           /\ rRows' = Replay(page[f].changes, 0, Len(page[f].changes), rRows)
           /\ rJournal' = rJournal \o CopiedEntries(page[f], rRows)
           /\ Len(rJournal') = Through(page[f])
           /\ \A i \in 1..Len(rJournal) : rJournal'[i] = rJournal[i]
           /\ \A i \in 1..Len(page[f].changes) :
                rJournal'[Len(rJournal) + i] = CopiedEntries(page[f], rRows)[i]
           /\ cursor' = Through(page[f])
           /\ UNCHANGED <<pVars, rBlobs, env>>
<1> DEFINE c == CopiedEntries(page[f], rRows)
<1>1. /\ pc[f] = "blobs" /\ need[f] = {} /\ page[f].changes # <<>>
      /\ rRows' = Replay(page[f].changes, 0, Len(page[f].changes), rRows)
      /\ rJournal' = rJournal \o c
      /\ cursor' = Through(page[f])
      /\ UNCHANGED <<pVars, rBlobs, env>>
      /\ Len(rJournal) = seen[f]
  BY DEF Applies, ApplyPage
<1>2. /\ page[f].after = Len(rJournal)
      /\ page[f].current >= Through(page[f])
  BY <1>1 DEF FollowerInv, Validates
<1>3. /\ page[f] \in Pages
      /\ rJournal \in Seq(Entries) /\ Len(rJournal) \in Nat
  BY DEF TypeOK
<1>4. /\ c \in Seq(Entries) /\ Len(c) = Len(page[f].changes)
      /\ Len(c) \in Nat /\ Len(c) > 0
  <2>1. page[f].changes \in Seq(Entries) BY <1>3, PageType
  <2> QED BY <1>1, <1>3, <2>1, CopiedEntriesType
<1> HIDE DEF c
<1>5. /\ Len(rJournal') = Len(rJournal) + Len(c)
      /\ \A i \in 1..Len(rJournal) : rJournal'[i] = rJournal[i]
      /\ \A i \in 1..Len(c) : rJournal'[Len(rJournal) + i] = c[i]
  <2>1. rJournal' = rJournal \o c BY <1>1
  <2>2. rJournal \in Seq(Entries) /\ c \in Seq(Entries) BY <1>3, <1>4
  <2> QED BY <2>1, <2>2, ConcatParts, SMT
<1>6. Through(page[f]) = Len(rJournal) + Len(c) BY <1>2, <1>4 DEF Through
<1>7. Len(rJournal) < Through(page[f]) BY <1>3, <1>4, <1>6
<1> QED BY <1>1, <1>2, <1>4, <1>5, <1>6, <1>7 DEF c

LEMMA FollowerInvInit == Init => FollowerInv
BY DEF Init, FollowerInv

LEMMA FollowerInvStep == TypeOK /\ FollowerInv /\ [Next]_vars => FollowerInv'
<1> SUFFICES ASSUME TypeOK, FollowerInv, [Next]_vars PROVE FollowerInv' OBVIOUS
<1>1. Len(rJournal) \in Nat /\ Len(rJournal') \in Nat BY TypeOKStep DEF TypeOK
<1>2. cursor' = Len(rJournal') /\ Len(rJournal) <= Len(rJournal') BY <1>1, ReplicaCases, AppliesEffect DEF FollowerInv
<1>3. ASSUME NEW f \in Followers
      PROVE  /\ seen'[f] <= Len(rJournal')
             /\ pc'[f] \in {"page", "blobs"} => page'[f].after = seen'[f]
             /\ pc'[f] = "blobs" => Validates(page'[f], seen'[f])
  <2>1. seen[f] \in Nat /\ seen[f] <= Len(rJournal) BY DEF TypeOK, FollowerInv
  <2>2. CASE StaysPut(f) BY <1>1, <1>2, <2>1, <2>2 DEF StaysPut, FollowerInv
  <2>3. CASE GoesIdle(f) BY <1>1, <2>3 DEF GoesIdle
  <2>4. CASE TakesCursor(f) BY <1>1, <2>4 DEF TakesCursor, FollowerInv
  <2>5. CASE GetsPage(f) BY <1>1, <2>1, <2>5 DEF GetsPage, ServeChanges
  <2>6. CASE Advances(f) BY <1>1, <1>2, <2>1, <2>6 DEF Advances, FollowerInv
  <2> QED BY <2>2, <2>3, <2>4, <2>5, <2>6, FollowerCases DEF FollowerCase
<1> QED BY <1>2, <1>3 DEF FollowerInv, Validates, Through

THEOREM FollowerInvariant == Spec => [](TypeOK /\ FollowerInv)
<1>1. Init => TypeOK /\ FollowerInv BY TypeOKInit, FollowerInvInit
<1>2. TypeOK /\ FollowerInv /\ [Next]_vars => (TypeOK /\ FollowerInv)' BY TypeOKStep, FollowerInvStep
<1> QED BY <1>1, <1>2, PTL DEF Spec

LEMMA HealthSoundStep ==
    TypeOK /\ FollowerInv /\ HealthSound /\ [Next]_vars => HealthSound'
<1> SUFFICES ASSUME TypeOK, FollowerInv, HealthSound, [Next]_vars PROVE HealthSound' OBVIOUS
<1>1. Len(rJournal) \in Nat /\ Len(rJournal') \in Nat /\ Len(rJournal) <= Len(rJournal')
  <2>1. Len(rJournal) \in Nat BY DEF TypeOK
  <2>2. TypeOK' BY TypeOKStep
  <2>3. Len(rJournal') \in Nat BY <2>2 DEF TypeOK
  <2>4. CASE UNCHANGED <<rRows, rJournal, cursor>> BY <2>1, <2>4
  <2>5. ASSUME NEW f \in Followers, Applies(f) PROVE Len(rJournal) <= Len(rJournal')
    <3>1. Len(rJournal) < Through(page[f]) /\ Len(rJournal') = Through(page[f]) BY <2>5, AppliesEffect
    <3> QED BY <2>1, <2>3, <3>1
  <2> QED BY <2>1, <2>3, <2>4, <2>5, ReplicaCases
<1>2. monitor.serial \in Nat /\ monitor.primary \in Nat BY DEF TypeOK
<1>3. CASE monitor' = monitor BY <1>1, <1>2, <1>3 DEF HealthSound
<1>4. CASE monitor' = [monitor EXCEPT !.status = "error"] BY <1>1, <1>2, <1>4 DEF HealthSound, TypeOK
<1>5. CASE Restart BY <1>1, <1>5 DEF HealthSound, Restart, Starting, rVars
<1>6. ASSUME NEW f \in Followers, CaughtUp(f) PROVE HealthSound'
  <2>1. /\ page[f].after \in Nat /\ page[f].current \in Nat
        /\ Through(page[f]) \in Nat
    BY PageType DEF TypeOK
  <2>2. page[f].after <= Len(rJournal) /\ page[f].after <= page[f].current
    <3>1. /\ page[f].after = seen[f] /\ page[f].current >= Through(page[f])
          /\ seen[f] <= Len(rJournal) /\ page[f].changes = <<>>
      BY <1>6 DEF CaughtUp, FollowerInv, Validates
    <3>2. Through(page[f]) = page[f].after BY <2>1, <3>1 DEF Through
    <3> QED BY <2>1, <3>1, <3>2
  <2>3. Record(page[f].after, page[f].current) BY <1>6 DEF CaughtUp
  <2> QED BY <1>1, <2>1, <2>2, <2>3 DEF Record, HealthSound
<1>7. ASSUME NEW f \in Followers, Applies(f) PROVE HealthSound'
  <2>1. page[f].current \in Nat /\ Through(page[f]) \in Nat BY PageType DEF TypeOK
  <2>2. Record(Through(page[f]), page[f].current) BY <1>7 DEF Applies, ApplyPage
  <2>3. /\ Len(rJournal') = Through(page[f])
        /\ page[f].current >= Through(page[f])
    BY <1>7, AppliesEffect
  <2> QED BY <1>1, <2>1, <2>2, <2>3 DEF Record, HealthSound
<1>8. CASE HostedMutation BY <1>3, <1>8, HostedMutationIsCommit, CommitLeavesReplica
<1>9. ASSUME NEW a \in Artifacts, NEW P \in {{}} \cup {{p} : p \in Provenances},
             AbandonUpload(a, P)
      PROVE  monitor' = monitor
  BY <1>9 DEF AbandonUpload
<1>10. ASSUME NEW b \in Blobs, PurgePrimary(b) \/ PurgeReplica(b)
       PROVE  monitor' = monitor
  BY <1>10 DEF PurgePrimary, PurgeReplica
<1>11. ASSUME NEW s \in 0..MaxSerial, RestorePrimary(s)
       PROVE  monitor' = monitor
  BY <1>11 DEF RestorePrimary
<1>12. ASSUME NEW f \in Followers, Sync(f) \/ TransferFails(f), ~CaughtUp(f), ~Applies(f)
       PROVE  monitor' = monitor \/ monitor' = [monitor EXCEPT !.status = "error"]
  BY <1>12 DEF Sync, ReadCursor, ReadSerial, RequestPage, ReceivePage, VerifyBlob,
               FetchBlob, ApplyPage, Applies, TransferFails, Fail
<1>13. CASE UNCHANGED vars BY <1>3, <1>13 DEF vars
<1> QED BY <1>3, <1>4, <1>5, <1>6, <1>7, <1>8, <1>9, <1>10, <1>11, <1>12, <1>13
     DEF Next, PrimaryNext, HostedMutation

(* The health endpoint never reports a serial that is not durable, nor      *)
(* "caught_up" with a serial of the primary still missing, nor a lag of     *)
(* zero while catching up: through conflicts of concurrent sync_once calls, *)
(* restarts, and a primary restored to before the replica's serial.         *)
THEOREM HealthIsSound == Spec => []HealthSound
<1>1. Init => HealthSound BY DEF Init, HealthSound, Starting
<1>2. TypeOK /\ FollowerInv /\ HealthSound /\ [Next]_vars => HealthSound' BY HealthSoundStep
<1> QED BY <1>1, <1>2, FollowerInvariant, PTL DEF Spec

--------------------------------
(* The journal of the primary accounts for its rows. *)

(* Each entry that makes a row name a blob references the blob, unless the  *)
(* row named it before.                                                     *)
JournalAnnounces ==
    \A i \in 1..Len(pJournal) : \A k \in Keys :
        pJournal[i].mut[k] \in Records =>
            \/ pJournal[i].mut[k].blob \in pJournal[i].blobs
            \/ /\ RowsAt(i - 1)[k] \in Records
               /\ RowsAt(i - 1)[k].blob = pJournal[i].mut[k].blob

PrimaryInv == JournalCoversRows /\ JournalAnnounces

LEMMA CommitKeepsPrimaryInv ==
    ASSUME TypeOK, PrimaryInv, NEW q, NEW m, NEW blobs, IsCommit(q, m, blobs)
    PROVE  PrimaryInv'
<1> DEFINE n == Len(q)
<1> PICK L \in Nat : L = Len(pJournal) BY DEF TypeOK
<1>1. /\ L \in Nat /\ n \in Nat /\ n > 0
      /\ Len(pJournal') = L + n
      /\ \A i \in 1..L : pJournal'[i] = pJournal[i]
      /\ \A i \in 1..n : /\ pJournal'[L + i].mut = IF i = n THEN m ELSE NoChange
                         /\ pJournal'[L + i].blobs = IF i = n THEN blobs ELSE {}
      /\ pRows' = [k \in Keys |-> IF m[k] = Untouched THEN pRows[k] ELSE m[k]]
  <2>1. L \in Nat /\ n \in Nat /\ n > 0 BY DEF TypeOK, IsCommit
  <2> QED BY <2>1, CommitEffect
<1>0. pRows = RowsAt(L) BY DEF PrimaryInv, JournalCoversRows
<1> HIDE DEF n
<1>2. ASSUME NEW s \in 0..L PROVE RowsAt(s)' = RowsAt(s)
  <2>1. \A i \in 1..s : pJournal'[i] = pJournal[i] BY <1>1
  <2> QED BY <1>1, <2>1, ReplayPrefix DEF RowsAt
<1>5. Replay(pJournal', 0, L, NoRows) = pRows
  <2>1. L \in 0..L BY <1>1
  <2> QED BY <1>0, <1>2, <2>1 DEF RowsAt
<1>3. /\ \A i \in (L + 1)..(L + n - 1) : pJournal'[i].mut = NoChange
      /\ pJournal'[L + n].mut = m /\ pJournal'[L + n].blobs = blobs
  <2>1. ASSUME NEW i \in (L + 1)..(L + n - 1)
        PROVE  pJournal'[i].mut = NoChange
    <3>1. i - L \in 1..n /\ i - L # n /\ L + (i - L) = i BY <1>1
    <3> QED BY <1>1, <3>1
  <2>2. n \in 1..n BY <1>1
  <2>3. pJournal'[L + n].mut = m /\ pJournal'[L + n].blobs = blobs BY <1>1, <2>2
  <2> QED BY <2>1, <2>3
<1>4. ASSUME NEW s \in (L + 1)..(L + n - 1) PROVE RowsAt(s)' = pRows
  <2>1. \A k \in Keys : Replay(pJournal', L, s, Replay(pJournal', 0, L, NoRows))[k]
                          = Replay(pJournal', 0, L, NoRows)[k]
    <3> SUFFICES ASSUME NEW k \in Keys
                 PROVE  Replay(pJournal', L, s, Replay(pJournal', 0, L, NoRows))[k]
                          = Replay(pJournal', 0, L, NoRows)[k]
      OBVIOUS
    <3>1. s \in Nat /\ \A i \in (L + 1)..s : pJournal'[i].mut[k] = Untouched BY <1>1, <1>3 DEF NoChange
    <3> QED BY <1>1, <3>1, ReplayUntouched
  <2>2. s \in Nat /\ L <= s BY <1>1
  <2>3. RowsAt(s)' = Replay(pJournal', L, s, Replay(pJournal', 0, L, NoRows)) BY <1>1, <2>2, ReplaySplit DEF RowsAt
  <2>4. Replay(pJournal', L, s, pRows) = pRows BY <1>5, <2>1 DEF Replay, TypeOK, Rows
  <2> QED BY <1>5, <2>3, <2>4
<1>6. JournalCoversRows'
  <2>1. RowsAt(L + n)' = Replay(pJournal', L, L + n, Replay(pJournal', 0, L, NoRows))
    <3>1. L + n \in Nat /\ L <= L + n BY <1>1
    <3> QED BY <1>1, <3>1, ReplaySplit DEF RowsAt
  <2>2. Replay(pJournal', L, L + n, pRows)
          = [k \in Keys |-> IF m[k] = Untouched THEN pRows[k] ELSE m[k]]
    BY <1>1, <1>3, ReplayOneTxn
  <2> QED BY <1>1, <1>5, <2>1, <2>2 DEF JournalCoversRows, RowsAt
<1>7. ASSUME NEW i \in 1..(L + n), NEW k \in Keys, pJournal'[i].mut[k] \in Records
      PROVE  \/ pJournal'[i].mut[k].blob \in pJournal'[i].blobs
             \/ /\ RowsAt(i - 1)'[k] \in Records
                /\ RowsAt(i - 1)'[k].blob = pJournal'[i].mut[k].blob
  <2>1. CASE i \in 1..L
    <3>1. i - 1 \in 0..L /\ pJournal'[i] = pJournal[i] BY <1>1, <2>1
    <3>2. RowsAt(i - 1)' = RowsAt(i - 1) BY <1>2, <3>1
    <3> QED BY <1>7, <2>1, <3>1, <3>2 DEF PrimaryInv, JournalAnnounces
  <2>2. CASE i \in (L + 1)..(L + n - 1) BY <1>3, <1>7, <2>2, Distinct DEF NoChange
  <2>3. CASE i = L + n
    <3>1. RowsAt(i - 1)' = pRows
      <4>1. CASE n = 1 BY <1>1, <1>5, <2>3, <4>1 DEF RowsAt
      <4>2. CASE n # 1
        <5>1. i - 1 \in (L + 1)..(L + n - 1) BY <1>1, <2>3, <4>2
        <5> QED BY <1>4, <5>1
      <4> QED BY <4>1, <4>2
    <3>2. Announces(m, blobs) BY DEF IsCommit
    <3> QED BY <1>3, <1>7, <2>3, <3>1, <3>2 DEF Announces
  <2> QED BY <1>1, <2>1, <2>2, <2>3
<1>8. JournalAnnounces' BY <1>1, <1>7 DEF JournalAnnounces
<1> QED BY <1>6, <1>8 DEF PrimaryInv

LEMMA RestoreEffect ==
    ASSUME TypeOK, NEW s \in 0..MaxSerial, RestorePrimary(s)
    PROVE  /\ s \in Nat /\ s < Len(pJournal)
           /\ Len(pJournal') = s
           /\ \A i \in 1..s : pJournal'[i] = pJournal[i]
           /\ \A r \in 0..s : RowsAt(r)' = RowsAt(r)
<1>1. /\ s \in Nat /\ s < Len(pJournal) /\ Len(pJournal) \in Nat
      /\ \A i \in 1..s : pJournal[i] \in Entries
      /\ pJournal' = SubSeq(pJournal, 1, s)
  BY MaxSerialAssumption DEF RestorePrimary, TypeOK
<1>2. /\ SubSeq(pJournal, 1, s) \in Seq(Entries)
      /\ Len(SubSeq(pJournal, 1, s)) = IF 1 <= s THEN s - 1 + 1 ELSE 0
      /\ \A i \in 1..(s - 1 + 1) : SubSeq(pJournal, 1, s)[i] = pJournal[1 + i - 1]
  BY <1>1, SubSeqProperties
<1>3. Len(pJournal') = s /\ \A i \in 1..s : pJournal'[i] = pJournal[i] BY <1>1, <1>2
<1>4. ASSUME NEW r \in 0..s PROVE RowsAt(r)' = RowsAt(r)
  <2>1. r \in Nat /\ \A i \in 1..r : pJournal'[i] = pJournal[i] BY <1>1, <1>3
  <2> QED BY <2>1, ReplayPrefix DEF RowsAt
<1> QED BY <1>1, <1>3, <1>4

LEMMA RestoreKeepsPrimaryInv ==
    ASSUME TypeOK, PrimaryInv, NEW s \in 0..MaxSerial, RestorePrimary(s)
    PROVE  PrimaryInv'
<1>1. /\ s \in Nat /\ s < Len(pJournal) /\ Len(pJournal) \in Nat
      /\ Len(pJournal') = s
      /\ \A i \in 1..s : pJournal'[i] = pJournal[i]
      /\ \A r \in 0..s : RowsAt(r)' = RowsAt(r)
  <2>1. Len(pJournal) \in Nat BY DEF TypeOK
  <2> QED BY <2>1, RestoreEffect
<1>2. pRows' = RowsAt(s) BY DEF RestorePrimary
<1>3. JournalCoversRows'
  <2>1. RowsAt(s)' = RowsAt(s) BY <1>1
  <2> QED BY <1>1, <1>2, <2>1 DEF JournalCoversRows, RowsAt
<1>4. ASSUME NEW i \in 1..s, NEW k \in Keys, pJournal'[i].mut[k] \in Records
      PROVE  \/ pJournal'[i].mut[k].blob \in pJournal'[i].blobs
             \/ /\ RowsAt(i - 1)'[k] \in Records
                /\ RowsAt(i - 1)'[k].blob = pJournal'[i].mut[k].blob
  <2>1. /\ i \in 1..Len(pJournal) /\ i - 1 \in 0..s
        /\ pJournal'[i] = pJournal[i]
    BY <1>1
  <2>2. RowsAt(i - 1)' = RowsAt(i - 1) BY <1>1, <2>1
  <2> QED BY <1>4, <2>1, <2>2 DEF PrimaryInv, JournalAnnounces
<1>5. JournalAnnounces' BY <1>1, <1>4 DEF JournalAnnounces
<1> QED BY <1>3, <1>5 DEF PrimaryInv

LEMMA PrimaryInvInit == Init => PrimaryInv
<1> SUFFICES ASSUME Init PROVE PrimaryInv OBVIOUS
<1>1. pJournal = <<>> /\ pRows = NoRows /\ Len(pJournal) = 0 BY DEF Init
<1>2. ASSUME NEW k \in Keys PROVE Replay(pJournal, 0, 0, NoRows)[k] = NoRows[k]
  <2>1. \A n \in (0 + 1)..0 : pJournal[n].mut[k] = Untouched OBVIOUS
  <2> QED BY <2>1, ReplayUntouched, 0 \in Nat
<1>3. RowsAt(0) = NoRows BY <1>2 DEF RowsAt, Replay, NoRows
<1> QED BY <1>1, <1>3 DEF PrimaryInv, JournalCoversRows, JournalAnnounces

LEMMA PrimaryInvStep == TypeOK /\ PrimaryInv /\ [Next]_vars => PrimaryInv'
<1> SUFFICES ASSUME TypeOK, PrimaryInv, [Next]_vars PROVE PrimaryInv' OBVIOUS
<1>1. CASE UNCHANGED <<pRows, pJournal, lost>> BY <1>1 DEF PrimaryInv, JournalCoversRows, JournalAnnounces, RowsAt
<1>2. ASSUME NEW q, NEW m, NEW blobs, IsCommit(q, m, blobs) PROVE PrimaryInv' BY <1>2, CommitKeepsPrimaryInv
<1>3. ASSUME NEW s \in 0..MaxSerial, RestorePrimary(s) PROVE PrimaryInv' BY <1>3, RestoreKeepsPrimaryInv
<1> QED BY <1>1, <1>2, <1>3, PrimaryCases

(* No mutation of the primary, in any order and after any restore, changes  *)
(* a hosted row that its journal does not account for: commit_driver_txn_at *)
(* attaches to the last entry of a transaction all that the rows need.      *)
THEOREM JournalIsComplete == Spec => []JournalCoversRows
<1>1. Init => PrimaryInv BY PrimaryInvInit
<1>2. TypeOK /\ PrimaryInv /\ [Next]_vars => PrimaryInv' BY PrimaryInvStep
<1>3. PrimaryInv => JournalCoversRows BY DEF PrimaryInv
<1> QED BY <1>1, <1>2, <1>3, TypeCorrect, PTL DEF Spec

--------------------------------
(* The replica is the primary's snapshot at its serial. *)

(* Unless served serials were lost, the page a follower holds is a slice of *)
(* the primary's journal.                                                   *)
PageIsSlice ==
    ~lost =>
      \A f \in Followers :
        pc[f] \in {"page", "blobs"} =>
            /\ Through(page[f]) <= Len(pJournal)
            /\ \A i \in 1..Len(page[f].changes) :
                 page[f].changes[i] = pJournal[page[f].after + i]

SnapshotInv == TypeOK /\ FollowerInv /\ PrimaryInv /\ SnapshotAtSerial /\ PageIsSlice

LEMMA PageIsSliceStep == SnapshotInv /\ [Next]_vars => PageIsSlice'
<1> SUFFICES ASSUME SnapshotInv, [Next]_vars, lost' = FALSE,
                    NEW f \in Followers, pc'[f] \in {"page", "blobs"}
             PROVE  /\ Through(page'[f]) <= Len(pJournal')
                    /\ \A i \in 1..Len(page'[f].changes) :
                         page'[f].changes[i] = pJournal'[page'[f].after + i]
  BY TypeOKStep DEF PageIsSlice, SnapshotInv, Through, TypeOK
<1> USE DEF SnapshotInv
<1>1. /\ TypeOK /\ page[f] \in Pages /\ page'[f] \in Pages
      /\ Len(pJournal) \in Nat /\ Len(pJournal') \in Nat
  <2>1. TypeOK /\ TypeOK' BY TypeOKStep
  <2> QED BY <2>1 DEF TypeOK
<1>2. CASE GetsPage(f)
  <2>1. /\ page'[f] = ServeChanges(seen[f], PageLimit)
        /\ pJournal' = pJournal /\ lost' = lost
    BY <1>2 DEF GetsPage
  <2>2. seen[f] \in Nat /\ seen[f] <= Len(pJournal) BY <2>1 DEF TypeOK, FollowerInv, SnapshotAtSerial
  <2>3. pJournal \in Seq(Entries) BY DEF TypeOK
  <2> QED BY <2>1, <2>2, <2>3, ServeChangesType
<1>3. CASE page'[f] = page[f] /\ pc[f] \in {"page", "blobs"}
  <2>1. CASE UNCHANGED <<pRows, pJournal, lost>> BY <1>3, <2>1 DEF PageIsSlice
  <2>2. ASSUME NEW q, NEW m, NEW blobs, IsCommit(q, m, blobs)
        PROVE  /\ Through(page'[f]) <= Len(pJournal')
               /\ \A i \in 1..Len(page'[f].changes) :
                    page'[f].changes[i] = pJournal'[page'[f].after + i]
    <3>1. /\ Len(pJournal') = Len(pJournal) + Len(q) /\ Len(q) \in Nat
          /\ \A i \in 1..Len(pJournal) : pJournal'[i] = pJournal[i]
      <4>1. Len(q) \in Nat BY <2>2 DEF IsCommit
      <4> QED BY <2>2, <4>1, CommitEffect
    <3>2. lost' = lost BY <2>2, CommitLeavesReplica
    <3>3. /\ Through(page[f]) <= Len(pJournal)
          /\ \A i \in 1..Len(page[f].changes) :
               page[f].changes[i] = pJournal[page[f].after + i]
      BY <1>3, <3>2 DEF PageIsSlice
    <3>4. \A i \in 1..Len(page[f].changes) : page[f].after + i \in 1..Len(pJournal) BY <1>1, <3>3, PageType DEF Through
    <3>5. Through(page[f]) \in Nat BY <1>1, PageType
    <3> QED BY <1>1, <1>3, <3>1, <3>3, <3>4, <3>5
  <2>3. ASSUME NEW s \in 0..MaxSerial, RestorePrimary(s)
        PROVE  /\ Through(page'[f]) <= Len(pJournal')
               /\ \A i \in 1..Len(page'[f].changes) :
                    page'[f].changes[i] = pJournal'[page'[f].after + i]
    <3>1. /\ s \in Nat /\ Len(pJournal') = s
          /\ \A i \in 1..s : pJournal'[i] = pJournal[i]
      BY <2>3, RestoreEffect
    <3>2. ~lost /\ ~(s < Through(page[f])) BY <2>3 DEF RestorePrimary
    <3>3. \A i \in 1..Len(page[f].changes) :
            page[f].changes[i] = pJournal[page[f].after + i]
      BY <1>3, <3>2 DEF PageIsSlice
    <3>4. /\ Through(page[f]) \in Nat /\ Through(page[f]) <= s
          /\ \A i \in 1..Len(page[f].changes) : page[f].after + i \in 1..s
      BY <1>1, <3>1, <3>2, PageType DEF Through
    <3> QED BY <1>3, <3>1, <3>3, <3>4
  <2> QED BY <1>1, <2>1, <2>2, <2>3, PrimaryCases
<1> QED BY <1>1, <1>2, <1>3, FollowerCases
     DEF FollowerCase, StaysPut, GoesIdle, TakesCursor, Advances

(* The rows an applied page leaves are the primary's rows at its last       *)
(* serial: replaying a slice over a snapshot is replaying the journal.      *)
LEMMA AppliesReachesSnapshot ==
    ASSUME SnapshotInv, NEW f \in Followers, Applies(f), ~lost
    PROVE  /\ Through(page[f]) <= Len(pJournal)
           /\ rRows = RowsAt(page[f].after)
           /\ rRows' = RowsAt(Through(page[f]))
<1>1. TypeOK /\ FollowerInv /\ SnapshotAtSerial /\ PageIsSlice BY DEF SnapshotInv
<1> PICK p : p = page[f] OBVIOUS
<1> PICK n : n = Len(p.changes) OBVIOUS
<1> PICK a : a = p.after OBVIOUS
<1> PICK t : t = Through(p) OBVIOUS
<1>2. p \in Pages BY <1>1 DEF TypeOK
<1>3. a \in Nat /\ n \in Nat /\ t \in Nat /\ t = a + n BY <1>2, PageType DEF Through
<1>4. /\ pc[f] = "blobs" /\ a = Len(rJournal)
      /\ rRows' = Replay(p.changes, 0, n, rRows)
  BY <1>1, AppliesEffect
<1>5. rRows = RowsAt(a) BY <1>1, <1>4 DEF SnapshotAtSerial
<1>6. t <= Len(pJournal) /\ \A i \in 1..n : p.changes[i] = pJournal[a + i] BY <1>1, <1>4 DEF PageIsSlice
<1>7. Replay(p.changes, 0, n, rRows) = Replay(pJournal, a, t, rRows)
  <2>1. IsSlice(p.changes, pJournal, a, n, t) BY <1>3, <1>6 DEF IsSlice
  <2> QED BY <1>3, <2>1, ReplaySlice
<1>8. Replay(pJournal, a, t, RowsAt(a)) = RowsAt(t)
  <2>1. a <= t BY <1>3
  <2> QED BY <1>3, <2>1, ReplaySplit DEF RowsAt
<1> QED BY <1>4, <1>5, <1>6, <1>7, <1>8

LEMMA SnapshotAtSerialStep == SnapshotInv /\ [Next]_vars => SnapshotAtSerial'
<1> SUFFICES ASSUME SnapshotInv, [Next]_vars, lost' = FALSE
             PROVE  /\ Len(rJournal') <= Len(pJournal')
                    /\ rRows' = Replay(pJournal', 0, Len(rJournal'), NoRows)
  BY TypeOKStep DEF SnapshotAtSerial, RowsAt, SnapshotInv, TypeOK
<1>1. TypeOK /\ FollowerInv /\ Len(rJournal) \in Nat /\ Len(pJournal) \in Nat BY DEF SnapshotInv, TypeOK
<1>2. ASSUME NEW f \in Followers, Applies(f)
      PROVE  /\ Len(rJournal') <= Len(pJournal')
             /\ rRows' = Replay(pJournal', 0, Len(rJournal'), NoRows)
  <2>1. Len(rJournal') = Through(page[f]) /\ pJournal' = pJournal /\ lost' = lost
    BY <1>1, <1>2, AppliesEffect DEF pVars, env
  <2>2. Through(page[f]) <= Len(pJournal) /\ rRows' = RowsAt(Through(page[f])) BY <1>2, <2>1, AppliesReachesSnapshot
  <2> QED BY <2>1, <2>2 DEF RowsAt
<1>3. ASSUME UNCHANGED <<rRows, rJournal, cursor>>
      PROVE  /\ Len(rJournal') <= Len(pJournal')
             /\ rRows' = Replay(pJournal', 0, Len(rJournal'), NoRows)
  <2> PICK n \in Nat : n = Len(rJournal) BY <1>1
  <2>1. CASE UNCHANGED <<pRows, pJournal, lost>> BY <1>3, <2>1 DEF SnapshotInv, SnapshotAtSerial, RowsAt
  <2>2. ASSUME NEW q, NEW m, NEW blobs, IsCommit(q, m, blobs)
        PROVE  /\ Len(rJournal') <= Len(pJournal')
               /\ rRows' = Replay(pJournal', 0, Len(rJournal'), NoRows)
    <3>1. Len(q) \in Nat BY <2>2 DEF IsCommit
    <3>2. /\ Len(pJournal') = Len(pJournal) + Len(q)
          /\ \A i \in 1..Len(pJournal) : pJournal'[i] = pJournal[i]
      BY <1>1, <2>2, CommitEffect
    <3>3. lost' = lost BY <2>2, CommitLeavesReplica
    <3>4. n <= Len(pJournal) /\ rRows = RowsAt(n) BY <3>3 DEF SnapshotInv, SnapshotAtSerial
    <3>5. \A i \in 1..n : pJournal'[i] = pJournal[i] BY <1>1, <3>2, <3>4
    <3>6. Replay(pJournal', 0, n, NoRows) = RowsAt(n) BY <3>5, ReplayPrefix DEF RowsAt
    <3> QED BY <1>1, <1>3, <3>1, <3>2, <3>4, <3>6
  <2>3. ASSUME NEW s \in 0..MaxSerial, RestorePrimary(s)
        PROVE  /\ Len(rJournal') <= Len(pJournal')
               /\ rRows' = Replay(pJournal', 0, Len(rJournal'), NoRows)
    <3>1. /\ s \in Nat /\ Len(pJournal') = s
          /\ \A i \in 1..s : pJournal'[i] = pJournal[i]
      BY <1>1, <2>3, RestoreEffect
    <3>2. ~lost /\ ~(s < n) BY <2>3 DEF RestorePrimary
    <3>3. rRows = RowsAt(n) BY <3>2 DEF SnapshotInv, SnapshotAtSerial
    <3>4. \A i \in 1..n : pJournal'[i] = pJournal[i] BY <3>1, <3>2
    <3>5. Replay(pJournal', 0, n, NoRows) = RowsAt(n) BY <3>4, ReplayPrefix DEF RowsAt
    <3> QED BY <1>3, <3>1, <3>2, <3>3, <3>5
  <2> QED BY <1>1, <2>1, <2>2, <2>3, PrimaryCases
<1> QED BY <1>1, <1>2, <1>3, ReplicaCases

LEMMA SnapshotInvInit == Init => SnapshotInv
<1> SUFFICES ASSUME Init PROVE SnapshotInv OBVIOUS
<1>1. TypeOK /\ FollowerInv /\ PrimaryInv BY TypeOKInit, FollowerInvInit, PrimaryInvInit
<1>2. SnapshotAtSerial
  <2>1. Len(rJournal) = 0 /\ Len(pJournal) = 0 /\ rRows = pRows BY DEF Init
  <2> QED BY <1>1, <2>1 DEF SnapshotAtSerial, PrimaryInv, JournalCoversRows
<1>3. PageIsSlice BY DEF Init, PageIsSlice
<1> QED BY <1>1, <1>2, <1>3 DEF SnapshotInv

LEMMA SnapshotInvStep == SnapshotInv /\ [Next]_vars => SnapshotInv'
<1> SUFFICES ASSUME SnapshotInv, [Next]_vars PROVE SnapshotInv' OBVIOUS
<1>1. TypeOK /\ FollowerInv /\ PrimaryInv BY DEF SnapshotInv
<1>2. TypeOK' /\ FollowerInv' /\ PrimaryInv' BY <1>1, TypeOKStep, FollowerInvStep, PrimaryInvStep
<1>3. SnapshotAtSerial' /\ PageIsSlice' BY SnapshotAtSerialStep, PageIsSliceStep
<1> QED BY <1>2, <1>3 DEF SnapshotInv

(* Whatever the page size, the number of concurrent followers, failures,    *)
(* restarts, purges and restores: as long as no served serial was lost, the *)
(* rows of the replica are those of the primary's journal at its serial.    *)
THEOREM ReplicaIsSnapshot == Spec => []SnapshotAtSerial
<1>1. Init => SnapshotInv BY SnapshotInvInit
<1>2. SnapshotInv /\ [Next]_vars => SnapshotInv' BY SnapshotInvStep
<1>3. SnapshotInv => SnapshotAtSerial BY DEF SnapshotInv
<1> QED BY <1>1, <1>2, <1>3, PTL DEF Spec
--------------------------------
(* The copied journal. *)

(* An applied page only lengthens the copied journal, and rows move with it. *)
LEMMA AppliesForwardStep ==
    ASSUME TypeOK, TypeOK', FollowerInv, [Next]_vars, ~UNCHANGED <<rRows, rJournal>>
    PROVE  /\ Len(rJournal) <= Len(rJournal')
           /\ SubSeq(rJournal', 1, Len(rJournal)) = rJournal
           /\ rRows' # rRows => Len(rJournal') > Len(rJournal)
<1>1. PICK f \in Followers : Applies(f) BY ReplicaCases
<1> PICK L : L = Len(rJournal) OBVIOUS
<1>2. /\ rJournal \in Seq(Entries) /\ rJournal' \in Seq(Entries)
      /\ L \in Nat /\ Len(rJournal') \in Nat
  BY DEF TypeOK
<1>3. /\ L < Through(page[f]) /\ Len(rJournal') = Through(page[f])
      /\ \A i \in 1..L : rJournal'[i] = rJournal[i]
  BY <1>1, AppliesEffect
<1>4. \A i \in 1..L : rJournal'[i] \in Entries BY <1>2, <1>3
<1>5. /\ SubSeq(rJournal', 1, L) \in Seq(Entries)
      /\ Len(SubSeq(rJournal', 1, L)) = IF 1 <= L THEN L - 1 + 1 ELSE 0
      /\ \A i \in 1..(L - 1 + 1) : SubSeq(rJournal', 1, L)[i] = rJournal'[1 + i - 1]
  BY <1>2, <1>4, SubSeqProperties
<1>6. Len(SubSeq(rJournal', 1, L)) = L /\ \A i \in 1..L : SubSeq(rJournal', 1, L)[i] = rJournal[i] BY <1>2, <1>3, <1>5
<1>7. SubSeq(rJournal', 1, L) = rJournal BY <1>2, <1>5, <1>6, SeqEqual
<1> QED BY <1>2, <1>3, <1>7

(* No step of any follower, restart or restore takes back what the replica  *)
(* has copied, and no row moves without the serial that accounts for it:    *)
(* commit_replica_txn writes both or neither.                               *)
THEOREM CopiesOnlyGrow == Spec => AppliesForward
<1> DEFINE Inv == TypeOK /\ FollowerInv
<1>1. Inv /\ Inv' /\ [Next]_vars
        => [/\ Len(rJournal) <= Len(rJournal')
            /\ SubSeq(rJournal', 1, Len(rJournal)) = rJournal
            /\ rRows' # rRows => Len(rJournal') > Len(rJournal)]_<<rRows, rJournal>>
  BY AppliesForwardStep
<1> QED BY <1>1, FollowerInvariant, PTL DEF Spec, AppliesForward

(* What one applied page leaves of row k: its last change in the page, if   *)
(* any, whether or not the copied entry had to record it.                   *)
CopiedAfter(journal, a, p, rows) ==
    Len(p.changes) > 0 /\ \A i \in 1..Len(p.changes) : journal[a + i] = CopiedEntries(p, rows)[i]

LEMMA CopiedEntriesReplay ==
    ASSUME NEW p \in Pages, NEW rows, NEW journal, NEW a \in Nat, CopiedAfter(journal, a, p, rows)
    PROVE  Replay(journal, a, a + Len(p.changes), rows) = Replay(p.changes, 0, Len(p.changes), rows)
<1> DEFINE n == Len(p.changes)
           merged == [k \in Keys |->
                     IF ~HasTouch(p.changes, 0, n, k) THEN Untouched
                     ELSE LET v == p.changes[LastTouch(p.changes, 0, n, k)].mut[k]
                          IN  IF v = Absent /\ rows[k] = Absent THEN Untouched ELSE v]
<1>1. n \in Nat /\ n > 0 /\ \A i \in 1..n : journal[a + i] = CopiedEntries(p, rows)[i] BY PageType DEF CopiedAfter
<1>2. \A i \in 1..n : CopiedEntries(p, rows)[i].mut = IF i = n THEN merged ELSE NoChange BY DEF CopiedEntries
<1> HIDE DEF merged
<1>3. ASSUME NEW i \in (a + 1)..(a + n - 1) PROVE journal[i].mut = NoChange
  <2> PICK x \in 1..n : x # n /\ a + x = i
    <3>1. i - a \in 1..n /\ i - a # n /\ a + (i - a) = i BY <1>1
    <3> QED BY <3>1
  <2>1. journal[i] = CopiedEntries(p, rows)[x] BY <1>1
  <2> QED BY <1>2, <2>1
<1>4. journal[a + n].mut = merged BY <1>1, <1>2
<1>5. Replay(journal, a, a + n, rows)
        = [k \in Keys |-> IF merged[k] = Untouched THEN rows[k] ELSE merged[k]]
  <2> PICK s : s = a + n OBVIOUS
  <2>1. s \in Nat /\ a < s /\ s - 1 = a + n - 1 BY <1>1
  <2>2. (\A i \in (a + 1)..(s - 1) : journal[i].mut = NoChange) /\ journal[s].mut = merged BY <1>3, <1>4, <2>1
  <2> PICK m : m = merged OBVIOUS
  <2>3. Replay(journal, a, s, rows) = [k \in Keys |-> IF m[k] = Untouched THEN rows[k] ELSE m[k]]
    BY <2>1, <2>2, ReplayOneTxn
  <2> QED BY <2>3
<1>6. ASSUME NEW k \in Keys
      PROVE  Replay(p.changes, 0, n, rows)[k] = IF merged[k] = Untouched THEN rows[k] ELSE merged[k]
  <2>1. CASE HasTouch(p.changes, 0, n, k)
    <3>1. PICK i \in 1..n : IsLastTouch(p.changes, 0, n, k, i) BY <2>1 DEF HasTouch
    <3>2. LastTouch(p.changes, 0, n, k) = i /\ Replay(p.changes, 0, n, rows)[k] = p.changes[i].mut[k]
      BY <1>1, <3>1, LastTouchChosen, ReplayTouched, 0 \in Nat
    <3>3. p.changes[i].mut[k] # Untouched BY <3>1 DEF IsLastTouch
    <3>4. merged[k] = IF p.changes[i].mut[k] = Absent /\ rows[k] = Absent
                        THEN Untouched ELSE p.changes[i].mut[k]
      BY <2>1, <3>2 DEF merged
    <3> QED BY <3>2, <3>3, <3>4
  <2>2. CASE ~HasTouch(p.changes, 0, n, k)
    <3>1. merged[k] = Untouched BY <2>2 DEF merged
    <3>2. Replay(p.changes, 0, n, rows)[k] = rows[k] BY <2>2 DEF Replay
    <3> QED BY <3>1, <3>2
  <2> QED BY <2>1, <2>2
<1>7. Replay(p.changes, 0, n, rows) = [k \in Keys |-> Replay(p.changes, 0, n, rows)[k]] BY DEF Replay
<1> HIDE DEF n
<1>8. Replay(journal, a, a + n, rows) = Replay(p.changes, 0, n, rows) BY <1>5, <1>6, <1>7
<1> QED BY <1>8 DEF n

LEMMA PromotableJournalStep ==
    ASSUME TypeOK, FollowerInv, PromotableJournal, [Next]_vars
    PROVE  PromotableJournal'
<1>1. CASE UNCHANGED <<rRows, rJournal, cursor>> BY <1>1 DEF PromotableJournal
<1>2. ASSUME NEW f \in Followers, Applies(f) PROVE PromotableJournal'
  <2> PICK p : p = page[f] OBVIOUS
  <2> PICK L \in Nat : L = Len(rJournal) BY DEF TypeOK
  <2>1. p \in Pages BY DEF TypeOK
  <2> PICK n \in Nat : n = Len(p.changes) BY <2>1, PageType
  <2>2. /\ Len(rJournal') = L + n /\ n > 0
        /\ rRows' = Replay(p.changes, 0, n, rRows)
        /\ \A i \in 1..L : rJournal'[i] = rJournal[i]
        /\ \A i \in 1..n : rJournal'[L + i] = CopiedEntries(p, rRows)[i]
    BY <1>2, AppliesEffect
  <2>3. Replay(rJournal', L, L + n, rRows) = Replay(p.changes, 0, n, rRows)
    <3>1. CopiedAfter(rJournal', L, p, rRows) BY <2>2 DEF CopiedAfter
    <3>2. Replay(rJournal', L, L + Len(p.changes), rRows) = Replay(p.changes, 0, Len(p.changes), rRows)
      BY <2>1, <3>1, CopiedEntriesReplay
    <3> QED BY <3>2
  <2>4. Replay(rJournal', 0, L, NoRows) = rRows
    <3> PICK old : old = rJournal OBVIOUS
    <3> PICK new : new = rJournal' OBVIOUS
    <3>1. \A i \in 1..L : new[i] = old[i] BY <2>2
    <3>2. Replay(new, 0, L, NoRows) = Replay(old, 0, L, NoRows) BY <3>1, ReplayPrefix
    <3>3. Replay(old, 0, L, NoRows) = rRows BY DEF PromotableJournal
    <3> QED BY <3>2, <3>3
  <2>5. Replay(rJournal', 0, L + n, NoRows) = Replay(rJournal', L, L + n, Replay(rJournal', 0, L, NoRows))
    <3>1. L + n \in Nat /\ L <= L + n OBVIOUS
    <3> QED BY <3>1, ReplaySplit
  <2> QED BY <2>2, <2>3, <2>4, <2>5 DEF PromotableJournal
<1> QED BY <1>1, <1>2, ReplicaCases

(* A replica's own journal replays to its own rows, though a page's changes *)
(* were collapsed onto one serial and no-op removals dropped: a promoted    *)
(* replica can be followed.                                                 *)
THEOREM ReplicaIsPromotable == Spec => []PromotableJournal
<1>1. Init => PromotableJournal BY PrimaryInvInit DEF Init, PromotableJournal, PrimaryInv, JournalCoversRows, RowsAt
<1>2. TypeOK /\ FollowerInv /\ PromotableJournal /\ [Next]_vars => PromotableJournal' BY PromotableJournalStep
<1> QED BY <1>1, <1>2, FollowerInvariant, PTL DEF Spec

--------------------------------
(* Blobs before metadata. *)

(* Every blob of the page at hand is still to be settled or is there. *)
BlobsSettled ==
    \A f \in Followers :
        pc[f] = "blobs" => \A b \in PageBlobs(page[f]) : b \in need[f] \/ rBlobs[b] = "good"

(* A blob that is there stays, unless the collector finds no row for it     *)
(* while nobody is at work.                                                 *)
BlobStays(b) ==
    rBlobs[b] = "good" /\ (b \in Referenced(rRows) \/ \E f \in Followers : pc[f] = "blobs") => rBlobs'[b] = "good"

(* A blob leaves the list of a follower at work only when it is there. *)
BlobAwaited(f, b) ==
    b \in need[f] /\ pc[f] = "blobs" /\ pc'[f] = "blobs" => b \in need'[f] \/ rBlobs'[b] = "good"

LEMMA SyncBlobs ==
    ASSUME TypeOK, NEW g \in Followers, Sync(g) \/ TransferFails(g), NEW f \in Followers, NEW b \in Blobs
    PROVE  BlobStays(b) /\ BlobAwaited(f, b)
<1>1. need \in [Followers -> SUBSET Blobs] /\ rBlobs \in [Blobs -> BlobStates] /\ pc \in [Followers -> {"idle", "serial", "request", "page", "blobs"}]
  BY DEF TypeOK
<1>2. CASE Leave(g) /\ rBlobs' = rBlobs BY <1>1, <1>2 DEF Leave, BlobStays, BlobAwaited
<1>3. ASSUME UNCHANGED <<need, rBlobs>> PROVE BlobStays(b) /\ BlobAwaited(f, b) BY <1>3 DEF BlobStays, BlobAwaited
<1>4. CASE ReadCursor(g) \/ RequestPage(g) BY <1>3, <1>4 DEF ReadCursor, RequestPage, rVars
<1>5. CASE ReadSerial(g) BY <1>2, <1>3, <1>5 DEF ReadSerial, Fail, rVars
<1>6. CASE ReceivePage(g) /\ ~Leave(g)
  <2>1. /\ pc[g] = "page" /\ rBlobs' = rBlobs
        /\ need' = [need EXCEPT ![g] = PageBlobs(page[g])]
    BY <1>6 DEF ReceivePage, Fail, rVars
  <2>2. f # g => need'[f] = need[f] BY <1>1, <2>1
  <2> QED BY <2>1, <2>2 DEF BlobStays, BlobAwaited
<1>7. CASE CaughtUp(g) \/ ApplyPage(g) \/ TransferFails(g)
  BY <1>2, <1>7 DEF CaughtUp, ApplyPage, TransferFails, Fail, rVars
<1>8. ASSUME NEW x \in Blobs, VerifyBlob(g, x), ~Leave(g) PROVE BlobStays(b) /\ BlobAwaited(f, b)
  <2>1. rBlobs' = rBlobs /\ rBlobs[x] = "good" /\ need' = [need EXCEPT ![g] = @ \ {x}]
    BY <1>8 DEF VerifyBlob, Fail, rVars
  <2>2. b \in need[f] => b \in need'[f] \/ b = x BY <1>1, <2>1
  <2> QED BY <2>1, <2>2 DEF BlobStays, BlobAwaited
<1>9. ASSUME NEW x \in Blobs, FetchBlob(g, x), ~Leave(g) PROVE BlobStays(b) /\ BlobAwaited(f, b)
  <2>1. rBlobs' = [rBlobs EXCEPT ![x] = "good"] /\ need' = [need EXCEPT ![g] = @ \ {x}] BY <1>9 DEF FetchBlob, Fail
  <2>2. b \in need[f] => b \in need'[f] \/ b = x BY <1>1, <2>1
  <2>3. rBlobs'[x] = "good" /\ (b # x => rBlobs'[b] = rBlobs[b]) BY <1>1, <2>1
  <2> QED BY <2>2, <2>3 DEF BlobStays, BlobAwaited
<1>10. ASSUME NEW x \in Blobs, VerifyBlob(g, x) \/ FetchBlob(g, x), Leave(g) PROVE rBlobs' = rBlobs
  <2>1. CASE VerifyBlob(g, x) BY <2>1 DEF VerifyBlob, rVars
  <2>2. CASE FetchBlob(g, x)
    <3>1. pc[g] = "blobs" /\ pc'[g] = "idle" BY <1>1, <1>10, <2>2 DEF FetchBlob, Leave
    <3> QED BY <2>2, <3>1 DEF FetchBlob
  <2> QED BY <1>10, <2>1, <2>2
<1>11. CASE ReceivePage(g) /\ Leave(g) BY <1>2, <1>11 DEF ReceivePage, rVars
<1> QED BY <1>2, <1>4, <1>5, <1>6, <1>7, <1>8, <1>9, <1>10, <1>11 DEF Sync

LEMMA BlobCases ==
    ASSUME TypeOK, [Next]_vars, NEW b \in Blobs
    PROVE  BlobStays(b) /\ \A f \in Followers : BlobAwaited(f, b)
<1> DEFINE Good == BlobStays(b) /\ \A f \in Followers : BlobAwaited(f, b)
<1>0. ASSUME UNCHANGED <<need, rBlobs>> PROVE Good BY <1>0 DEF BlobStays, BlobAwaited
<1>1. CASE HostedMutation BY <1>0, <1>1, HostedMutationIsCommit, CommitLeavesReplica
<1>2. ASSUME NEW a \in Artifacts, NEW P \in {{}} \cup {{p} : p \in Provenances}, AbandonUpload(a, P)
      PROVE  UNCHANGED <<need, rBlobs>>
  BY <1>2 DEF AbandonUpload, rVars, fVars
<1>3. ASSUME NEW x \in Blobs, PurgePrimary(x) PROVE UNCHANGED <<need, rBlobs>> BY <1>3 DEF PurgePrimary, rVars, fVars
<1>4. ASSUME NEW s \in 0..MaxSerial, RestorePrimary(s) PROVE UNCHANGED <<need, rBlobs>>
  BY <1>4 DEF RestorePrimary, rVars, fVars
<1>5. ASSUME NEW g \in Followers, Sync(g) \/ TransferFails(g) PROVE Good BY <1>5, SyncBlobs
<1>6. CASE Restart BY <1>6 DEF Restart, rVars, BlobStays, BlobAwaited
<1>7. ASSUME NEW x \in Blobs, PurgeReplica(x) PROVE Good
  <2>1. /\ \A g \in Followers : pc[g] = "idle"
        /\ x \notin Referenced(rRows)
        /\ rBlobs' = [rBlobs EXCEPT ![x] = "absent"]
    BY <1>7 DEF PurgeReplica
  <2>2. b # x => rBlobs'[b] = rBlobs[b] BY <2>1 DEF TypeOK
  <2> QED BY <2>1, <2>2 DEF BlobStays, BlobAwaited
<1>8. CASE UNCHANGED vars BY <1>0, <1>8 DEF vars, rVars, fVars
<1> QED BY <1>0, <1>1, <1>2, <1>3, <1>4, <1>5, <1>6, <1>7, <1>8 DEF Next, PrimaryNext, HostedMutation

LEMMA BlobsSettledStep ==
    ASSUME TypeOK, BlobsSettled, [Next]_vars
    PROVE  BlobsSettled'
<1> SUFFICES ASSUME NEW f \in Followers, pc'[f] = "blobs", NEW b \in PageBlobs(page'[f])
             PROVE  b \in need'[f] \/ rBlobs'[b] = "good"
  BY DEF BlobsSettled, PageBlobs
<1>1. CASE pc[f] = "blobs" /\ page'[f] = page[f]
  <2>1. page[f] \in Pages BY DEF TypeOK
  <2>2. b \in Blobs BY <1>1, <2>1, PageType
  <2>3. b \in need[f] \/ rBlobs[b] = "good" BY <1>1 DEF BlobsSettled
  <2> QED BY <1>1, <2>2, <2>3, BlobCases DEF BlobStays, BlobAwaited
<1>2. CASE pc[f] = "page" /\ page'[f] = page[f] /\ need'[f] = PageBlobs(page[f]) BY <1>2
<1> QED BY <1>1, <1>2, FollowerCases DEF FollowerCase, StaysPut, GoesIdle, TakesCursor, GetsPage, Advances

(* A record that names a blob at serial t names it since serial a, or some  *)
(* entry between the two announced the blob: the first serial from which    *)
(* the row has named it without a break tells which.                        *)
LEMMA NamedOrAnnounced ==
    ASSUME TypeOK, JournalAnnounces, NEW a \in Nat, NEW t \in Nat, a <= t, t <= Len(pJournal),
           NEW k \in Keys, NEW b, RowsAt(t)[k] \in Records, RowsAt(t)[k].blob = b
    PROVE  \/ RowsAt(a)[k] \in Records /\ RowsAt(a)[k].blob = b
           \/ \E i \in (a + 1)..t : b \in pJournal[i].blobs
<1> DEFINE Names(m) == RowsAt(m)[k] \in Records /\ RowsAt(m)[k].blob = b
           T == {m \in a..t : Names(m)}
<1>1. T \in SUBSET Nat /\ t \in T OBVIOUS
<1>2. PICK m \in T : \A n \in T : m <= n BY <1>1, LeastNatural
<1>3. m \in a..t /\ Names(m) BY <1>2
<1>4. CASE m = a BY <1>3, <1>4
<1>5. CASE m # a
  <2> PICK n : n = m - 1 OBVIOUS
  <2>1. n \in Nat /\ m \in Nat /\ n \in a..t /\ n < m /\ n <= m /\ n + 1 = m /\ m \in (a + 1)..t /\ m \in 1..Len(pJournal)
    BY <1>3, <1>5 DEF TypeOK
  <2>2. ~Names(n) BY <1>2, <2>1
  <2>3. RowsAt(m) = Replay(pJournal, n, m, RowsAt(n)) BY <2>1, ReplaySplit DEF RowsAt
  <2>4. RowsAt(m)[k] = IF pJournal[m].mut[k] = Untouched THEN RowsAt(n)[k] ELSE pJournal[m].mut[k]
    <3> PICK mut : mut = pJournal[m].mut OBVIOUS
    <3>1. \A i \in (n + 1)..(m - 1) : pJournal[i].mut = NoChange BY <2>1
    <3>2. Replay(pJournal, n, m, RowsAt(n)) = [x \in Keys |-> IF mut[x] = Untouched THEN RowsAt(n)[x] ELSE mut[x]]
      BY <2>1, <3>1, ReplayOneTxn
    <3> QED BY <2>3, <3>2
  <2>5. pJournal[m].mut[k] \in Records /\ pJournal[m].mut[k].blob = b BY <1>3, <2>2, <2>4
  <2>6. b \in pJournal[m].blobs
    <3>1. \/ pJournal[m].mut[k].blob \in pJournal[m].blobs
          \/ RowsAt(m - 1)[k] \in Records /\ RowsAt(m - 1)[k].blob = pJournal[m].mut[k].blob
      BY <2>1, <2>5 DEF JournalAnnounces
    <3>2. m - 1 = n BY <2>1
    <3> QED BY <2>2, <2>5, <3>1, <3>2
  <2> QED BY <2>1, <2>6
<1> QED BY <1>4, <1>5

BlobsInv == SnapshotInv /\ BlobsSettled /\ BlobsBeforeMetadata

LEMMA BlobsBeforeMetadataStep == BlobsInv /\ [Next]_vars => BlobsBeforeMetadata'
<1> SUFFICES ASSUME BlobsInv, [Next]_vars, ~lost', NEW k \in Keys, rRows'[k] \in Records
             PROVE  rBlobs'[rRows'[k].blob] = "good"
  BY DEF BlobsBeforeMetadata, Referenced
<1> PICK b : b = rRows'[k].blob OBVIOUS
<1>1. TypeOK /\ FollowerInv /\ PrimaryInv /\ SnapshotAtSerial /\ PageIsSlice /\ BlobsSettled
  BY DEF BlobsInv, SnapshotInv
<1>2. ~lost
  <2>1. CASE UNCHANGED <<pRows, pJournal, lost>> BY <2>1
  <2>2. ASSUME NEW q, NEW m, NEW blobs, IsCommit(q, m, blobs) PROVE lost' = lost BY <2>2, CommitLeavesReplica
  <2>3. ASSUME NEW s \in 0..MaxSerial, RestorePrimary(s) PROVE lost => lost' BY <2>3 DEF RestorePrimary
  <2> QED BY <1>1, <2>1, <2>2, <2>3, PrimaryCases
<1>3. b \in Blobs BY DEF Records
<1>4. ASSUME b \in Referenced(rRows) PROVE rBlobs'[b] = "good"
  <2>1. rBlobs[b] = "good" BY <1>2, <1>4 DEF BlobsInv, BlobsBeforeMetadata
  <2> QED BY <1>1, <1>3, <1>4, <2>1, BlobCases DEF BlobStays
<1>5. CASE UNCHANGED <<rRows, rJournal, cursor>> BY <1>4, <1>5 DEF Referenced
<1>6. ASSUME NEW f \in Followers, Applies(f) PROVE rBlobs'[b] = "good"
  <2> PICK p : p = page[f] OBVIOUS
  <2> PICK a : a = p.after OBVIOUS
  <2> PICK t : t = Through(p) OBVIOUS
  <2>1. a \in Nat /\ t \in Nat /\ a <= t /\ Len(p.changes) \in Nat /\ t = a + Len(p.changes)
    BY <1>1, PageType DEF TypeOK, Through
  <2>2. t <= Len(pJournal) /\ rRows = RowsAt(a) /\ rRows' = RowsAt(t) BY <1>2, <1>6, AppliesReachesSnapshot DEF BlobsInv
  <2>3. pc[f] = "blobs" /\ need[f] = {} /\ rBlobs' = rBlobs BY <1>1, <1>6, AppliesEffect
  <2>4. \/ RowsAt(a)[k] \in Records /\ RowsAt(a)[k].blob = b
        \/ \E i \in (a + 1)..t : b \in pJournal[i].blobs
    BY <1>1, <2>1, <2>2, NamedOrAnnounced DEF PrimaryInv
  <2>5. CASE RowsAt(a)[k] \in Records /\ RowsAt(a)[k].blob = b BY <1>4, <2>2, <2>5 DEF Referenced
  <2>6. ASSUME NEW i \in (a + 1)..t, b \in pJournal[i].blobs PROVE rBlobs'[b] = "good"
    <3>1. i - a \in 1..Len(p.changes) /\ a + (i - a) = i
      <4> PICK n \in Nat : n = Len(p.changes) BY <2>1
      <4>1. t = a + n BY <2>1
      <4>2. i - a \in 1..n /\ a + (i - a) = i BY <2>1, <4>1
      <4> QED BY <4>2
    <3>2. p.changes[i - a] = pJournal[i] BY <1>1, <1>2, <2>3, <3>1 DEF PageIsSlice
    <3>3. b \in PageBlobs(p) BY <2>6, <3>1, <3>2 DEF PageBlobs
    <3> QED BY <1>1, <2>3, <3>3 DEF BlobsSettled
  <2> QED BY <2>4, <2>5, <2>6
<1> QED BY <1>1, <1>5, <1>6, ReplicaCases

(* Whatever followers, transfers, stops, purges and restores do: unless     *)
(* served serials were lost, every blob a served row names is on the        *)
(* replica, whole.                                                          *)
THEOREM BlobsComeFirst == Spec => []BlobsBeforeMetadata
<1>1. Init => BlobsInv
  <2>1. Init => BlobsSettled BY DEF Init, BlobsSettled
  <2>2. Init => BlobsBeforeMetadata BY SentinelAssumption DEF Init, BlobsBeforeMetadata, Referenced, NoRows, Values
  <2> QED BY <2>1, <2>2, SnapshotInvInit DEF BlobsInv
<1>2. BlobsInv /\ [Next]_vars => BlobsInv'
  BY SnapshotInvStep, BlobsSettledStep, BlobsBeforeMetadataStep DEF BlobsInv, SnapshotInv
<1>3. BlobsInv => BlobsBeforeMetadata BY DEF BlobsInv
<1> QED BY <1>1, <1>2, <1>3, PTL DEF Spec

--------------------------------
(* Backups.  A command knows what it has written or found, and only the media *)
(* take that away from it.                                                    *)

(* A directory has its five parts, whatever is in them. *)
IsDirectory(dir) == dir = [config |-> dir.config, metadata |-> dir.metadata, index |-> dir.index,
                           blobs |-> dir.blobs, manifest |-> dir.manifest]
IsCommand(c) == c = [name |-> c.name, step |-> c.step, left |-> c.left, result |-> c.result, found |-> c.found]

OperatorTyped ==
    /\ IsDirectory(backup) /\ IsDirectory(target) /\ IsCommand(command)
    /\ damage \in [files : Nat, since : BOOLEAN, commands : Nat]

Keeps(blobs, rows) == \A d \in rows : d \in DOMAIN blobs /\ blobs[d] = "right"
RightFile == [state |-> "right"]

(* What a backup has written, step by step. *)
Creating(dir, c, refs) ==
    /\ c.step \in {"metadata", "blobs"} => dir.config = RightFile
    /\ c.step = "blobs" =>
         /\ dir.metadata = [state |-> "right", refs |-> refs]
         /\ dir.index = [state |-> "right", rows |-> dir.index.rows]
         /\ refs = dir.index.rows \cup c.left
         /\ Keeps(dir.blobs, dir.index.rows)

(* What a restore has found good and has copied, unless the media failed since. *)
Restoring(from, to, c) ==
    /\ c.step \in {"prepare", "metadata", "blobs"} => CheckBackup(from)
    /\ c.step \in {"prepare", "metadata"} => c.left = from.index.rows
    /\ c.step = "blobs" => /\ to.metadata = from.metadata /\ to.config = from.config
                           /\ c.left \subseteq from.index.rows /\ Keeps(to.blobs, from.index.rows \ c.left)
    /\ c.result = "restored" => Whole(to)

OperatorInv ==
    /\ OperatorTyped
    /\ command.step # "done" => command.result \in {"none", "force"}
    /\ command.result \in {"ok", "created", "restored", "problems", "refused", "failed", "killed"} => command.step = "done"
    /\ command.name = "verify" /\ command.result = "ok" /\ ~damage.since => CheckBackup(backup)
    /\ command.name = "create" => Creating(backup, command, source.refs)
    /\ command.name = "create" /\ command.result = "created" /\ damage.files = 0 =>
         CheckBackup(backup) /\ backup.metadata.refs = source.refs
    /\ command.name = "restore" /\ ~damage.since => Restoring(backup, target, command)
    /\ command.name = "restore" /\ (command.step \in {"start", "prepare"} \/ command.result \in {"problems", "refused"})
         => target = command.found

LEMMA GoodIsWhole ==
    ASSUME NEW dir, CheckBackup(dir)
    PROVE  dir.manifest.written /\ Whole(dir) /\ References(dir.metadata) \subseteq dir.index.rows /\ Keeps(dir.blobs, dir.index.rows)
           /\ Present(dir.config) /\ ~FileProblem(dir.config) /\ Present(dir.metadata)
  BY DEF CheckBackup, Whole, IndexProblem, MetadataProblem, BlobProblem, FileProblem, Present, References, Keeps

LEMMA OperatorInvFollows ==
    ASSUME OperatorInv
    PROVE  BackupsRestore
<1>1. command.name = "verify" /\ command.result = "ok" /\ ~damage.since => backup.manifest.written /\ Whole(backup)
  BY GoodIsWhole DEF OperatorInv
<1>2. command.name = "create" /\ command.result = "created" /\ damage.files = 0 =>
           Whole(backup) /\ References(backup.metadata) = source.refs /\ CheckBackup(backup)
  BY GoodIsWhole DEF OperatorInv, References
<1>3. command.name = "restore" /\ command.result = "restored" /\ ~damage.since => Whole(target)
  BY DEF OperatorInv, Restoring
<1>4. command.name = "restore" /\ (command.step \in {"start", "prepare"} \/ command.result \in {"problems", "refused"})
           => target = command.found
  BY DEF OperatorInv
<1> QED BY <1>1, <1>2, <1>3, <1>4 DEF BackupsRestore

LEMMA OperatorInitInv ==
    ASSUME OperatorInit
    PROVE  OperatorInv
<1>1. OperatorTyped BY DEF OperatorInit, OperatorTyped, IsDirectory, IsCommand, EmptyDir, OldDir, NoOperation
<1>2. command.name = "none" /\ command.step = "done" /\ command.result = "none" BY DEF OperatorInit, NoOperation
<1> QED BY <1>1, <1>2 DEF OperatorInv

LEMMA StartCommandInv ==
    ASSUME OperatorInv, NEW name, NEW force, StartCommand(name, force)
    PROVE  OperatorInv'
<1>1. /\ command'.name = name /\ command'.step = "start" /\ command'.left = {} /\ command'.found = target
      /\ command'.result \in {"none", "force"} /\ IsCommand(command')
  BY DEF StartCommand, IsCommand
<1>2. damage' \in [files : Nat, since : BOOLEAN, commands : Nat] BY DEF StartCommand, OperatorInv, OperatorTyped
<1>3. UNCHANGED <<source, backup, target>> BY DEF StartCommand
<1>4. OperatorTyped' BY <1>1, <1>2, <1>3 DEF OperatorInv, OperatorTyped, IsCommand
<1>5. Creating(backup', command', source'.refs) /\ Restoring(backup', target', command') BY <1>1 DEF Creating, Restoring
<1> QED BY <1>1, <1>3, <1>4, <1>5 DEF OperatorInv

(* A command ends without having written or moved anything. *)
LEMMA EndsQuietly ==
    ASSUME OperatorInv, NEW result, EndsCommand(result), UNCHANGED <<source, backup, target>>,
           damage' \in [files : Nat, since : BOOLEAN, commands : Nat],
           result \in {"ok", "created", "restored", "problems", "refused", "failed"},
           command.name = "verify" /\ result = "ok" => CheckBackup(backup),
           command.name = "create" /\ result = "created" => CheckBackup(backup) /\ backup.metadata.refs = source.refs,
           command.name = "restore" /\ result = "restored" /\ ~damage'.since => Whole(target),
           command.name = "restore" /\ result \in {"problems", "refused"} => target = command.found
    PROVE  OperatorInv'
<1>1. /\ command'.name = command.name /\ command'.step = "done" /\ command'.left = {} /\ command'.found = command.found
      /\ command'.result = result /\ IsCommand(command')
  BY DEF EndsCommand, OperatorInv, OperatorTyped, IsCommand
<1>2. OperatorTyped' BY <1>1 DEF OperatorInv, OperatorTyped, IsCommand, IsDirectory
<1>3. Creating(backup', command', source'.refs) BY <1>1 DEF Creating
<1>4. command.name = "restore" /\ ~damage'.since => Restoring(backup', target', command') BY <1>1 DEF Restoring, Whole
<1> QED BY <1>1, <1>2, <1>3, <1>4 DEF OperatorInv, CheckBackup

LEMMA CreateInv ==
    ASSUME OperatorInv, WriteConfig \/ CopyMetadata \/ WriteManifest \/ \E d \in BackupDigests : CopyBlob(d)
    PROVE  OperatorInv'
<1>1. command.name = "create" /\ UNCHANGED <<source, target, damage>>
  BY DEF WriteConfig, CopyMetadata, WriteManifest, CopyBlob
<1>2. damage' \in [files : Nat, since : BOOLEAN, commands : Nat] BY <1>1 DEF OperatorInv, OperatorTyped
<1>t. IsDirectory(backup) /\ IsCommand(command) /\ Creating(backup, command, source.refs) /\ IsDirectory(target)
      /\ (command.step # "done" => command.result \in {"none", "force"})
  BY <1>1 DEF OperatorInv, OperatorTyped
(* A step of the copy. *)
<1>s. ASSUME IsDirectory(backup'), IsCommand(command'), command'.name = "create", command'.step # "done",
             command'.result \in {"none", "force"}, Creating(backup', command', source.refs)
      PROVE  OperatorInv'
  BY <1>1, <1>2, <1>s, <1>t DEF OperatorInv, OperatorTyped, IsDirectory
(* The end of it. *)
<1>e. ASSUME NEW result, EndsCommand(result), IsDirectory(backup'), result \in {"created", "failed"},
             result = "created" => CheckBackup(backup') /\ backup'.metadata.refs = source.refs
      PROVE  OperatorInv'
  <2>1. /\ command'.name = "create" /\ command'.step = "done" /\ command'.result = result /\ IsCommand(command')
    BY <1>e, <1>1, <1>t DEF EndsCommand, IsCommand
  <2>2. Creating(backup', command', source'.refs) BY <2>1 DEF Creating
  <2> QED BY <1>1, <1>2, <1>e, <1>t, <2>1, <2>2 DEF OperatorInv, OperatorTyped, IsDirectory
<1>3. CASE WriteConfig
  <2>1. CASE IsEmptyDir(backup)
    <3>1. backup' = [backup EXCEPT !.config = [state |-> "right"]] /\ command' = [command EXCEPT !.step = "metadata"]
      BY <1>3, <2>1 DEF WriteConfig
    <3>2. IsDirectory(backup') /\ IsCommand(command') /\ command'.name = "create" /\ command'.step = "metadata"
          /\ command'.result = command.result /\ backup'.config = RightFile
      BY <3>1, <1>1, <1>t DEF IsDirectory, IsCommand, RightFile
    <3> QED BY <3>2, <1>3, <1>s, <1>t DEF Creating, WriteConfig
  <2>2. CASE ~IsEmptyDir(backup) BY <1>1, <1>2, <1>3, <2>2, EndsQuietly DEF WriteConfig
  <2> QED BY <2>1, <2>2
<1>4. CASE CopyMetadata
  <2>1. /\ backup' = [backup EXCEPT !.metadata = [state |-> "right", refs |-> source.refs],
                                    !.index = [state |-> "right", rows |-> {}]]
        /\ command' = [command EXCEPT !.step = "blobs", !.left = source.refs]
        /\ command.step = "metadata"
    BY <1>4 DEF CopyMetadata
  <2>2. IsDirectory(backup') /\ IsCommand(command') /\ command'.name = "create" /\ command'.step = "blobs"
        /\ command'.result = command.result /\ command'.left = source.refs
        /\ backup'.config = backup.config /\ backup'.metadata = [state |-> "right", refs |-> source.refs]
        /\ backup'.index = [state |-> "right", rows |-> {}]
    BY <2>1, <1>1, <1>t DEF IsDirectory, IsCommand
  <2>3. backup.config = RightFile BY <2>1, <1>t DEF Creating
  <2>4. backup'.index.rows = {} BY <2>2
  <2>5. Creating(backup', command', source.refs) BY <2>2, <2>3, <2>4 DEF Creating, Keeps
  <2> QED BY <2>1, <2>2, <2>5, <1>s, <1>t
<1>5. CASE WriteManifest
  <2> DEFINE rows == backup.index.rows
  <2>1. /\ backup' = [backup EXCEPT !.manifest = [written |-> TRUE, count |-> Cardinality(rows)]]
        /\ EndsCommand("created") /\ command.step = "blobs" /\ command.left = {}
    BY <1>5 DEF WriteManifest
  <2>2. IsDirectory(backup') /\ backup'.config = backup.config /\ backup'.metadata = backup.metadata
        /\ backup'.index = backup.index /\ backup'.blobs = backup.blobs
        /\ backup'.manifest = [written |-> TRUE, count |-> Cardinality(rows)]
    BY <2>1, <1>t DEF IsDirectory
  <2>3. backup.config = RightFile /\ backup.metadata = [state |-> "right", refs |-> source.refs]
        /\ backup.index = [state |-> "right", rows |-> rows] /\ source.refs = rows /\ Keeps(backup.blobs, rows)
    BY <2>1, <1>t DEF Creating
  <2> HIDE DEF rows
  <2>4. CheckBackup(backup') /\ backup'.metadata.refs = source.refs
    BY <2>2, <2>3 DEF CheckBackup, FileProblem, IndexProblem, MetadataProblem, BlobProblem, References, Keeps, RightFile
  <2> QED BY <2>1, <2>2, <2>4, <1>e
<1>6. ASSUME NEW d \in BackupDigests, CopyBlob(d) PROVE OperatorInv'
  <2> DEFINE rows == backup.index.rows
  <2>1. command.step = "blobs" /\ d \in command.left BY <1>6 DEF CopyBlob
  <2>2. backup.config = RightFile /\ backup.metadata = [state |-> "right", refs |-> source.refs]
        /\ backup.index = [state |-> "right", rows |-> rows] /\ source.refs = rows \cup command.left /\ Keeps(backup.blobs, rows)
    BY <2>1, <1>t DEF Creating
  <2>3. CASE d \notin DOMAIN source.blobs BY <1>1, <1>2, <1>6, <2>3, EndsQuietly DEF CopyBlob
  <2>4. CASE d \in DOMAIN source.blobs /\ source.blobs[d] # "right"
    <3>1. backup' = [backup EXCEPT !.blobs = Copied(@, d, source.blobs[d]), !.index.rows = @]
          /\ EndsCommand("failed")
      BY <1>6, <2>4 DEF CopyBlob
    <3>2. IsDirectory(backup') BY <3>1, <1>t DEF IsDirectory
    <3> QED BY <3>1, <3>2, <1>e
  <2>5. CASE d \in DOMAIN source.blobs /\ source.blobs[d] = "right"
    <3> DEFINE blobs == Copied(backup.blobs, d, source.blobs[d])
               index == [backup.index EXCEPT !.rows = rows \cup {d}]
    <3>1. backup' = [backup EXCEPT !.blobs = blobs, !.index = index] /\ command' = [command EXCEPT !.left = @ \ {d}]
      <4>1. /\ backup' = [backup EXCEPT !.blobs = Copied(@, d, source.blobs[d]), !.index.rows = @ \cup {d}]
            /\ command' = [command EXCEPT !.left = @ \ {d}]
        BY <1>6, <2>5 DEF CopyBlob
      <4> QED BY <4>1, <1>t DEF IsDirectory
    <3>2. index = [state |-> "right", rows |-> rows \cup {d}] BY <2>2
    <3>3. Keeps(blobs, rows \cup {d}) BY <2>2, <2>5 DEF Keeps, Copied
    <3> HIDE DEF blobs, index
    <3>4. IsDirectory(backup') /\ backup'.config = backup.config /\ backup'.metadata = backup.metadata
          /\ backup'.index = index /\ backup'.blobs = blobs
      BY <3>1, <1>t DEF IsDirectory
    <3>5. IsCommand(command') /\ command'.name = "create" /\ command'.step = "blobs" /\ command'.result = command.result
          /\ command'.left = command.left \ {d}
      BY <3>1, <2>1, <1>1, <1>t DEF IsCommand
    <3>6. backup'.index.rows = rows \cup {d} BY <3>2, <3>4
    <3> HIDE DEF rows
    <3>7. source.refs = backup'.index.rows \cup command'.left BY <2>1, <2>2, <3>5, <3>6
    <3>8. Creating(backup', command', source.refs) BY <2>2, <3>2, <3>3, <3>4, <3>5, <3>6, <3>7 DEF Creating
    <3> QED BY <3>4, <3>5, <3>8, <1>s, <1>t, <2>1
  <2> QED BY <2>3, <2>4, <2>5
<1> QED BY <1>3, <1>4, <1>5, <1>6

LEMMA BackupVerifyInv ==
    ASSUME OperatorInv, BackupVerify
    PROVE  OperatorInv'
<1>1. PICK result \in {"ok", "problems"} : EndsCommand(result) /\ (result = "ok" => CheckBackup(backup))
  BY DEF BackupVerify
<1>2. damage' \in [files : Nat, since : BOOLEAN, commands : Nat] BY DEF BackupVerify, OperatorInv, OperatorTyped
<1> QED BY <1>1, <1>2, EndsQuietly DEF BackupVerify

(* A step of a restore that goes on. *)
LEMMA RestoreGoesOn ==
    ASSUME OperatorInv, NEW c, NEW to, NEW struck \in [files : Nat, since : BOOLEAN, commands : Nat],
           command' = c, target' = to, damage' = struck, UNCHANGED <<source, backup>>,
           IsCommand(c), IsDirectory(to), c.name = "restore", c.step \in {"prepare", "metadata", "blobs"},
           c.result \in {"none", "force"}, ~struck.since => Restoring(backup, to, c),
           c.step = "prepare" => to = c.found
    PROVE  OperatorInv'
<1>1. OperatorTyped' BY DEF OperatorInv, OperatorTyped, IsDirectory
<1>2. ~damage'.since => Restoring(backup', target', command') BY DEF OperatorInv
<1> QED BY <1>1, <1>2 DEF OperatorInv

LEMMA RestoreInv ==
    ASSUME OperatorInv, RestoreCheck \/ PrepareTarget \/ RestoreMetadata \/ FinishRestore \/ \E d \in BackupDigests : RestoreBlob(d)
    PROVE  OperatorInv'
<1>1. command.name = "restore" /\ UNCHANGED <<source, backup>> /\ command.step # "done"
  BY DEF RestoreCheck, PrepareTarget, RestoreMetadata, FinishRestore, RestoreBlob
<1>2. IsDirectory(backup) /\ IsDirectory(target) /\ IsCommand(command) /\ command.result \in {"none", "force"}
      /\ damage \in [files : Nat, since : BOOLEAN, commands : Nat]
      /\ (~damage.since => Restoring(backup, target, command))
  BY <1>1 DEF OperatorInv, OperatorTyped
(* It fails, whatever it has done. *)
<1>f. ASSUME EndsCommand("failed"), UNCHANGED <<target, damage>>
      PROVE  OperatorInv'
  BY <1>f, <1>1, <1>2, EndsQuietly
<1>3. CASE RestoreCheck
  <2>1. damage' \in [files : Nat, since : BOOLEAN, commands : Nat] /\ UNCHANGED target /\ command.step = "start"
    BY <1>3, <1>2 DEF RestoreCheck
  <2>2. target = command.found BY <1>1, <2>1 DEF OperatorInv
  <2>3. CASE CheckBackup(backup)
    <3>1. command' = [command EXCEPT !.step = "prepare", !.left = backup.index.rows] BY <1>3, <2>3 DEF RestoreCheck
    <3>2. IsCommand(command') /\ command'.name = "restore" /\ command'.step = "prepare" /\ command'.found = command.found
          /\ command'.left = backup.index.rows /\ command'.result = command.result
      BY <3>1, <1>1, <1>2 DEF IsCommand
    <3>3. Restoring(backup, target, command') BY <3>2, <2>3, <1>2 DEF Restoring
    <3> QED BY <3>2, <3>3, <1>1, <1>2, <2>1, <2>2, RestoreGoesOn
  <2>4. CASE ~CheckBackup(backup) BY <1>3, <2>4, <2>1, <2>2, <1>1, EndsQuietly DEF RestoreCheck
  <2> QED BY <2>3, <2>4
<1>4. CASE PrepareTarget
  <2>1. command.step = "prepare" /\ UNCHANGED damage /\ target = command.found
    BY <1>1, <1>4 DEF PrepareTarget, OperatorInv
  <2>2. CASE EndsCommand("failed") /\ UNCHANGED target BY <2>1, <2>2, <1>f
  <2>3. CASE EndsCommand("refused") /\ UNCHANGED target BY <2>1, <2>3, <1>1, <1>2, EndsQuietly
  <2>4. CASE target' = EmptyDir /\ command' = [command EXCEPT !.step = "metadata"]
    <3>1. IsCommand(command') /\ command'.name = "restore" /\ command'.step = "metadata" /\ command'.found = command.found
          /\ command'.left = command.left /\ command'.result = command.result
      BY <2>4, <1>1, <1>2 DEF IsCommand
    <3>2. IsDirectory(EmptyDir) BY DEF IsDirectory, EmptyDir
    <3>3. ~damage.since => Restoring(backup, EmptyDir, command') BY <3>1, <1>2, <2>1 DEF Restoring
    <3> QED BY <3>1, <3>2, <3>3, <2>4, <1>1, <1>2, <2>1, RestoreGoesOn
  <2> QED BY <1>4, <2>2, <2>3, <2>4 DEF PrepareTarget
<1>5. CASE RestoreMetadata
  <2>1. command.step = "metadata" /\ UNCHANGED damage BY <1>5 DEF RestoreMetadata
  <2>2. CASE Present(backup.metadata) /\ Present(backup.config)
    <3>1. target' = [target EXCEPT !.metadata = backup.metadata, !.config = backup.config]
          /\ command' = [command EXCEPT !.step = "blobs"]
      BY <1>5, <2>2 DEF RestoreMetadata
    <3>2. IsCommand(command') /\ command'.name = "restore" /\ command'.step = "blobs"
          /\ command'.left = command.left /\ command'.result = command.result
      BY <3>1, <1>1, <1>2 DEF IsCommand
    <3>3. IsDirectory(target') /\ target'.metadata = backup.metadata /\ target'.config = backup.config
      BY <3>1, <1>2 DEF IsDirectory
    <3>4. ~damage.since => Restoring(backup, target', command') BY <3>2, <3>3, <1>2, <2>1 DEF Restoring, Keeps
    <3> QED BY <3>2, <3>3, <3>4, <1>1, <1>2, <2>1, RestoreGoesOn
  <2>3. CASE ~(Present(backup.metadata) /\ Present(backup.config)) BY <1>5, <2>3, <2>1, <1>f DEF RestoreMetadata
  <2> QED BY <2>2, <2>3
<1>6. CASE FinishRestore
  <2>1. command.step = "blobs" /\ UNCHANGED <<damage, target>> /\ EndsCommand("restored") /\ command.left = {}
    BY <1>6 DEF FinishRestore
  <2>2. ASSUME ~damage.since PROVE Whole(target)
    <3>1. CheckBackup(backup) /\ target.metadata = backup.metadata /\ target.config = backup.config
          /\ Keeps(target.blobs, backup.index.rows)
      BY <2>1, <2>2, <1>2 DEF Restoring, Keeps
    <3> QED BY <3>1, GoodIsWhole DEF Whole, Keeps
  <2> QED BY <2>1, <2>2, <1>1, <1>2, EndsQuietly
<1>7. ASSUME NEW d \in BackupDigests, RestoreBlob(d) PROVE OperatorInv'
  <2>1. command.step = "blobs" /\ UNCHANGED damage /\ d \in command.left BY <1>7 DEF RestoreBlob
  <2>2. CASE d \in DOMAIN backup.blobs
    <3> DEFINE blobs == Copied(target.blobs, d, backup.blobs[d])
    <3>1. target' = [target EXCEPT !.blobs = blobs] /\ command' = [command EXCEPT !.left = @ \ {d}]
      BY <1>7, <2>2 DEF RestoreBlob
    <3>2. IsCommand(command') /\ command'.name = "restore" /\ command'.step = "blobs"
          /\ command'.left = command.left \ {d} /\ command'.result = command.result
      BY <3>1, <2>1, <1>1, <1>2 DEF IsCommand
    <3>3. IsDirectory(target') /\ target'.metadata = target.metadata /\ target'.config = target.config /\ target'.blobs = blobs
      BY <3>1, <1>2 DEF IsDirectory
    <3>4. ASSUME ~damage.since PROVE Restoring(backup, target', command')
      <4>1. CheckBackup(backup) /\ target.metadata = backup.metadata /\ target.config = backup.config
            /\ command.left \subseteq backup.index.rows /\ Keeps(target.blobs, backup.index.rows \ command.left)
        BY <2>1, <3>4, <1>2 DEF Restoring
      <4>2. backup.blobs[d] = "right" BY <4>1, <2>1, GoodIsWhole DEF Keeps
      <4>3. Keeps(blobs, backup.index.rows \ (command.left \ {d})) BY <4>1, <4>2 DEF Keeps, Copied
      <4> HIDE DEF blobs
      <4> QED BY <3>2, <3>3, <4>1, <4>3, <1>2 DEF Restoring
    <3> HIDE DEF blobs
    <3> QED BY <3>2, <3>3, <3>4, <1>1, <1>2, <2>1, RestoreGoesOn
  <2>3. CASE d \notin DOMAIN backup.blobs BY <1>7, <2>3, <2>1, <1>f DEF RestoreBlob
  <2> QED BY <2>2, <2>3
<1> QED BY <1>3, <1>4, <1>5, <1>6, <1>7

(* A command that was killed claims nothing. *)
LEMMA KilledInv ==
    ASSUME OperatorInv, Kill \/ Notice
    PROVE  OperatorInv'
<1>1. /\ command'.step = "done" /\ command'.result \in {"killed", "none"} /\ IsCommand(command')
  <2>1. CASE Kill
    <3>1. command' = [NoOperation EXCEPT !.name = command.name, !.result = "killed"] BY <2>1 DEF Kill
    <3>2. IsCommand(NoOperation) /\ NoOperation.step = "done" BY DEF IsCommand, NoOperation
    <3> QED BY <3>1, <3>2 DEF IsCommand
  <2>2. CASE Notice BY <2>2 DEF Notice, NoOperation, IsCommand
  <2> QED BY <2>1, <2>2
<1>2. UNCHANGED <<source, backup, target, damage>> BY DEF Kill, Notice
<1>3. Creating(backup', command', source'.refs) /\ Restoring(backup', target', command') BY <1>1 DEF Creating, Restoring
<1> QED BY <1>1, <1>2, <1>3 DEF OperatorInv, OperatorTyped, IsDirectory

LEMMA StrikeInv ==
    ASSUME OperatorInv, NEW dir, Strike(dir), IsDirectory(dir)
    PROVE  OperatorInv'
<1>1. damage' \in [files : Nat, since : BOOLEAN, commands : Nat] /\ damage'.since /\ damage'.files # 0
  <2>1. damage' = [damage EXCEPT !.files = damage.files + 1, !.since = TRUE] BY DEF Strike
  <2>2. damage \in [files : Nat, since : BOOLEAN, commands : Nat] /\ damage.files + 1 \in Nat /\ damage.files + 1 # 0
    BY DEF OperatorInv, OperatorTyped
  <2> QED BY <2>1, <2>2
<1>2. UNCHANGED <<source, target, command>> /\ backup' = dir BY DEF Strike
<1>3. OperatorTyped' BY <1>1, <1>2 DEF OperatorInv, OperatorTyped, IsDirectory, IsCommand
<1>4. command.name = "create" => Creating(dir, command, source.refs) BY DEF Strike, Creating
<1> QED BY <1>1, <1>2, <1>3, <1>4 DEF OperatorInv

LEMMA DamageFileInv ==
    ASSUME OperatorInv, DamageFile
    PROVE  OperatorInv'
<1>1. IsDirectory(backup) BY DEF OperatorInv, OperatorTyped
<1>2. \A x : IsDirectory([backup EXCEPT !.blobs = x]) /\ IsDirectory([backup EXCEPT !.config = x])
             /\ IsDirectory([backup EXCEPT !.index = x]) /\ IsDirectory([backup EXCEPT !.metadata = x])
             /\ IsDirectory([backup EXCEPT !.manifest = x])
  BY <1>1 DEF IsDirectory
<1>3. PICK dir : Strike(dir) /\ IsDirectory(dir)
  <2>1. CASE \E d \in DOMAIN backup.blobs : Strike([backup EXCEPT !.blobs[d] = "wrong"])
                                             \/ Strike([backup EXCEPT !.blobs = Restrict(@, DOMAIN @ \ {d})])
    BY <1>2, <2>1
  <2>2. CASE \E s \in {"gone", "wrong"} : Strike([backup EXCEPT !.config.state = s]) BY <1>2, <2>2
  <2>3. CASE \E s \in {"gone", "wrong"} : Strike([backup EXCEPT !.index.state = s]) BY <1>2, <2>3
  <2>4. CASE \E s \in {"gone", "wrong"} : Strike([backup EXCEPT !.metadata.state = s]) BY <1>2, <2>4
  <2>5. CASE \E d \in backup.metadata.refs : Strike([backup EXCEPT !.metadata.refs = @ \ {d}]) BY <1>2, <2>5
  <2>6. CASE Strike([backup EXCEPT !.manifest = NoManifest]) BY <1>2, <2>6
  <2> QED BY <2>1, <2>2, <2>3, <2>4, <2>5, <2>6 DEF DamageFile
<1> QED BY <1>3, StrikeInv

LEMMA OperatorNextInv ==
    ASSUME OperatorInv, [OperatorNext]_operatorVars
    PROVE  OperatorInv'
<1>1. CASE UNCHANGED operatorVars
  BY <1>1 DEF operatorVars, OperatorInv, OperatorTyped, IsDirectory, IsCommand, Creating, Restoring, CheckBackup, Whole, Keeps
<1> QED BY <1>1, StartCommandInv, CreateInv, BackupVerifyInv, RestoreInv, KilledInv, DamageFileInv DEF OperatorNext

(* Whatever commands are run and killed, in any order, and whatever the      *)
(* media lose: a backup that verification accepts is finished and whole, one *)
(* that was just made restores the metadata it copied, a restore leaves a    *)
(* whole directory unless the media failed while it ran, and it replaces     *)
(* nothing before the backup was found good (operator/backup.rs, verify.rs,  *)
(* restore.rs).                                                              *)
THEOREM RestoresAreSound == OperatorSpec => []BackupsRestore
<1>1. OperatorSpec => []OperatorInv BY OperatorInitInv, OperatorNextInv, PTL DEF OperatorSpec
<1>2. OperatorInv => BackupsRestore BY OperatorInvFollows
<1> QED BY <1>1, <1>2, PTL
================================
