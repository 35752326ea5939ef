-------------------------- MODULE RobotsPolicyProofs --------------------------
(***************************************************************************)
(* Proofs about RobotsPolicy and RobotsMatcher for every file, every       *)
(* pattern and every path: the loop of _matches with its one backtracking  *)
(* point finds a match exactly when there is one, and the decision is what *)
(* the file means.                                                         *)
(***************************************************************************)
EXTENDS RobotsPolicy, FiniteSetTheorems, SequenceTheorems, WellFoundedInduction, TLAPS

Token == Octet \cup {Star}

-------------------------------------------------------------------------------
(* The loop of _matches *)

Cuts(pat, path) ==
  {ends \in [Stops(pat) -> 0..Len(path)] :
     Laid(ends, pat, path, Len(pat)) /\ Complete(ends, pat, path)}

\* Where the last star's octets end now.
Base(cur) == IF cur.star = 0 THEN 0 ELSE cur.from - 1

\* The invariant of the loop: up to the cursor the pattern lies on the path, and no cut
\* ends the last star before the octet its tail is tried from.
Scanned(cur, pat, path) ==
  /\ cur \in Cursor
  /\ cur.p \in 1..(Len(pat) + 1) /\ cur.t \in 1..(Len(path) + 1)
  /\ cur.star \in Stops(pat) /\ cur.star < cur.p
  /\ cur.star # 0 => cur.from >= 1
  /\ cur.t = Base(cur) + (cur.p - cur.star)
  /\ \A i \in (cur.star + 1)..(cur.p - 1) :
       pat[i] # Star /\ pat[i] = path[Base(cur) + (i - cur.star)]
  /\ \E ends \in [Stops(pat) -> 0..Len(path)] :
       Laid(ends, pat, path, cur.star) /\ ends[cur.star] = Base(cur)
  /\ \A ends \in Cuts(pat, path) : ends[cur.star] >= Base(cur)

\* Every non-empty set of numbers has a least one.
LEMMA Least ==
  ASSUME NEW T, T \subseteq Nat, T # {}
  PROVE  \E x \in T : \A y \in T : x <= y
<1> DEFINE R == OpToRel(<, Nat)
<1>1. IsWellFoundedOn(R, Nat)
  BY NatLessThanWellFounded
<1>2. \E x \in T : \A y \in T : ~(<<y, x>> \in R)
  <2> HIDE DEF R
  <2> QED  BY <1>1, WFMin
<1>3. \A x, y \in Nat : y < x => <<y, x>> \in R
  BY DEF OpToRel
<1> QED
  <2> HIDE DEF R
  <2>1. PICK x \in T : \A y \in T : ~(<<y, x>> \in R)
    BY <1>2
  <2>2. ASSUME NEW y \in T PROVE x <= y
    <3>1. x \in Nat /\ y \in Nat
      OBVIOUS
    <3>2. ~(y < x)
      BY <2>1, <1>3, <3>1
    <3> QED  BY <3>1, <3>2
  <2> QED  BY <2>2

\* Stops are numbers up to the length of the pattern.
LEMMA StopsType ==
  ASSUME NEW pat \in Seq(Token)
  PROVE  /\ Stops(pat) \subseteq 0..Len(pat) /\ 0 \in Stops(pat)
         /\ \A i \in 1..Len(pat) : i \in Stops(pat) <=> pat[i] = Star
         /\ \A i \in Stops(pat) : i # 0 => i \in 1..Len(pat) /\ pat[i] = Star
BY LenProperties DEF Stops

\* The cursor's stop is the one the cursor's token follows.
LEMMA CursorFollows ==
  ASSUME NEW pat \in Seq(Token), NEW path \in Seq(Octet), NEW cur, Scanned(cur, pat, path)
  PROVE  /\ Follows(pat, cur.star, cur.p)
         /\ \A i \in (cur.star + 1)..cur.p : \A s \in Stops(pat) :
              Follows(pat, s, i) => s = cur.star
<1> DEFINE st == cur.star
<1>1. st \in 0..Len(pat) /\ cur.p \in 1..(Len(pat) + 1) /\ st < cur.p /\ st \in Stops(pat)
  BY StopsType DEF Scanned
<1>2. \A i \in (st + 1)..(cur.p - 1) : pat[i] # Star
  BY DEF Scanned
<1>3. Follows(pat, st, cur.p)
  BY <1>1, <1>2 DEF Follows
<1>4. ASSUME NEW i \in (st + 1)..cur.p, NEW s \in Stops(pat), Follows(pat, s, i)
      PROVE  s = st
  <2>0. s \in Nat /\ i \in Nat /\ s < i
    BY StopsType, <1>1, <1>4 DEF Follows
  <2>1. CASE s < st
    <3>1. st \in (s + 1)..(i - 1)
      BY <2>1, <2>0, <1>1
    <3>2. pat[st] = Star
      BY <1>1, <2>1, <2>0, StopsType
    <3> QED  BY <3>1, <3>2, <1>4 DEF Follows
  <2>2. CASE s > st
    <3>1. s \in (st + 1)..(cur.p - 1)
      BY <2>2, <2>0, <1>1
    <3>2. pat[s] = Star
      BY <2>0, <2>2, <1>1, StopsType
    <3> QED  BY <3>1, <3>2, <1>2
  <2> QED  BY <2>1, <2>2, <2>0, <1>1
<1> QED  BY <1>3, <1>4

\* At the first iteration nothing has been laid.
LEMMA StartScanned ==
  ASSUME NEW pat \in Seq(Token), NEW path \in Seq(Octet)
  PROVE  Scanned(LoopStart, pat, path)
<1>1. Len(pat) \in Nat /\ Len(path) \in Nat
  BY LenProperties
<1>2. 0 \in Stops(pat)
  BY StopsType
<1> DEFINE none == [s \in Stops(pat) |-> 0]
<1>3. none \in [Stops(pat) -> 0..Len(path)] /\ Laid(none, pat, path, 0) /\ none[0] = 0
  BY <1>1, <1>2 DEF Laid
<1>4. \A ends \in Cuts(pat, path) : ends[0] >= 0
  BY DEF Cuts, Laid
<1> HIDE DEF none
<1> QED  BY <1>1, <1>2, <1>3, <1>4 DEF Scanned, LoopStart, CursorAt, Cursor, Base

\* The octet at the cursor refutes every cut that ends the last star here.
LEMMA Refuted ==
  ASSUME NEW pat \in Seq(Token), NEW path \in Seq(Octet), NEW cur, Scanned(cur, pat, path),
         Unfinished(cur, path), ~AtToken(cur, pat, path[cur.t]), ~AtToken(cur, pat, Star),
         NEW ends \in Cuts(pat, path)
  PROVE  ends[cur.star] # Base(cur)
<1>1. /\ Len(pat) \in Nat /\ Len(path) \in Nat
      /\ cur.p \in 1..(Len(pat) + 1) /\ cur.t \in 1..Len(path)
      /\ cur.star \in Stops(pat) /\ cur.star \in Nat /\ cur.star < cur.p /\ Base(cur) \in Int
      /\ cur.t = Base(cur) + (cur.p - cur.star)
  BY LenProperties, StopsType DEF Scanned, Unfinished, Base, Cursor
<1>2. Follows(pat, cur.star, cur.p)
  BY CursorFollows
<1> SUFFICES ASSUME ends[cur.star] = Base(cur)
             PROVE  FALSE
  OBVIOUS
<1>3. CASE cur.p <= Len(pat)
  <2>1. pat[cur.p] # Star /\ pat[cur.p] # path[cur.t]
    BY <1>3 DEF AtToken
  <2>2. path[ends[cur.star] + (cur.p - cur.star)] = pat[cur.p]
    BY <1>1, <1>2, <1>3, <2>1 DEF Cuts, Laid
  <2> QED  BY <2>1, <2>2, <1>1
<1>4. CASE cur.p = Len(pat) + 1
  <2>1. ends[cur.star] + (Len(pat) - cur.star) = Len(path)
    BY <1>1, <1>2, <1>4 DEF Cuts, Complete
  <2> QED  BY <2>1, <1>4, <1>1
<1> QED  BY <1>1, <1>3, <1>4

\* A step over an octet keeps the invariant.
LEMMA OctetScanned ==
  ASSUME NEW pat \in Seq(Token), NEW path \in Seq(Octet), NEW cur, Scanned(cur, pat, path),
         Unfinished(cur, path), AtToken(cur, pat, path[cur.t])
  PROVE  Scanned(CursorAt(cur.p + 1, cur.t + 1, cur.star, cur.from), pat, path)
<1> DEFINE to == CursorAt(cur.p + 1, cur.t + 1, cur.star, cur.from)
<1>1. /\ Len(pat) \in Nat /\ Len(path) \in Nat
      /\ cur \in Cursor
      /\ cur.p \in 1..Len(pat) /\ cur.t \in 1..Len(path)
      /\ cur.star \in Stops(pat) /\ cur.star \in Nat /\ cur.star < cur.p /\ Base(cur) \in Int
      /\ cur.t = Base(cur) + (cur.p - cur.star)
      /\ pat[cur.p] = path[cur.t]
  BY LenProperties, StopsType DEF Scanned, Unfinished, AtToken, Base, Cursor
<1>2. to \in Cursor /\ to.p = cur.p + 1 /\ to.t = cur.t + 1 /\ to.star = cur.star
        /\ to.from = cur.from /\ Base(to) = Base(cur)
  BY <1>1 DEF Cursor, CursorAt, Base
<1>3. pat[cur.p] # Star
  BY <1>1, ElementOfSeq, MatcherAssumption
<1>4. \A i \in (cur.star + 1)..cur.p : pat[i] # Star /\ pat[i] = path[Base(cur) + (i - cur.star)]
  <2> TAKE i \in (cur.star + 1)..cur.p
  <2>1. CASE i = cur.p
    <3>1. Base(cur) + (i - cur.star) = cur.t
      BY <2>1, <1>1
    <3> QED  BY <2>1, <3>1, <1>1, <1>3
  <2>2. CASE i # cur.p
    <3>1. i \in (cur.star + 1)..(cur.p - 1)
      BY <2>2, <1>1
    <3> QED  BY <3>1 DEF Scanned
  <2> QED  BY <2>1, <2>2
<1> HIDE DEF to
<1>5. Scanned(to, pat, path)
  <2>a. cur.star # 0 => cur.from >= 1
    BY DEF Scanned
  <2>b. /\ cur.p \in Int /\ cur.star \in Int /\ Base(cur) \in Int
        /\ cur.t = Base(cur) + (cur.p - cur.star)
    BY <1>1
  <2>c. to.t = Base(to) + (to.p - to.star)
    BY <1>2, <2>b
  <2>d. to.p \in 1..(Len(pat) + 1) /\ to.t \in 1..(Len(path) + 1)
    <3>1. /\ Len(pat) \in Nat /\ Len(path) \in Nat
          /\ cur.p \in 1..Len(pat) /\ cur.t \in 1..Len(path)
      BY <1>1
    <3> QED  BY <1>2, <3>1
  <2>1. /\ to \in Cursor /\ to.star \in Stops(pat) /\ to.star < to.p
        /\ to.star # 0 => to.from >= 1
    <3>1. cur.star \in Stops(pat) /\ cur.star \in Nat /\ cur.star < cur.p /\ cur.p \in Int
      BY <1>1
    <3> QED  BY <1>2, <2>a, <3>1
  <2>2. \A i \in (to.star + 1)..(to.p - 1) :
          pat[i] # Star /\ pat[i] = path[Base(to) + (i - to.star)]
    <3>1. to.p - 1 = cur.p
      BY <1>2, <2>b
    <3> QED  BY <1>2, <1>4, <3>1
  <2>3. \E ends \in [Stops(pat) -> 0..Len(path)] :
          Laid(ends, pat, path, to.star) /\ ends[to.star] = Base(to)
    BY <1>2 DEF Scanned
  <2>4. \A ends \in Cuts(pat, path) : ends[to.star] >= Base(to)
    BY <1>2 DEF Scanned
  <2> QED  BY <2>c, <2>d, <2>1, <2>2, <2>3, <2>4 DEF Scanned
<1> QED  BY <1>5 DEF to

\* A star met keeps the invariant: for now it takes no octet.
LEMMA StarScanned ==
  ASSUME NEW pat \in Seq(Token), NEW path \in Seq(Octet), NEW cur, Scanned(cur, pat, path),
         Unfinished(cur, path), AtToken(cur, pat, Star)
  PROVE  Scanned(CursorAt(cur.p + 1, cur.t, cur.p, cur.t), pat, path)
<1> DEFINE to == CursorAt(cur.p + 1, cur.t, cur.p, cur.t)
<1>1. /\ Len(pat) \in Nat /\ Len(path) \in Nat
      /\ cur.p \in 1..Len(pat) /\ cur.t \in 1..Len(path)
      /\ cur.star \in Stops(pat) /\ cur.star \in Nat /\ cur.star < cur.p /\ Base(cur) \in Int
      /\ cur.t = Base(cur) + (cur.p - cur.star)
      /\ pat[cur.p] = Star /\ cur.p \in Stops(pat)
  BY LenProperties, StopsType DEF Scanned, Unfinished, AtToken, Base, Cursor
<1>2. to \in Cursor /\ to.p = cur.p + 1 /\ to.t = cur.t /\ to.star = cur.p /\ to.from = cur.t
        /\ Base(to) = cur.t - 1
  BY <1>1 DEF Cursor, CursorAt, Base
<1>3. \E ends \in [Stops(pat) -> 0..Len(path)] :
        Laid(ends, pat, path, cur.p) /\ ends[cur.p] = cur.t - 1
  <2>1. PICK ends \in [Stops(pat) -> 0..Len(path)] :
          Laid(ends, pat, path, cur.star) /\ ends[cur.star] = Base(cur)
    BY DEF Scanned
  <2> DEFINE wider == [ends EXCEPT ![cur.p] = cur.t - 1]
  <2>2. wider \in [Stops(pat) -> 0..Len(path)] /\ wider[cur.p] = cur.t - 1
    <3>1. cur.t - 1 \in 0..Len(path) /\ cur.p \in Stops(pat)
      BY <1>1
    <3> QED  BY <2>1, <3>1
  <2>3. \A s \in Stops(pat) : s # cur.p => wider[s] = ends[s]
    BY <2>1, <1>1
  <2>4. wider[0] = 0
    BY <2>1, <2>3, <1>1, StopsType DEF Laid
  <2> HIDE DEF wider
  <2>5. ASSUME NEW i \in 1..cur.p, NEW s \in Stops(pat), Follows(pat, s, i)
        PROVE  IF pat[i] = Star
               THEN wider[s] + (i - 1 - s) <= wider[i]
               ELSE wider[s] + (i - s) <= Len(path) /\ path[wider[s] + (i - s)] = pat[i]
    <3>0. s \in Nat /\ s < i /\ i \in Nat /\ i <= cur.p
      BY <1>1, <2>5, StopsType DEF Follows
    <3>a. s # cur.p /\ wider[s] = ends[s] /\ ends[s] \in Int
      BY <3>0, <2>3, <2>1, <1>1
    <3>1. CASE i <= cur.star
      <4>0. i \in 1..cur.star /\ i \in 1..Len(pat) /\ i # cur.p
        BY <3>1, <3>0, <1>1
      <4>1. IF pat[i] = Star
            THEN ends[s] + (i - 1 - s) <= ends[i]
            ELSE ends[s] + (i - s) <= Len(path) /\ path[ends[s] + (i - s)] = pat[i]
        BY <4>0, <2>1, <2>5 DEF Laid
      <4>2. pat[i] = Star => i \in Stops(pat)
        BY <4>0, StopsType
      <4>3. pat[i] = Star => wider[i] = ends[i]
        BY <4>0, <4>2, <2>3
      <4> QED  BY <4>1, <4>3, <3>a
    <3>2. CASE i > cur.star
      <4>0. i \in (cur.star + 1)..cur.p
        BY <3>2, <3>0, <1>1
      <4>1. s = cur.star
        BY <4>0, <2>5, CursorFollows
      <4>2. wider[s] = Base(cur)
        BY <4>1, <3>a, <2>1
      <4>3. CASE i = cur.p
        <5>1. pat[i] = Star /\ wider[i] = cur.t - 1
          BY <4>3, <1>1, <2>2
        <5>2. wider[s] + (i - 1 - s) = cur.t - 1
          <6>1. wider[s] + (i - 1 - s) = Base(cur) + (cur.p - 1 - cur.star)
            BY <4>1, <4>2, <4>3
          <6>2. /\ Base(cur) \in Int /\ cur.p \in Int /\ cur.star \in Int
                /\ cur.t = Base(cur) + (cur.p - cur.star)
            BY <1>1
          <6> QED  BY <6>1, <6>2
        <5> QED  BY <5>1, <5>2, <1>1
      <4>4. CASE i # cur.p
        <5>1. i \in (cur.star + 1)..(cur.p - 1)
          <6>1. cur.p \in Int /\ cur.star \in Int
            BY <1>1
          <6> QED  BY <4>4, <3>0, <3>2, <6>1
        <5>2. pat[i] # Star /\ pat[i] = path[Base(cur) + (i - cur.star)]
          BY <5>1 DEF Scanned
        <5>3. Base(cur) + (i - cur.star) <= Len(path)
          <6>1. i \in Int /\ i <= cur.p - 1 /\ cur.p \in Int /\ cur.t \in Int /\ cur.t <= Len(path)
            BY <5>1, <1>1
          <6>2. Base(cur) \in Int /\ cur.star \in Int /\ cur.t = Base(cur) + (cur.p - cur.star)
            BY <1>1
          <6> QED  BY <6>1, <6>2, SMTT(20)
        <5> QED  BY <5>2, <5>3, <4>1, <4>2
      <4> QED  BY <4>3, <4>4
    <3> QED  BY <3>1, <3>2, <3>0, <1>1
  <2>6. Laid(wider, pat, path, cur.p)
    BY <2>4, <2>5 DEF Laid
  <2> QED  BY <2>2, <2>6
<1>4. ASSUME NEW ends \in Cuts(pat, path) PROVE ends[cur.p] >= cur.t - 1
  <2>1. ends[cur.star] >= Base(cur) /\ ends[cur.star] \in Int /\ ends[cur.p] \in Int
    BY <1>1 DEF Scanned, Cuts
  <2>2. ends[cur.star] + (cur.p - 1 - cur.star) <= ends[cur.p]
    BY <1>1, CursorFollows DEF Cuts, Laid
  <2>3. /\ cur.p \in Int /\ cur.star \in Int /\ cur.t \in Int /\ Base(cur) \in Int
        /\ cur.t = Base(cur) + (cur.p - cur.star)
    BY <1>1
  <2> QED  BY <2>1, <2>2, <2>3, SMTT(20)
<1> HIDE DEF to
<1>5. Scanned(to, pat, path)
  <2>c. to.t = Base(to) + (to.p - to.star)
    <3>1. cur.p \in Int /\ cur.t \in Int
      BY <1>1
    <3> QED  BY <1>2, <3>1
  <2>1. /\ to \in Cursor /\ to.p \in 1..(Len(pat) + 1) /\ to.t \in 1..(Len(path) + 1)
        /\ to.star \in Stops(pat) /\ to.star < to.p /\ (to.star # 0 => to.from >= 1)
    <3>1. to.p \in 1..(Len(pat) + 1) /\ to.t \in 1..(Len(path) + 1)
      <4>1. /\ Len(pat) \in Nat /\ Len(path) \in Nat
            /\ cur.p \in 1..Len(pat) /\ cur.t \in 1..Len(path)
        BY <1>1
      <4> QED  BY <1>2, <4>1
    <3>2. to.star \in Stops(pat) /\ to.star < to.p /\ (to.star # 0 => to.from >= 1)
      BY <1>1, <1>2
    <3> QED  BY <1>2, <3>1, <3>2
  <2>2. \A i \in (to.star + 1)..(to.p - 1) :
          pat[i] # Star /\ pat[i] = path[Base(to) + (i - to.star)]
    BY <1>1, <1>2
  <2>3. \E ends \in [Stops(pat) -> 0..Len(path)] :
          Laid(ends, pat, path, to.star) /\ ends[to.star] = Base(to)
    BY <1>2, <1>3
  <2>4. \A ends \in Cuts(pat, path) : ends[to.star] >= Base(to)
    BY <1>2, <1>4
  <2> QED  BY <2>c, <2>1, <2>2, <2>3, <2>4 DEF Scanned
<1> QED  BY <1>5 DEF to

\* Backtracking keeps the invariant: no cut ends the star where it was.
LEMMA BacktrackScanned ==
  ASSUME NEW pat \in Seq(Token), NEW path \in Seq(Octet), NEW cur, Scanned(cur, pat, path),
         Unfinished(cur, path), ~AtToken(cur, pat, path[cur.t]), ~AtToken(cur, pat, Star),
         cur.star # 0
  PROVE  Scanned(Backtrack(cur), pat, path)
<1> DEFINE to == Backtrack(cur)
<1>1. /\ Len(pat) \in Nat /\ Len(path) \in Nat
      /\ cur.p \in 1..(Len(pat) + 1) /\ cur.t \in 1..Len(path) /\ cur.from \in Nat
      /\ cur.from >= 1 /\ cur.from <= cur.t
      /\ cur.star \in Stops(pat) /\ cur.star \in 1..Len(pat) /\ cur.star < cur.p
      /\ Base(cur) = cur.from - 1
  BY LenProperties, StopsType DEF Scanned, Unfinished, Base, Cursor
<1>2. to \in Cursor /\ to.p = cur.star + 1 /\ to.t = cur.from + 1 /\ to.star = cur.star
        /\ to.from = cur.from + 1 /\ Base(to) = cur.from
  BY <1>1 DEF Cursor, CursorAt, Backtrack, Base
<1>3. \E ends \in [Stops(pat) -> 0..Len(path)] :
        Laid(ends, pat, path, cur.star) /\ ends[cur.star] = cur.from
  <2>1. PICK ends \in [Stops(pat) -> 0..Len(path)] :
          Laid(ends, pat, path, cur.star) /\ ends[cur.star] = Base(cur)
    BY DEF Scanned
  <2> DEFINE wider == [ends EXCEPT ![cur.star] = cur.from]
  <2>2. wider \in [Stops(pat) -> 0..Len(path)] /\ wider[cur.star] = cur.from
    BY <2>1, <1>1
  <2>3. \A s \in Stops(pat) : s # cur.star => wider[s] = ends[s]
    BY <2>1, <1>1
  <2>4. wider[0] = 0
    BY <2>1, <2>3, <1>1, StopsType DEF Laid
  <2> HIDE DEF wider
  <2>5. ASSUME NEW i \in 1..cur.star, NEW s \in Stops(pat), Follows(pat, s, i)
        PROVE  IF pat[i] = Star
               THEN wider[s] + (i - 1 - s) <= wider[i]
               ELSE wider[s] + (i - s) <= Len(path) /\ path[wider[s] + (i - s)] = pat[i]
    <3>0. s \in Nat /\ s < i /\ i \in Nat /\ i <= cur.star
      BY <1>1, <2>5, StopsType DEF Follows
    <3>1. wider[s] = ends[s] /\ ends[s] \in Int
      BY <3>0, <2>3, <2>1, <1>1
    <3>2. IF pat[i] = Star
          THEN ends[s] + (i - 1 - s) <= ends[i]
          ELSE ends[s] + (i - s) <= Len(path) /\ path[ends[s] + (i - s)] = pat[i]
      BY <2>1, <2>5 DEF Laid
    <3>3. pat[i] = Star => ends[i] \in Int /\ ends[i] <= wider[i] /\ wider[i] \in Int
      <4>1. CASE i = cur.star
        BY <4>1, <2>1, <2>2, <1>1
      <4>2. CASE i # cur.star
        BY <4>2, <3>0, <2>1, <2>3, <1>1, StopsType, SMTT(20)
      <4> QED  BY <4>1, <4>2
    <3> QED  BY <3>0, <3>1, <3>2, <3>3
  <2>6. Laid(wider, pat, path, cur.star)
    BY <2>4, <2>5 DEF Laid
  <2> QED  BY <2>2, <2>6
<1>4. ASSUME NEW ends \in Cuts(pat, path) PROVE ends[cur.star] >= cur.from
  <2>a. ends[cur.star] >= Base(cur)
    BY DEF Scanned
  <2>1. ends[cur.star] >= Base(cur) /\ ends[cur.star] \in Int
    BY <2>a, <1>1 DEF Cuts
  <2>2. ends[cur.star] # Base(cur)
    BY Refuted
  <2> QED  BY <2>1, <2>2, <1>1
<1> HIDE DEF to
<1>5. Scanned(to, pat, path)
  <2>1. /\ to \in Cursor /\ to.p \in 1..(Len(pat) + 1) /\ to.t \in 1..(Len(path) + 1)
        /\ to.star \in Stops(pat) /\ to.star < to.p /\ (to.star # 0 => to.from >= 1)
        /\ to.t = Base(to) + (to.p - to.star)
    <3>1. to.p \in 1..(Len(pat) + 1) /\ to.t \in 1..(Len(path) + 1)
      BY <1>1, <1>2, SMTT(20)
    <3>2. to.star \in Stops(pat) /\ to.star < to.p /\ to.t = Base(to) + (to.p - to.star)
      BY <1>1, <1>2
    <3>3. to.star # 0 => to.from >= 1
      BY <1>1, <1>2
    <3> QED  BY <1>2, <3>1, <3>2, <3>3
  <2>2. \A i \in (to.star + 1)..(to.p - 1) :
          pat[i] # Star /\ pat[i] = path[Base(to) + (i - to.star)]
    <3>1. (to.star + 1)..(to.p - 1) = {}
      BY <1>1, <1>2
    <3> QED  BY <3>1
  <2>3. \E ends \in [Stops(pat) -> 0..Len(path)] :
          Laid(ends, pat, path, to.star) /\ ends[to.star] = Base(to)
    BY <1>2, <1>3
  <2>4. \A ends \in Cuts(pat, path) : ends[to.star] >= Base(to)
    BY <1>2, <1>4
  <2> QED  BY <2>1, <2>2, <2>3, <2>4 DEF Scanned
<1> QED  BY <1>5 DEF to

\* One iteration keeps the invariant.
LEMMA IterateScanned ==
  ASSUME NEW pat \in Seq(Token), NEW path \in Seq(Octet), NEW cur, Scanned(cur, pat, path),
         Unfinished(cur, path), ~Stuck(cur, pat, path)
  PROVE  Scanned(Iterate(cur, pat, path), pat, path)
<1>1. CASE AtToken(cur, pat, path[cur.t])
  BY <1>1, OctetScanned DEF Iterate
<1>2. CASE ~AtToken(cur, pat, path[cur.t]) /\ AtToken(cur, pat, Star)
  BY <1>2, StarScanned DEF Iterate
<1>3. CASE ~AtToken(cur, pat, path[cur.t]) /\ ~AtToken(cur, pat, Star)
  BY <1>3, BacktrackScanned DEF Iterate, Stuck
<1> QED  BY <1>1, <1>2, <1>3

\* Without a star to widen there is no cut.
LEMMA StuckFails ==
  ASSUME NEW pat \in Seq(Token), NEW path \in Seq(Octet), NEW cur, Scanned(cur, pat, path),
         Unfinished(cur, path), Stuck(cur, pat, path)
  PROVE  Cuts(pat, path) = {}
<1> SUFFICES ASSUME NEW ends \in Cuts(pat, path)
             PROVE  FALSE
  OBVIOUS
<1>1. ends[cur.star] # Base(cur)
  BY Refuted DEF Stuck
<1> QED  BY <1>1 DEF Cuts, Laid, Stuck, Base

\* At the end of the path there is a cut exactly when only stars are left.
LEMMA EndDecides ==
  ASSUME NEW pat \in Seq(Token), NEW path \in Seq(Octet), NEW cur, Scanned(cur, pat, path),
         ~Unfinished(cur, path)
  PROVE  RestMatches(cur, pat) <=> Cuts(pat, path) # {}
<1> DEFINE n == Len(pat)
           m == Len(path)
<1>1. /\ n \in Nat /\ m \in Nat
      /\ cur.p \in 1..(n + 1) /\ cur.t = m + 1
      /\ cur.star \in Stops(pat) /\ cur.star \in Nat /\ cur.star < cur.p /\ Base(cur) \in Int
      /\ m = Base(cur) + (cur.p - 1 - cur.star)
  <2>1. n \in Nat /\ m \in Nat
    BY LenProperties
  <2>2. /\ cur \in Cursor /\ cur.p \in 1..(n + 1) /\ cur.t \in 1..(m + 1)
        /\ cur.star \in Stops(pat) /\ cur.star < cur.p
        /\ cur.t = Base(cur) + (cur.p - cur.star)
    BY DEF Scanned
  <2>3. cur.t = m + 1
    BY <2>1, <2>2 DEF Unfinished
  <2>4. cur.star \in Nat /\ Base(cur) \in Int
    BY <2>2 DEF Base, Cursor
  <2>5. m = Base(cur) + (cur.p - 1 - cur.star)
    <3>1. /\ m \in Int /\ cur.p \in Int /\ cur.star \in Int /\ Base(cur) \in Int
          /\ m + 1 = Base(cur) + (cur.p - cur.star)
      BY <2>1, <2>2, <2>3, <2>4
    <3> QED  BY <3>1
  <2> QED  BY <2>1, <2>2, <2>3, <2>4, <2>5
<1>2. ASSUME RestMatches(cur, pat) PROVE Cuts(pat, path) # {}
  <2>1. PICK ends \in [Stops(pat) -> 0..m] :
          Laid(ends, pat, path, cur.star) /\ ends[cur.star] = Base(cur)
    BY DEF Scanned
  <2> DEFINE full == [s \in Stops(pat) |-> IF s < cur.p THEN ends[s] ELSE m]
  <2>2. full \in [Stops(pat) -> 0..m]
    BY <2>1, <1>1
  <2>3. \A s \in Stops(pat) : full[s] = IF s < cur.p THEN ends[s] ELSE m
    OBVIOUS
  <2>4. full[0] = 0
    BY <2>1, <2>3, <1>1, StopsType DEF Laid
  <2>5. full[cur.star] = Base(cur)
    BY <2>1, <2>3, <1>1
  <2> HIDE DEF full
  <2>6. ASSUME NEW i \in cur.p..(n + 1), NEW s \in Stops(pat), Follows(pat, s, i)
        PROVE  full[s] + (i - 1 - s) = m
    <3>0. s \in Nat /\ s < i /\ i \in Nat
      BY <1>1, <2>6, StopsType DEF Follows
    <3>1. CASE i = cur.p
      <4>1. s = cur.star
        <5>1. cur.p \in (cur.star + 1)..cur.p
          BY <1>1
        <5> QED  BY <3>1, <5>1, <2>6, CursorFollows
      <4>2. m = Base(cur) + (cur.p - 1 - cur.star)
        BY <1>1
      <4> QED  BY <4>1, <4>2, <3>1, <2>5
    <3>2. CASE i # cur.p
      <4>1. i - 1 \in cur.p..n
        BY <3>2, <1>1, SMTT(20)
      <4>2. pat[i - 1] = Star
        BY <4>1, <1>2 DEF RestMatches
      <4>3. s = i - 1
        BY <4>1, <4>2, <3>0, <2>6, <1>1, SMTT(20) DEF Follows
      <4> QED  BY <4>1, <4>3, <2>3, <3>0, <1>1
    <3> QED  BY <3>1, <3>2
  <2>7. ASSUME NEW i \in 1..n, NEW s \in Stops(pat), Follows(pat, s, i)
        PROVE  IF pat[i] = Star
               THEN full[s] + (i - 1 - s) <= full[i]
               ELSE full[s] + (i - s) <= m /\ path[full[s] + (i - s)] = pat[i]
    <3>0. s \in Nat /\ s < i /\ i \in Nat
      BY <1>1, <2>7, StopsType DEF Follows
    <3>1. CASE i >= cur.p
      <4>0. i \in cur.p..n /\ i \in cur.p..(n + 1) /\ ~(i < cur.p)
        BY <3>1, <1>1
      <4>1. pat[i] = Star
        BY <4>0, <1>2 DEF RestMatches
      <4>2. full[i] = m
        BY <4>0, <4>1, <2>3, StopsType
      <4>3. full[s] + (i - 1 - s) = m
        BY <4>0, <2>6, <2>7
      <4> QED  BY <4>1, <4>2, <4>3, <1>1
    <3>2. CASE cur.star < i /\ i < cur.p
      <4>a. /\ cur.p \in Int /\ cur.star \in Int /\ Base(cur) \in Int
            /\ m = Base(cur) + (cur.p - 1 - cur.star)
        BY <1>1
      <4>0. i \in (cur.star + 1)..cur.p /\ i \in (cur.star + 1)..(cur.p - 1)
        BY <3>2, <3>0, <4>a
      <4>1. s = cur.star
        BY <4>0, <2>7, CursorFollows
      <4>2. pat[i] # Star /\ pat[i] = path[Base(cur) + (i - cur.star)]
        BY <4>0 DEF Scanned
      <4>3. Base(cur) + (i - cur.star) <= m
        BY <4>0, <4>a, SMTT(20)
      <4> QED  BY <4>1, <4>2, <4>3, <2>5
    <3>3. CASE i <= cur.star
      <4>0. i \in 1..cur.star /\ s < cur.p /\ i < cur.p
        BY <3>3, <3>0, <1>1, SMTT(20)
      <4>1. full[s] = ends[s]
        BY <4>0, <2>3
      <4>2. pat[i] = Star => i \in Stops(pat)
        BY StopsType
      <4>3. pat[i] = Star => full[i] = ends[i]
        BY <4>0, <4>2, <2>3
      <4>4. IF pat[i] = Star
            THEN ends[s] + (i - 1 - s) <= ends[i]
            ELSE ends[s] + (i - s) <= m /\ path[ends[s] + (i - s)] = pat[i]
        BY <4>0, <2>1, <2>7 DEF Laid
      <4> QED  BY <4>1, <4>3, <4>4
    <3> QED  BY <3>0, <3>1, <3>2, <3>3, <1>1, SMTT(20)
  <2>8. Laid(full, pat, path, n)
    BY <2>4, <2>7 DEF Laid
  <2>9. Complete(full, pat, path)
    <3>1. ASSUME NEW s \in Stops(pat), Follows(pat, s, n + 1)
          PROVE  full[s] + (n - s) = m
      <4>1. n + 1 \in cur.p..(n + 1) /\ s \in Int /\ full[s] \in Int
        BY <1>1, <2>2, StopsType
      <4>2. full[s] + ((n + 1) - 1 - s) = m
        BY <4>1, <3>1, <2>6
      <4> QED  BY <4>1, <4>2, <1>1
    <3> QED  BY <3>1 DEF Complete
  <2> QED  BY <2>2, <2>8, <2>9 DEF Cuts
<1>3. ASSUME NEW ends \in Cuts(pat, path), ~RestMatches(cur, pat) PROVE FALSE
  <2> DEFINE T == {k \in cur.p..n : pat[k] # Star \/ ends[k] < m}
  <2>1. T \subseteq Nat /\ T # {}
    BY <1>1, <1>3 DEF RestMatches
  <2>2. PICK k \in T : \A j \in T : k <= j
    BY <2>1, Least
  <2>3. k \in cur.p..n /\ k \in 1..n /\ (pat[k] # Star \/ ends[k] < m)
    BY <1>1
  <2>4. \A j \in cur.p..(k - 1) : pat[j] = Star /\ ~(ends[j] < m)
    BY <2>2, <2>3, <1>1
  <2> HIDE DEF T
  <2>5. PICK s \in Stops(pat) : /\ Follows(pat, s, k) /\ ends[s] \in Int /\ s \in Int
                                /\ ends[s] + (k - 1 - s) >= m
    <3>1. CASE k = cur.p
      <4>1. Follows(pat, cur.star, k)
        BY <3>1, CursorFollows
      <4>2. ends[cur.star] >= Base(cur) /\ ends[cur.star] \in Int
        BY <1>1 DEF Scanned, Cuts
      <4> QED  BY <4>1, <4>2, <3>1, <1>1
    <3>2. CASE k # cur.p
      <4>1. k - 1 \in cur.p..(k - 1) /\ k - 1 \in 1..n
        BY <3>2, <2>3, <1>1
      <4>2. pat[k - 1] = Star /\ ~(ends[k - 1] < m)
        BY <4>1, <2>4
      <4>3. k - 1 \in Stops(pat)
        BY <4>1, <4>2, StopsType
      <4>4. Follows(pat, k - 1, k)
        BY <4>1, <2>3, <1>1 DEF Follows
      <4>5. ends[k - 1] \in Int
        BY <4>3, <1>1 DEF Cuts
      <4> QED  BY <4>1, <4>2, <4>3, <4>4, <4>5, <1>1
    <3> QED  BY <3>1, <3>2
  <2>a. Laid(ends, pat, path, n) /\ ends \in [Stops(pat) -> 0..m] /\ m \in Int /\ k \in Int
    BY <2>3, <1>1 DEF Cuts
  <2>6. CASE pat[k] = Star
    <3>1. ends[s] + (k - 1 - s) <= ends[k]
      BY <2>a, <2>3, <2>5, <2>6 DEF Laid
    <3>2. k \in Stops(pat)
      BY <2>3, <2>6, StopsType
    <3>3. ends[k] \in Int /\ ends[k] < m
      BY <3>2, <2>a, <2>3, <2>6
    <3>4. ends[s] \in Int /\ s \in Int /\ ends[s] + (k - 1 - s) >= m
      BY <2>5
    <3> QED  BY <3>1, <3>3, <3>4, <2>a
  <2>7. CASE pat[k] # Star
    <3>1. ends[s] + (k - s) <= m
      BY <2>a, <2>3, <2>5, <2>7 DEF Laid
    <3>2. ends[s] \in Int /\ s \in Int /\ ends[s] + (k - 1 - s) >= m
      BY <2>5
    <3> QED  BY <3>1, <3>2, <2>a
  <2> QED  BY <2>6, <2>7
<1> QED  BY <1>2, <1>3

-------------------------------------------------------------------------------
(* The inductive invariant of the policy *)

Agents == {OWN, ANY, "other", "invalid"}

GroupType == [agents : SUBSET Agents, rules : Seq(Rule)]

TypeOK ==
  /\ file \in File /\ file \in Seq(FileLine)
  /\ target \in Seq(Octet)
  /\ line \in 0..Len(file)
  /\ groups \in Seq(GroupType)
  /\ tried \subseteq Rule /\ winner \subseteq Rule

\* User-agent line j is among those of the group that line n is in.
Open(f, j, n) ==
  /\ IsAgent(f, j)
  /\ ~\E r, u \in j..n : r < u /\ IsRule(f, r) /\ IsAgent(f, u)

Offers(gs, a, r) ==
  \E g \in For(gs, a) : \E k \in DOMAIN gs[g].rules : gs[g].rules[k] = r

\* The first n lines have rule r for agent a.
Reads(f, n, a, r) ==
  \E j \in 1..n, i \in 1..n : Governs(f, j, i) /\ f[j].agent = a /\ f[i].rule = r

\* The last of the groups gs is the one that the first n lines leave open.
LastOpen(f, n, gs) ==
  LET g == gs[Len(gs)] IN
  /\ \E j \in 1..n : Open(f, j, n)
  /\ \A a \in Agents : a \in g.agents <=> \E j \in 1..n : Open(f, j, n) /\ f[j].agent = a
  /\ g.rules # << >> <=> \E j \in 1..n, i \in 1..n : Open(f, j, n) /\ j < i /\ IsRule(f, i)

\* The groups hold what the first n lines say.
Parsed(f, n, gs) ==
  /\ gs = << >> => \A j \in 1..n : ~IsAgent(f, j)
  /\ gs # << >> => LastOpen(f, n, gs)
  /\ \A a \in Agents :
       For(gs, a) # {} <=> \E j \in 1..n : IsAgent(f, j) /\ f[j].agent = a
  /\ \A a \in Agents, r \in Rule :
       Offers(gs, a, r) <=> Reads(f, n, a, r)

\* What has been tried is among the rules meant, and the loop of _matches is under way
\* on another one.
Trying ==
  /\ pc = "parse" => tried = {}
  /\ pc \in {"try", "match"} =>
       /\ BeforeQuery(target) # RobotsPath
       /\ line = Len(file)
       /\ tried \subseteq Meant(file)
       /\ pc = "match" =>
            \E r \in Meant(file) : trying = {r} /\ Scanned(at, Pattern(r), target)

\* w is the best of the rules in S that match path t.
Best(w, S, t) ==
  /\ w \in S /\ MatchesPath(w, t)
  /\ \A r \in S :
       MatchesPath(r, t) => /\ specificity(r) <= specificity(w)
                            /\ specificity(r) = specificity(w) /\ r.allowed => w.allowed

Ranked ==
  \/ winner = {} /\ \A r \in tried : ~MatchesPath(r, target)
  \/ \E w \in tried : winner = {w} /\ Best(w, tried, target)

Inv ==
  /\ TypeOK
  /\ Parsed(file, line, groups)
  /\ Trying
  /\ Ranked
  /\ MatchesTrue
  /\ DecisionTrue

-------------------------------------------------------------------------------
(* Facts about rules and lines *)

\* The pattern of a rule is a sequence of tokens.
LEMMA PatternType ==
  ASSUME NEW r \in Rule
  PROVE  Pattern(r) \in Seq(Token)
<1>1. r.tokens \in Seq(Token) /\ Star \in Token
  BY DEF Rule, Token
<1> QED  BY <1>1, AppendProperties DEF Pattern

\* A specificity is a number.
LEMMA SpecificityType ==
  ASSUME NEW r \in Rule
  PROVE  specificity(r) \in Nat
<1>1. r.tokens \in Seq(Token) /\ Len(r.tokens) \in Nat
  BY LenProperties DEF Rule, Token
<1>2. {i \in DOMAIN r.tokens : r.tokens[i] # Star} \subseteq 1..Len(r.tokens)
  BY <1>1, LenProperties
<1>3. IsFiniteSet(1..Len(r.tokens))
  BY <1>1, FS_Interval
<1>4. IsFiniteSet({i \in DOMAIN r.tokens : r.tokens[i] # Star})
  BY <1>2, <1>3, FS_Subset
<1> QED  BY <1>4, FS_CardinalityType DEF specificity

\* A path matches when there is a cut.
LEMMA MatchIsCut ==
  ASSUME NEW r, NEW path
  PROVE  MatchesPath(r, path) <=> Cuts(Pattern(r), path) # {}
BY DEF MatchesPath, Cuts

\* A line is a User-agent line, a rule or neither.
LEMMA LineKinds ==
  ASSUME NEW f \in Seq(FileLine), NEW i \in 1..Len(f)
  PROVE  /\ f[i] \in FileLine
         /\ IsAgent(f, i) => ~IsRule(f, i) /\ f[i].agent \in Agents
         /\ IsRule(f, i) => f[i].rule \in Rule
<1>1. f[i] \in FileLine
  BY ElementOfSeq
<1>2. CASE f[i] \in AgentLine
  BY <1>1, <1>2 DEF AgentLine, IsAgent, IsRule, Agents
<1>3. CASE f[i] \in RuleLine
  BY <1>1, <1>3 DEF RuleLine, IsAgent, IsRule
<1>4. CASE f[i] \in NoLine
  BY <1>1, <1>4 DEF NoLine, IsAgent, IsRule
<1> QED  BY <1>1, <1>2, <1>3, <1>4 DEF FileLine

-------------------------------------------------------------------------------
(* _parse_groups *)

\* A line that is no User-agent line leaves open what was open.
LEMMA OpenKept ==
  ASSUME NEW f \in Seq(FileLine), NEW n \in Nat, n < Len(f), ~IsAgent(f, n + 1),
         NEW j \in 1..n
  PROVE  Open(f, j, n + 1) <=> Open(f, j, n)
<1>1. \A u \in j..(n + 1) : IsAgent(f, u) => u \in j..n
  OBVIOUS
<1>2. ASSUME NEW r \in j..(n + 1), NEW u \in j..(n + 1), r < u, IsRule(f, r), IsAgent(f, u)
      PROVE  r \in j..n /\ u \in j..n
  BY <1>1, <1>2
<1>3. j..n \subseteq j..(n + 1)
  OBVIOUS
<1> QED  BY <1>2, <1>3 DEF Open

\* A User-agent line joins what is open when no rule stands between.
LEMMA OpenJoined ==
  ASSUME NEW f \in Seq(FileLine), NEW n \in Nat, n < Len(f), IsAgent(f, n + 1),
         \A j \in 1..n, i \in 1..n : Open(f, j, n) => ~(j < i /\ IsRule(f, i)),
         NEW j \in 1..(n + 1)
  PROVE  Open(f, j, n + 1) <=> j = n + 1 \/ (j \in 1..n /\ Open(f, j, n))
<1>1. CASE j = n + 1
  BY <1>1 DEF Open
<1>2. CASE j \in 1..n
  <2>1. ASSUME Open(f, j, n + 1) PROVE Open(f, j, n)
    <3>1. j..n \subseteq j..(n + 1)
      BY <1>2
    <3> QED  BY <2>1, <3>1 DEF Open
  <2>2. ASSUME Open(f, j, n), NEW r \in j..(n + 1), NEW u \in j..(n + 1), r < u,
               IsRule(f, r), IsAgent(f, u)
        PROVE  FALSE
    <3>1. r \in 1..n /\ r \in j..n
      BY <1>2, <2>2
    <3>2. r # j
      BY <1>2, <2>2, LineKinds DEF Open
    <3>3. j < r
      BY <3>1, <3>2, <1>2
    <3> QED  BY <1>2, <2>2, <3>1, <3>3
  <2>3. Open(f, j, n) => Open(f, j, n + 1)
    BY <2>2 DEF Open
  <2> QED  BY <1>2, <2>1, <2>3
<1> QED  BY <1>1, <1>2

\* A User-agent line after a rule of the open group opens another one.
LEMMA OpenAnew ==
  ASSUME NEW f \in Seq(FileLine), NEW n \in Nat, n < Len(f), IsAgent(f, n + 1),
         \/ \A j \in 1..n : ~IsAgent(f, j)
         \/ \E j \in 1..n, i \in 1..n : Open(f, j, n) /\ j < i /\ IsRule(f, i),
         NEW j \in 1..(n + 1)
  PROVE  Open(f, j, n + 1) <=> j = n + 1
<1>1. CASE j = n + 1
  BY <1>1 DEF Open
<1>2. CASE j \in 1..n /\ \A k \in 1..n : ~IsAgent(f, k)
  BY <1>2 DEF Open
<1>3. CASE j \in 1..n /\ ~\A k \in 1..n : ~IsAgent(f, k)
  <2>1. PICK o \in 1..n, i \in 1..n : Open(f, o, n) /\ o < i /\ IsRule(f, i)
    BY <1>3
  <2>2. SUFFICES ASSUME Open(f, j, n + 1)
                 PROVE  FALSE
    BY <1>3
  <2>3. i # j
    BY <1>3, <2>1, <2>2, LineKinds DEF Open
  <2>4. CASE j < i
    <3>1. i \in j..(n + 1) /\ n + 1 \in j..(n + 1) /\ i < n + 1
      BY <2>4, <1>3, <2>1
    <3> QED  BY <2>1, <2>2, <3>1 DEF Open
  <2>5. CASE i < j
    <3>1. i \in o..n /\ j \in o..n
      BY <2>5, <1>3, <2>1
    <3> QED  BY <2>1, <2>2, <2>5, <3>1 DEF Open
  <2> QED  BY <2>3, <2>4, <2>5, <1>3
<1> QED  BY <1>1, <1>2, <1>3

\* The line that is read is governed by what is open before it.
LEMMA GovernsOpen ==
  ASSUME NEW f \in Seq(FileLine), NEW n \in Nat, n < Len(f), NEW j \in 1..n
  PROVE  Governs(f, j, n + 1) <=> Open(f, j, n) /\ IsRule(f, n + 1)
<1>1. IsRule(f, n + 1) => ~IsAgent(f, n + 1)
  BY LineKinds
<1>2. IsRule(f, n + 1) => (Open(f, j, n + 1) <=> Open(f, j, n))
  BY <1>1, OpenKept
<1>3. Governs(f, j, n + 1) <=> Open(f, j, n + 1) /\ IsRule(f, n + 1)
  BY DEF Governs, Open
<1> QED  BY <1>2, <1>3

\* Which pairs of lines govern changes with one more line by that line's pairs only.
LEMMA GovernsNext ==
  ASSUME NEW f \in Seq(FileLine), NEW n \in Nat, n < Len(f), NEW a \in Agents, NEW r
  PROVE  Reads(f, n + 1, a, r)
         <=> \/ Reads(f, n, a, r)
             \/ /\ IsRule(f, n + 1) /\ f[n + 1].rule = r
                /\ \E j \in 1..n : Open(f, j, n) /\ f[j].agent = a
<1>1. 1..n \subseteq 1..(n + 1) /\ n + 1 \in 1..(n + 1)
  OBVIOUS
<1>2. \A j \in 1..(n + 1), i \in 1..(n + 1) : Governs(f, j, i) => j \in 1..n
  BY DEF Governs
<1>3. \A i \in 1..(n + 1) : i \in 1..n \/ i = n + 1
  OBVIOUS
<1>4. \A j \in 1..n : Governs(f, j, n + 1) <=> Open(f, j, n) /\ IsRule(f, n + 1)
  BY GovernsOpen
<1> QED  BY <1>1, <1>2, <1>3, <1>4 DEF Reads

\* A group of its own for a User-agent line.
LEMMA GroupAdded ==
  ASSUME NEW gs \in Seq(GroupType), NEW a \in Agents, NEW gs2,
         gs2 = Append(gs, [agents |-> {a}, rules |-> << >>])
  PROVE  /\ gs2 \in Seq(GroupType) /\ gs2 # << >>
         /\ gs2[Len(gs2)].agents = {a} /\ gs2[Len(gs2)].rules = << >>
         /\ \A b \in Agents : For(gs2, b) # {} <=> For(gs, b) # {} \/ b = a
         /\ \A b \in Agents, r \in Rule : Offers(gs2, b, r) <=> Offers(gs, b, r)
<1> DEFINE new == [agents |-> {a}, rules |-> << >>]
           L   == Len(gs)
<1>1. new \in GroupType /\ new.agents = {a} /\ new.rules = << >>
  BY EmptySeq DEF GroupType
<1> HIDE DEF new
<1>2. /\ gs2 \in Seq(GroupType) /\ L \in Nat /\ Len(gs2) = L + 1
      /\ DOMAIN gs = 1..L /\ DOMAIN gs2 = 1..(L + 1)
      /\ \A g \in 1..L : gs2[g] = gs[g]
      /\ gs2[L + 1] = new
  BY <1>1, AppendProperties, LenProperties DEF new
<1>3. gs2 # << >>
  BY <1>2, EmptySeq
<1>4. \A b \in Agents, g \in 1..(L + 1) :
        g \in For(gs2, b) <=> g \in For(gs, b) \/ (g = L + 1 /\ b = a)
  BY <1>1, <1>2 DEF For
<1>5. \A b \in Agents : For(gs, b) \subseteq 1..L /\ For(gs2, b) \subseteq 1..(L + 1)
  BY <1>2 DEF For
<1>a. 1..L \subseteq 1..(L + 1) /\ L + 1 \in 1..(L + 1)
  BY <1>2
<1>b. \A b \in Agents : For(gs, b) \subseteq For(gs2, b)
  BY <1>4, <1>5, <1>a
<1>6. \A b \in Agents : For(gs2, b) # {} <=> For(gs, b) # {} \/ b = a
  BY <1>4, <1>5, <1>a, <1>b
<1>7. ASSUME NEW b \in Agents, NEW r \in Rule
      PROVE  Offers(gs2, b, r) <=> Offers(gs, b, r)
  <2>1. DOMAIN gs2[L + 1].rules = {}
    BY <1>1, <1>2
  <2>2. ASSUME NEW g \in For(gs2, b), NEW k \in DOMAIN gs2[g].rules, gs2[g].rules[k] = r
        PROVE  Offers(gs, b, r)
    <3>1. g # L + 1
      BY <2>1, <2>2
    <3>2. g \in For(gs, b) /\ gs2[g] = gs[g]
      BY <3>1, <1>2, <1>4, <1>5
    <3> QED  BY <2>2, <3>2 DEF Offers
  <2>3. ASSUME NEW g \in For(gs, b), NEW k \in DOMAIN gs[g].rules, gs[g].rules[k] = r
        PROVE  Offers(gs2, b, r)
    <3>1. g \in For(gs2, b) /\ gs2[g] = gs[g]
      BY <1>2, <1>5, <1>b
    <3> QED  BY <2>3, <3>1 DEF Offers
  <2> QED  BY <2>2, <2>3 DEF Offers
<1> QED  BY <1>1, <1>2, <1>3, <1>6, <1>7

\* A User-agent line that joins the last group, which has no rule yet.
LEMMA AgentJoined ==
  ASSUME NEW gs \in Seq(GroupType), gs # << >>, gs[Len(gs)].rules = << >>,
         NEW a \in Agents, NEW gs2, gs2 = [gs EXCEPT ![Len(gs)].agents = @ \cup {a}]
  PROVE  /\ gs2 \in Seq(GroupType) /\ gs2 # << >>
         /\ gs2[Len(gs2)].agents = gs[Len(gs)].agents \cup {a}
         /\ gs2[Len(gs2)].rules = << >>
         /\ \A b \in Agents : For(gs2, b) # {} <=> For(gs, b) # {} \/ b = a
         /\ \A b \in Agents, r \in Rule : Offers(gs2, b, r) <=> Offers(gs, b, r)
<1> DEFINE L   == Len(gs)
           new == [gs[L] EXCEPT !.agents = @ \cup {a}]
<1>1. L \in 1..L /\ L \in Nat /\ DOMAIN gs = 1..L /\ gs[L] \in GroupType
  BY LenProperties, EmptySeq, ElementOfSeq
<1>2. new \in GroupType /\ new.agents = gs[L].agents \cup {a} /\ new.rules = << >>
  BY <1>1 DEF GroupType
<1> HIDE DEF new
<1>3. /\ gs2 \in Seq(GroupType) /\ Len(gs2) = L /\ DOMAIN gs2 = 1..L
      /\ \A g \in 1..L : gs2[g] = IF g = L THEN new ELSE gs[g]
  BY <1>1, <1>2, ExceptSeq, LenProperties DEF new
<1>4. gs2 # << >>
  BY <1>1, <1>3, EmptySeq
<1>5. \A b \in Agents, g \in 1..L :
        g \in For(gs2, b) <=> g \in For(gs, b) \/ (g = L /\ b = a)
  BY <1>1, <1>2, <1>3 DEF For
<1>6. \A b \in Agents : For(gs, b) \subseteq 1..L /\ For(gs2, b) \subseteq 1..L
  BY <1>1, <1>3 DEF For
<1>7. \A b \in Agents : For(gs2, b) # {} <=> For(gs, b) # {} \/ b = a
  BY <1>1, <1>5, <1>6
<1>8. ASSUME NEW b \in Agents, NEW r \in Rule
      PROVE  Offers(gs2, b, r) <=> Offers(gs, b, r)
  <2>1. DOMAIN gs2[L].rules = {} /\ DOMAIN gs[L].rules = {}
    BY <1>1, <1>2, <1>3
  <2>2. \A g \in 1..L : g # L => gs2[g] = gs[g] /\ (g \in For(gs2, b) <=> g \in For(gs, b))
    BY <1>3, <1>5
  <2> QED  BY <2>1, <2>2, <1>6 DEF Offers
<1> QED  BY <1>1, <1>2, <1>3, <1>4, <1>7, <1>8

\* A rule is added to the last group.
LEMMA RuleAdded ==
  ASSUME NEW gs \in Seq(GroupType), gs # << >>, NEW new \in Rule, NEW gs2,
         gs2 = [gs EXCEPT ![Len(gs)].rules = Append(@, new)]
  PROVE  /\ gs2 \in Seq(GroupType) /\ gs2 # << >>
         /\ gs2[Len(gs2)].agents = gs[Len(gs)].agents
         /\ gs2[Len(gs2)].rules # << >>
         /\ \A b \in Agents : For(gs2, b) # {} <=> For(gs, b) # {}
         /\ \A b \in Agents, r \in Rule :
              Offers(gs2, b, r) <=>
                Offers(gs, b, r) \/ (r = new /\ b \in gs[Len(gs)].agents)
<1> DEFINE L    == Len(gs)
           last == [gs[L] EXCEPT !.rules = Append(@, new)]
           n    == Len(gs[L].rules)
<1>1. /\ L \in 1..L /\ L \in Nat /\ DOMAIN gs = 1..L /\ gs[L] \in GroupType
      /\ gs[L].rules \in Seq(Rule)
  <2>1. L \in 1..L /\ L \in Nat /\ DOMAIN gs = 1..L
    BY LenProperties, EmptySeq
  <2>2. gs[L] \in GroupType
    BY <2>1, ElementOfSeq
  <2> QED  BY <2>1, <2>2 DEF GroupType
<1>2. /\ n \in Nat /\ DOMAIN gs[L].rules = 1..n
      /\ Append(gs[L].rules, new) \in Seq(Rule)
      /\ DOMAIN Append(gs[L].rules, new) = 1..(n + 1)
      /\ \A k \in 1..n : Append(gs[L].rules, new)[k] = gs[L].rules[k]
      /\ Append(gs[L].rules, new)[n + 1] = new
  BY <1>1, LenProperties, AppendProperties
<1>3. last \in GroupType /\ last.agents = gs[L].agents /\ last.rules = Append(gs[L].rules, new)
  BY <1>1, <1>2 DEF GroupType
<1> HIDE DEF last
<1>4. /\ gs2 \in Seq(GroupType) /\ Len(gs2) = L /\ DOMAIN gs2 = 1..L
      /\ \A g \in 1..L : gs2[g] = IF g = L THEN last ELSE gs[g]
  BY <1>1, <1>3, ExceptSeq, LenProperties DEF last
<1>5. gs2 # << >> /\ gs2[L].rules # << >>
  <2>1. n + 1 \in DOMAIN gs2[L].rules
    BY <1>1, <1>2, <1>3, <1>4
  <2> QED  BY <2>1, <1>1, <1>4, EmptySeq, SMTT(20)
<1>6. \A b \in Agents, g \in 1..L : g \in For(gs2, b) <=> g \in For(gs, b)
  BY <1>1, <1>3, <1>4 DEF For
<1>7. \A b \in Agents : For(gs, b) \subseteq 1..L /\ For(gs2, b) \subseteq 1..L
  BY <1>1, <1>4 DEF For
<1>8. \A b \in Agents : For(gs2, b) = For(gs, b)
  BY <1>6, <1>7
<1>9. ASSUME NEW b \in Agents, NEW r \in Rule
      PROVE  Offers(gs2, b, r) <=> Offers(gs, b, r) \/ (r = new /\ b \in gs[L].agents)
  <2>1. L \in For(gs, b) <=> b \in gs[L].agents
    BY <1>1 DEF For
  <2>2. (\E k \in DOMAIN gs2[L].rules : gs2[L].rules[k] = r)
        <=> (\E k \in DOMAIN gs[L].rules : gs[L].rules[k] = r) \/ r = new
    <3>1. gs2[L].rules = Append(gs[L].rules, new)
      BY <1>1, <1>3, <1>4
    <3>2. \A k \in 1..(n + 1) : k \in 1..n \/ k = n + 1
      BY <1>2
    <3>3. 1..n \subseteq 1..(n + 1) /\ n + 1 \in 1..(n + 1)
      BY <1>2
    <3> HIDE DEF n
    <3> QED  BY <3>1, <3>2, <3>3, <1>2
  <2>3. \A g \in 1..L : g # L => gs2[g] = gs[g]
    BY <1>4
  <2>4. For(gs2, b) = For(gs, b) /\ For(gs, b) \subseteq 1..L
    BY <1>7, <1>8
  <2>5. ASSUME Offers(gs2, b, r) PROVE Offers(gs, b, r) \/ (r = new /\ b \in gs[L].agents)
    <3>1. PICK g \in For(gs, b) : \E k \in DOMAIN gs2[g].rules : gs2[g].rules[k] = r
      BY <2>4, <2>5 DEF Offers
    <3>2. CASE g = L
      BY <3>1, <3>2, <2>1, <2>2 DEF Offers
    <3>3. CASE g # L
      BY <3>1, <3>3, <2>3, <2>4 DEF Offers
    <3> QED  BY <3>2, <3>3
  <2>6. ASSUME Offers(gs, b, r) PROVE Offers(gs2, b, r)
    <3>1. PICK g \in For(gs, b) : \E k \in DOMAIN gs[g].rules : gs[g].rules[k] = r
      BY <2>6 DEF Offers
    <3>2. CASE g = L
      BY <3>1, <3>2, <2>2, <2>4 DEF Offers
    <3>3. CASE g # L
      BY <3>1, <3>3, <2>3, <2>4 DEF Offers
    <3> QED  BY <3>2, <3>3
  <2>7. ASSUME r = new, b \in gs[L].agents PROVE Offers(gs2, b, r)
    BY <2>1, <2>2, <2>4, <2>7 DEF Offers
  <2> HIDE DEF L
  <2> QED  BY <2>5, <2>6, <2>7
<1> QED  BY <1>4, <1>5, <1>3, <1>1, <1>8, <1>9

\* One more line names one more agent at most.
LEMMA AgentsNext ==
  ASSUME NEW f \in Seq(FileLine), NEW n \in Nat, n < Len(f), NEW a
  PROVE  (\E j \in 1..(n + 1) : IsAgent(f, j) /\ f[j].agent = a)
         <=> \/ \E j \in 1..n : IsAgent(f, j) /\ f[j].agent = a
             \/ IsAgent(f, n + 1) /\ f[n + 1].agent = a
<1>1. 1..n \subseteq 1..(n + 1) /\ n + 1 \in 1..(n + 1)
  OBVIOUS
<1>2. \A j \in 1..(n + 1) : j \in 1..n \/ j = n + 1
  OBVIOUS
<1> QED  BY <1>1, <1>2

\* What a line does to the groups.
LEMMA ParseCases ==
  ASSUME NEW f \in Seq(FileLine), NEW n \in Nat, n < Len(f), NEW gs
  PROVE  /\ IsAgent(f, n + 1) /\ StartsGroup(gs) =>
              ParseLine(gs, f[n + 1])
                = Append(gs, [agents |-> {f[n + 1].agent}, rules |-> << >>])
         /\ IsAgent(f, n + 1) /\ ~StartsGroup(gs) =>
              ParseLine(gs, f[n + 1])
                = [gs EXCEPT ![Len(gs)].agents = @ \cup {f[n + 1].agent}]
         /\ IsRule(f, n + 1) /\ gs # << >> =>
              ParseLine(gs, f[n + 1])
                = [gs EXCEPT ![Len(gs)].rules = Append(@, f[n + 1].rule)]
         /\ ~IsAgent(f, n + 1) /\ ~(IsRule(f, n + 1) /\ gs # << >>) =>
              ParseLine(gs, f[n + 1]) = gs
<1>1. ASSUME IsAgent(f, n + 1) PROVE ParseLine(gs, f[n + 1]) = WithAgent(gs, f[n + 1].agent)
  BY <1>1 DEF IsAgent, ParseLine
<1>2. ASSUME IsRule(f, n + 1), gs # << >>
      PROVE  ParseLine(gs, f[n + 1])
               = [gs EXCEPT ![Len(gs)].rules = Append(@, f[n + 1].rule)]
  BY <1>2 DEF IsRule, ParseLine
<1>3. ASSUME ~IsAgent(f, n + 1), ~(IsRule(f, n + 1) /\ gs # << >>)
      PROVE  ParseLine(gs, f[n + 1]) = gs
  BY <1>3 DEF IsAgent, IsRule, ParseLine
<1>4. IsAgent(f, n + 1) /\ StartsGroup(gs) =>
        ParseLine(gs, f[n + 1])
          = Append(gs, [agents |-> {f[n + 1].agent}, rules |-> << >>])
  BY <1>1 DEF WithAgent
<1>5. IsAgent(f, n + 1) /\ ~StartsGroup(gs) =>
        ParseLine(gs, f[n + 1])
          = [gs EXCEPT ![Len(gs)].agents = @ \cup {f[n + 1].agent}]
  BY <1>1 DEF WithAgent
<1> QED  BY <1>2, <1>3, <1>4, <1>5

\* The groups hold what was read, after one more line too.
LEMMA ParsedNext ==
  ASSUME NEW f \in Seq(FileLine), NEW n \in Nat, n < Len(f),
         NEW gs \in Seq(GroupType), Parsed(f, n, gs)
  PROVE  ParseLine(gs, f[n + 1]) \in Seq(GroupType) /\ Parsed(f, n + 1, ParseLine(gs, f[n + 1]))
<1> DEFINE gs2 == ParseLine(gs, f[n + 1])
           l   == f[n + 1]
<1>0. n + 1 \in 1..Len(f) /\ n + 1 \in 1..(n + 1) /\ 1..n \subseteq 1..(n + 1)
  BY LenProperties
<1>a. /\ IsAgent(f, n + 1) => ~IsRule(f, n + 1) /\ l.agent \in Agents
      /\ IsRule(f, n + 1) => l.rule \in Rule
  BY <1>0, LineKinds
<1>b. /\ IsAgent(f, n + 1) /\ StartsGroup(gs) =>
           gs2 = Append(gs, [agents |-> {l.agent}, rules |-> << >>])
      /\ IsAgent(f, n + 1) /\ ~StartsGroup(gs) =>
           gs2 = [gs EXCEPT ![Len(gs)].agents = @ \cup {l.agent}]
      /\ IsRule(f, n + 1) /\ gs # << >> =>
           gs2 = [gs EXCEPT ![Len(gs)].rules = Append(@, l.rule)]
      /\ ~IsAgent(f, n + 1) /\ ~(IsRule(f, n + 1) /\ gs # << >>) => gs2 = gs
  BY ParseCases
<1>c. StartsGroup(gs) <=> gs = << >> \/ gs[Len(gs)].rules # << >>
  BY DEF StartsGroup, Last
<1> HIDE DEF gs2, l
<1>d. /\ \A a \in Agents :
           For(gs, a) # {} <=> \E j \in 1..n : IsAgent(f, j) /\ f[j].agent = a
      /\ \A a \in Agents, r \in Rule :
           Offers(gs, a, r) <=> Reads(f, n, a, r)
      /\ gs = << >> => \A j \in 1..n : ~IsAgent(f, j)
      /\ gs # << >> => LastOpen(f, n, gs)
  BY DEF Parsed
<1>e. ASSUME IsAgent(f, n + 1),
             \A a \in Agents : For(gs2, a) # {} <=> For(gs, a) # {} \/ a = l.agent,
             \A a \in Agents, r \in Rule : Offers(gs2, a, r) <=> Offers(gs, a, r),
             gs2 # << >>, LastOpen(f, n + 1, gs2)
      PROVE  Parsed(f, n + 1, gs2)
  <2>1. \A a \in Agents :
          For(gs2, a) # {} <=> \E j \in 1..(n + 1) : IsAgent(f, j) /\ f[j].agent = a
    BY <1>e, <1>d, AgentsNext DEF l
  <2>2. \A a \in Agents, r \in Rule :
          Offers(gs2, a, r) <=> Reads(f, n + 1, a, r)
    BY <1>e, <1>d, <1>a, GovernsNext
  <2> QED  BY <1>e, <2>1, <2>2 DEF Parsed
<1>1. CASE IsAgent(f, n + 1) /\ StartsGroup(gs)
  <2>1. /\ gs2 \in Seq(GroupType) /\ gs2 # << >>
        /\ gs2[Len(gs2)].agents = {l.agent} /\ gs2[Len(gs2)].rules = << >>
        /\ \A b \in Agents : For(gs2, b) # {} <=> For(gs, b) # {} \/ b = l.agent
        /\ \A b \in Agents, r \in Rule : Offers(gs2, b, r) <=> Offers(gs, b, r)
    BY <1>1, <1>a, <1>b, GroupAdded
  <2>2. \/ \A j \in 1..n : ~IsAgent(f, j)
        \/ \E j \in 1..n, i \in 1..n : Open(f, j, n) /\ j < i /\ IsRule(f, i)
    BY <1>1, <1>c, <1>d DEF LastOpen
  <2>3. \A j \in 1..(n + 1) : Open(f, j, n + 1) <=> j = n + 1
    BY <1>1, <2>2, OpenAnew
  <2>4. LastOpen(f, n + 1, gs2)
    <3>1. \E j \in 1..(n + 1) : Open(f, j, n + 1)
      BY <2>3, <1>0
    <3>2. \A a \in Agents : a \in gs2[Len(gs2)].agents <=>
            \E j \in 1..(n + 1) : Open(f, j, n + 1) /\ f[j].agent = a
      BY <2>1, <2>3, <1>0 DEF l
    <3>3. ~\E j \in 1..(n + 1), i \in 1..(n + 1) :
             Open(f, j, n + 1) /\ j < i /\ IsRule(f, i)
      BY <2>3
    <3> QED  BY <2>1, <3>1, <3>2, <3>3 DEF LastOpen
  <2> QED  BY <1>1, <2>1, <2>4, <1>e DEF gs2
<1>2. CASE IsAgent(f, n + 1) /\ ~StartsGroup(gs)
  <2>0. gs # << >> /\ gs[Len(gs)].rules = << >>
    BY <1>2, <1>c
  <2>1. /\ gs2 \in Seq(GroupType) /\ gs2 # << >>
        /\ gs2[Len(gs2)].agents = gs[Len(gs)].agents \cup {l.agent}
        /\ gs2[Len(gs2)].rules = << >>
        /\ \A b \in Agents : For(gs2, b) # {} <=> For(gs, b) # {} \/ b = l.agent
        /\ \A b \in Agents, r \in Rule : Offers(gs2, b, r) <=> Offers(gs, b, r)
    BY <1>2, <2>0, <1>a, <1>b, AgentJoined
  <2>2. /\ \A j \in 1..n, i \in 1..n : Open(f, j, n) => ~(j < i /\ IsRule(f, i))
        /\ \A a \in Agents : a \in gs[Len(gs)].agents <=>
             \E j \in 1..n : Open(f, j, n) /\ f[j].agent = a
    BY <2>0, <1>d DEF LastOpen
  <2>3. \A j \in 1..(n + 1) :
          Open(f, j, n + 1) <=> j = n + 1 \/ (j \in 1..n /\ Open(f, j, n))
    BY <1>2, <2>2, OpenJoined
  <2>4. LastOpen(f, n + 1, gs2)
    <3>1. \E j \in 1..(n + 1) : Open(f, j, n + 1)
      BY <2>3, <1>0
    <3>2. \A a \in Agents : a \in gs2[Len(gs2)].agents <=>
            \E j \in 1..(n + 1) : Open(f, j, n + 1) /\ f[j].agent = a
      BY <2>1, <2>2, <2>3, <1>0 DEF l
    <3>3. ~\E j \in 1..(n + 1), i \in 1..(n + 1) :
             Open(f, j, n + 1) /\ j < i /\ IsRule(f, i)
      <4> SUFFICES ASSUME NEW j \in 1..(n + 1), NEW i \in 1..(n + 1),
                          Open(f, j, n + 1), j < i, IsRule(f, i)
                   PROVE  FALSE
        OBVIOUS
      <4>1. i # n + 1
        BY <1>2, <1>a
      <4>2. i \in 1..n /\ j \in 1..n
        BY <4>1
      <4>3. Open(f, j, n)
        BY <4>2, <2>3
      <4> QED  BY <4>2, <4>3, <2>2
    <3> QED  BY <2>1, <3>1, <3>2, <3>3 DEF LastOpen
  <2> QED  BY <1>2, <2>1, <2>4, <1>e DEF gs2
<1>3. CASE IsRule(f, n + 1) /\ gs # << >>
  <2>0. ~IsAgent(f, n + 1) /\ l.rule \in Rule
    BY <1>3, <1>a
  <2>1. /\ gs2 \in Seq(GroupType) /\ gs2 # << >>
        /\ gs2[Len(gs2)].agents = gs[Len(gs)].agents
        /\ gs2[Len(gs2)].rules # << >>
        /\ \A b \in Agents : For(gs2, b) # {} <=> For(gs, b) # {}
        /\ \A b \in Agents, r \in Rule :
             Offers(gs2, b, r) <=> Offers(gs, b, r) \/ (r = l.rule /\ b \in gs[Len(gs)].agents)
    BY <1>3, <2>0, <1>b, RuleAdded
  <2>2. /\ \E j \in 1..n : Open(f, j, n)
        /\ \A a \in Agents : a \in gs[Len(gs)].agents <=>
             \E j \in 1..n : Open(f, j, n) /\ f[j].agent = a
    BY <1>3, <1>d DEF LastOpen
  <2>3. \A j \in 1..n : Open(f, j, n + 1) <=> Open(f, j, n)
    BY <2>0, OpenKept
  <2>4. ~Open(f, n + 1, n + 1)
    BY <2>0 DEF Open
  <2>5. \A j \in 1..(n + 1) : j \in 1..n \/ j = n + 1
    OBVIOUS
  <2>6. LastOpen(f, n + 1, gs2)
    <3>1. \E j \in 1..(n + 1) : Open(f, j, n + 1)
      BY <2>2, <2>3, <1>0
    <3>2. \A a \in Agents : a \in gs2[Len(gs2)].agents <=>
            \E j \in 1..(n + 1) : Open(f, j, n + 1) /\ f[j].agent = a
      BY <2>1, <2>2, <2>3, <2>4, <2>5, <1>0
    <3>3. \E j \in 1..(n + 1), i \in 1..(n + 1) :
            Open(f, j, n + 1) /\ j < i /\ IsRule(f, i)
      <4>1. PICK j \in 1..n : Open(f, j, n)
        BY <2>2
      <4>2. j \in 1..(n + 1) /\ j < n + 1 /\ Open(f, j, n + 1)
        BY <4>1, <2>3
      <4> QED  BY <4>2, <1>0, <1>3
    <3> QED  BY <2>1, <3>1, <3>2, <3>3 DEF LastOpen
  <2>7. \A a \in Agents :
          For(gs2, a) # {} <=> \E j \in 1..(n + 1) : IsAgent(f, j) /\ f[j].agent = a
    BY <2>0, <2>1, <1>d, AgentsNext
  <2>8. \A a \in Agents, r \in Rule :
          Offers(gs2, a, r) <=> Reads(f, n + 1, a, r)
    <3> TAKE a \in Agents, r \in Rule
    <3>1. Offers(gs2, a, r) <=>
            \/ Offers(gs, a, r)
            \/ r = l.rule /\ \E j \in 1..n : Open(f, j, n) /\ f[j].agent = a
      BY <2>1, <2>2
    <3> QED  BY <3>1, <1>3, <1>d, GovernsNext DEF l
  <2> QED  BY <2>1, <2>6, <2>7, <2>8 DEF Parsed, gs2
<1>4. CASE ~IsAgent(f, n + 1) /\ ~(IsRule(f, n + 1) /\ gs # << >>)
  <2>0. gs2 = gs
    BY <1>4, <1>b
  <2>1. \A j \in 1..n : Open(f, j, n + 1) <=> Open(f, j, n)
    BY <1>4, OpenKept
  <2>2. ~Open(f, n + 1, n + 1)
    BY <1>4 DEF Open
  <2>3. \A j \in 1..(n + 1) : j \in 1..n \/ j = n + 1
    OBVIOUS
  <2>4. gs # << >> => ~IsRule(f, n + 1)
    BY <1>4
  <2>5. gs # << >> => LastOpen(f, n + 1, gs)
    <3> SUFFICES ASSUME gs # << >>
                 PROVE  LastOpen(f, n + 1, gs)
      OBVIOUS
    <3>1. LastOpen(f, n, gs)
      BY <1>d
    <3>2. \E j \in 1..(n + 1) : Open(f, j, n + 1)
      BY <3>1, <2>1, <1>0 DEF LastOpen
    <3>3. \A a \in Agents : a \in gs[Len(gs)].agents <=>
            \E j \in 1..(n + 1) : Open(f, j, n + 1) /\ f[j].agent = a
      BY <3>1, <2>1, <2>2, <2>3, <1>0 DEF LastOpen
    <3>4. (\E j \in 1..(n + 1), i \in 1..(n + 1) : Open(f, j, n + 1) /\ j < i /\ IsRule(f, i))
          <=> \E j \in 1..n, i \in 1..n : Open(f, j, n) /\ j < i /\ IsRule(f, i)
      BY <2>1, <2>2, <2>3, <2>4, <1>0
    <3> QED  BY <3>1, <3>2, <3>3, <3>4 DEF LastOpen
  <2>6. gs = << >> => \A j \in 1..(n + 1) : ~IsAgent(f, j)
    BY <1>4, <1>d, <2>3
  <2>7. \A a \in Agents :
          For(gs, a) # {} <=> \E j \in 1..(n + 1) : IsAgent(f, j) /\ f[j].agent = a
    BY <1>4, <1>d, AgentsNext
  <2>8. IsRule(f, n + 1) => ~\E j \in 1..n : Open(f, j, n)
    BY <2>4, <1>d DEF Open
  <2>9. \A a \in Agents, r \in Rule :
          Offers(gs, a, r) <=> Reads(f, n + 1, a, r)
    BY <2>8, <1>d, GovernsNext
  <2>10. Parsed(f, n + 1, gs)
    BY <2>5, <2>6, <2>7, <2>9 DEF Parsed
  <2> QED  BY <2>0, <2>10 DEF gs2
<1> QED  BY <1>1, <1>2, <1>3, <1>4

-------------------------------------------------------------------------------
(* evaluate_robots *)

\* Nothing has been read.
LEMMA ParsedNothing ==
  ASSUME NEW f \in Seq(FileLine)
  PROVE  Parsed(f, 0, << >>)
<1>1. \A j \in 1..0 : FALSE
  OBVIOUS
<1>2. DOMAIN << >> = {}
  OBVIOUS
<1>3. \A a : For(<< >>, a) = {}
  BY <1>2 DEF For
<1>4. \A a \in Agents, r \in Rule : Offers(<< >>, a, r) <=> Reads(f, 0, a, r)
  BY <1>1, <1>3 DEF Offers, Reads
<1> QED  BY <1>1, <1>3, <1>4 DEF Parsed

\* When the whole file has been read, the rules of the selected groups are those meant.
LEMMA Meaning ==
  ASSUME NEW f \in Seq(FileLine), NEW gs \in Seq(GroupType), Parsed(f, Len(f), gs)
  PROVE  /\ \A g \in Selected(gs) : \A k \in DOMAIN gs[g].rules : gs[g].rules[k] \in Meant(f)
         /\ \A r \in Meant(f) :
              \E g \in Selected(gs) : \E k \in DOMAIN gs[g].rules : gs[g].rules[k] = r
         /\ Meant(f) \subseteq Rule
<1> DEFINE who == IF Addressed(f, OWN) THEN OWN ELSE ANY
<1>1. OWN \in Agents /\ ANY \in Agents /\ who \in Agents
  BY DEF Agents
<1>2. DOMAIN f = 1..Len(f) /\ Len(f) \in Nat
  BY LenProperties
<1>3. For(gs, OWN) # {} <=> Addressed(f, OWN)
  BY <1>1, <1>2 DEF Parsed, Addressed
<1>4. Selected(gs) = For(gs, who)
  BY <1>3 DEF Selected
<1>5. \A r \in Rule : Offers(gs, who, r) <=> Reads(f, Len(f), who, r)
  BY <1>1 DEF Parsed
<1> HIDE DEF who
<1>6. \A r : r \in RulesFor(f, who) <=> Reads(f, Len(f), who, r)
  BY <1>2 DEF RulesFor, Reads
<1>7. \A r : Reads(f, Len(f), who, r) => r \in Rule
  BY LineKinds DEF Reads, Governs
<1>8. Meant(f) = RulesFor(f, who)
  BY DEF Meant, who
<1>9. \A r \in Rule : Offers(gs, who, r) <=> r \in Meant(f)
  BY <1>5, <1>6, <1>8
<1>10. ASSUME NEW g \in Selected(gs), NEW k \in DOMAIN gs[g].rules
       PROVE  gs[g].rules[k] \in Meant(f)
  <2>1. g \in 1..Len(gs)
    BY <1>4, <1>10, LenProperties DEF For
  <2>a. gs[g] \in GroupType
    BY <2>1, ElementOfSeq
  <2>2. gs[g].rules \in Seq(Rule)
    BY <2>a DEF GroupType
  <2>3. gs[g].rules[k] \in Rule
    BY <2>2, <1>10, LenProperties, ElementOfSeq
  <2>4. Offers(gs, who, gs[g].rules[k])
    BY <1>4, <1>10 DEF Offers
  <2> QED  BY <2>3, <2>4, <1>9
<1>11. \A r \in Meant(f) :
         \E g \in Selected(gs) : \E k \in DOMAIN gs[g].rules : gs[g].rules[k] = r
  BY <1>4, <1>6, <1>7, <1>8, <1>9 DEF Offers
<1>12. Meant(f) \subseteq Rule
  BY <1>6, <1>7, <1>8
<1> QED  BY <1>10, <1>11, <1>12

\* The best of the rules that match decides.
LEMMA BestDecides ==
  ASSUME NEW f \in Seq(FileLine), NEW t, NEW w, Meant(f) \subseteq Rule,
         Best(w, Meant(f), t), BeforeQuery(t) # RobotsPath
  PROVE  w.allowed <=> Allowed(f, t)
<1> DEFINE App == {r \in Meant(f) : MatchesPath(r, t)}
<1>1. w \in App /\ w \in Rule
  BY DEF Best
<1>2. \A r \in App : /\ specificity(r) <= specificity(w)
                     /\ specificity(r) = specificity(w) /\ r.allowed => w.allowed
  BY DEF Best
<1>3. \A r \in App : r \in Rule /\ specificity(r) \in Nat
  BY SpecificityType
<1>4. Allowed(f, t) <=> \/ App = {}
                        \/ \E r \in App :
                             r.allowed /\ \A q \in App : specificity(q) <= specificity(r)
  BY DEF Allowed
<1> HIDE DEF App
<1>5. w.allowed => Allowed(f, t)
  BY <1>1, <1>2, <1>4
<1>6. ASSUME NEW r \in App, r.allowed, \A q \in App : specificity(q) <= specificity(r)
      PROVE  w.allowed
  <2>1. specificity(r) = specificity(w)
    BY <1>1, <1>2, <1>3, <1>6
  <2> QED  BY <2>1, <1>2, <1>6
<1>7. w.allowed \in BOOLEAN
  BY <1>1 DEF Rule
<1> QED  BY <1>1, <1>4, <1>5, <1>6, <1>7

\* Nothing is read, tried or decided at first.
LEMMA InitInv == Init => Inv
<1> SUFFICES ASSUME Init
             PROVE  Inv
  OBVIOUS
<1>1. file \in File /\ file \in Seq(FileLine) /\ target \in Seq(Octet)
  BY PolicyAssumption DEF Init
<1>2. TypeOK
  BY <1>1, EmptySeq, LenProperties DEF Init, TypeOK
<1>3. Parsed(file, line, groups)
  BY <1>1, ParsedNothing DEF Init
<1>4. Trying /\ Ranked /\ MatchesTrue /\ DecisionTrue
  BY DEF Init, Trying, Ranked, MatchesTrue, DecisionTrue
<1> QED  BY <1>2, <1>3, <1>4 DEF Inv

\* A line is read into the groups (_parse_groups).
LEMMA ReadLineInv ==
  ASSUME Inv, ReadLine
  PROVE  Inv'
<1>1. /\ file \in File /\ file \in Seq(FileLine) /\ target \in Seq(Octet)
      /\ line \in 0..Len(file) /\ groups \in Seq(GroupType)
      /\ Parsed(file, line, groups)
  BY DEF Inv, TypeOK
<1>2. /\ pc = "parse" /\ line < Len(file) /\ line' = line + 1
      /\ groups' = ParseLine(groups, file[line + 1])
      /\ file' = file /\ target' = target /\ pc' = pc /\ tried' = tried /\ trying' = trying
      /\ at' = at /\ winner' = winner /\ matched' = matched /\ decision' = decision
  BY DEF ReadLine
<1>3. line \in Nat /\ Len(file) \in Nat
  BY <1>1, LenProperties
<1>4. groups' \in Seq(GroupType) /\ Parsed(file, line + 1, groups')
  BY <1>1, <1>2, <1>3, ParsedNext
<1>5. TypeOK'
  BY <1>1, <1>2, <1>3, <1>4 DEF Inv, TypeOK
<1>6. Parsed(file, line, groups)'
  BY <1>2, <1>4
<1>7. Trying'
  BY <1>2 DEF Inv, Trying
<1>8. Ranked' /\ MatchesTrue' /\ DecisionTrue'
  BY <1>2 DEF Inv, Ranked, MatchesTrue, DecisionTrue
<1> QED  BY <1>5, <1>6, <1>7, <1>8 DEF Inv

\* The file has been read: the groups are selected, or there is a decision.
LEMMA SelectRulesInv ==
  ASSUME Inv, SelectRules
  PROVE  Inv'
<1>1. /\ file \in Seq(FileLine) /\ groups \in Seq(GroupType)
      /\ Parsed(file, line, groups) /\ TypeOK /\ Trying /\ Ranked
  BY DEF Inv, TypeOK
<1>2. /\ pc = "parse" /\ line = Len(file)
      /\ file' = file /\ target' = target /\ line' = line /\ groups' = groups
      /\ tried' = tried /\ trying' = trying /\ at' = at
      /\ winner' = winner /\ matched' = matched
  BY DEF SelectRules
<1>3. TypeOK' /\ Parsed(file, line, groups)' /\ Ranked' /\ MatchesTrue'
  BY <1>1, <1>2 DEF Inv, TypeOK, Ranked, MatchesTrue
<1>4. CASE BeforeQuery(target) = RobotsPath
  <2>1. pc' = "decided" /\ decision' = {[allowed |-> TRUE, reason |-> "robots_uri"]}
    BY <1>4 DEF SelectRules, Decide
  <2>2. DecisionTrue'
    BY <1>2, <1>4, <2>1 DEF DecisionTrue, Allowed
  <2>3. Trying'
    BY <2>1 DEF Trying
  <2> QED  BY <1>3, <2>2, <2>3 DEF Inv
<1>5. CASE BeforeQuery(target) # RobotsPath /\ Selected(groups) = {}
  <2>1. pc' = "decided" /\ decision' = {[allowed |-> TRUE, reason |-> "no_matching_group"]}
    BY <1>5 DEF SelectRules, Decide
  <2>2. Meant(file) = {}
    BY <1>1, <1>2, <1>5, Meaning
  <2>3. Allowed(file, target)
    BY <2>2 DEF Allowed
  <2>4. DecisionTrue'
    BY <1>2, <2>1, <2>3 DEF DecisionTrue
  <2>5. Trying'
    BY <2>1 DEF Trying
  <2> QED  BY <1>3, <2>4, <2>5 DEF Inv
<1>6. CASE BeforeQuery(target) # RobotsPath /\ Selected(groups) # {}
  <2>1. pc' = "try" /\ decision' = decision
    BY <1>6 DEF SelectRules
  <2>2. tried \subseteq Meant(file)
    BY <1>1, <1>2 DEF Inv, Trying
  <2>3. Trying'
    BY <1>2, <1>6, <2>1, <2>2 DEF Trying
  <2>4. DecisionTrue'
    BY <1>2, <2>1 DEF Inv, DecisionTrue
  <2> QED  BY <1>3, <2>3, <2>4 DEF Inv
<1> QED  BY <1>4, <1>5, <1>6

\* _matches begins on a rule of the selected groups.
LEMMA TryRuleInv ==
  ASSUME Inv, TryRule
  PROVE  Inv'
<1>1. /\ file \in Seq(FileLine) /\ groups \in Seq(GroupType) /\ target \in Seq(Octet)
      /\ Parsed(file, line, groups) /\ TypeOK /\ Trying /\ Ranked
  BY DEF Inv, TypeOK
<1>2. /\ pc = "try" /\ at' = LoopStart /\ pc' = "match"
      /\ file' = file /\ target' = target /\ line' = line /\ groups' = groups
      /\ tried' = tried /\ winner' = winner /\ matched' = matched /\ decision' = decision
  BY DEF TryRule
<1>3. TypeOK' /\ Parsed(file, line, groups)' /\ Ranked' /\ MatchesTrue' /\ DecisionTrue'
  BY <1>1, <1>2 DEF Inv, TypeOK, Ranked, MatchesTrue, DecisionTrue
<1>4. line = Len(file) /\ BeforeQuery(target) # RobotsPath /\ tried \subseteq Meant(file)
  BY <1>1, <1>2 DEF Trying
<1>5. PICK p \in Untried : trying' = {groups[p[1]].rules[p[2]]}
  BY DEF TryRule
<1>6. p[1] \in Selected(groups) /\ p[2] \in DOMAIN groups[p[1]].rules
  BY DEF Untried
<1> DEFINE r == groups[p[1]].rules[p[2]]
<1>7. r \in Meant(file) /\ r \in Rule
  BY <1>1, <1>4, <1>6, Meaning
<1> HIDE DEF r
<1>8. Scanned(LoopStart, Pattern(r), target)
  BY <1>1, <1>7, PatternType, StartScanned
<1>9. Trying'
  BY <1>2, <1>4, <1>5, <1>7, <1>8 DEF Trying, r
<1> QED  BY <1>3, <1>9 DEF Inv

\* What _matches returns is right, and the winner stays the best of what was tried.
LEMMA ReturnInv ==
  ASSUME Inv, pc = "match", NEW r, trying = {r}, NEW b \in BOOLEAN,
         b <=> MatchesPath(r, target), Return(r, b),
         file' = file, target' = target, line' = line, groups' = groups,
         decision' = decision
  PROVE  Inv'
<1>1. /\ file \in Seq(FileLine) /\ groups \in Seq(GroupType)
      /\ Parsed(file, line, groups) /\ TypeOK /\ Trying /\ Ranked
  BY DEF Inv, TypeOK
<1>2. /\ line = Len(file) /\ BeforeQuery(target) # RobotsPath /\ tried \subseteq Meant(file)
      /\ r \in Meant(file)
  BY <1>1 DEF Trying
<1>3. r \in Rule /\ Meant(file) \subseteq Rule
  BY <1>1, <1>2, Meaning
<1>4. /\ matched' = {[rule |-> r, result |-> b]}
      /\ winner' = IF b /\ \A w \in winner : Better(r, w) THEN {r} ELSE winner
      /\ tried' = tried \cup {r} /\ pc' = "try"
  BY DEF Return
<1>5. MatchesTrue'
  BY <1>4 DEF MatchesTrue
<1>6. TypeOK' /\ Parsed(file, line, groups)' /\ DecisionTrue'
  BY <1>1, <1>3, <1>4 DEF Inv, TypeOK, DecisionTrue
<1>7. Trying'
  BY <1>2, <1>4 DEF Trying
<1>8. Ranked'
  <2>0. \A q \in tried \cup {r} :
          specificity(q) \in Nat /\ q.allowed \in BOOLEAN
    BY <1>2, <1>3, SpecificityType DEF Rule
  <2>1. CASE winner = {} /\ ~b
    <3>1. \A q \in tried : ~MatchesPath(q, target)
      BY <1>1, <2>1 DEF Ranked
    <3> QED  BY <2>1, <3>1, <1>4 DEF Ranked
  <2>2. CASE winner = {} /\ b
    <3>1. \A q \in tried : ~MatchesPath(q, target)
      BY <1>1, <2>2 DEF Ranked
    <3>2. winner' = {r}
      BY <2>2, <1>4
    <3>3. Best(r, tried \cup {r}, target)
      BY <2>0, <2>2, <3>1 DEF Best
    <3> QED  BY <3>2, <3>3, <1>4 DEF Ranked
  <2>3. CASE winner # {}
    <3>1. PICK w \in tried : winner = {w} /\ Best(w, tried, target)
      BY <1>1, <2>3 DEF Ranked
    <3>2. CASE b /\ Better(r, w)
      <4>1. winner' = {r}
        BY <3>1, <3>2, <1>4
      <4>2. ASSUME NEW q \in tried \cup {r}, MatchesPath(q, target)
            PROVE  /\ specificity(q) <= specificity(r)
                   /\ specificity(q) = specificity(r) /\ q.allowed => r.allowed
        <5>1. CASE q = r
          BY <5>1, <2>0
        <5>2. CASE q \in tried
          <6>1. /\ specificity(q) <= specificity(w)
                /\ specificity(q) = specificity(w) /\ q.allowed => w.allowed
            BY <5>2, <4>2, <3>1 DEF Best
          <6>2. /\ specificity(q) \in Nat /\ specificity(r) \in Nat /\ specificity(w) \in Nat
            BY <5>2, <2>0, <3>1
          <6> QED  BY <6>1, <6>2, <3>2 DEF Better
        <5> QED  BY <5>1, <5>2
      <4>3. Best(r, tried \cup {r}, target)
        BY <3>2, <4>2 DEF Best
      <4> QED  BY <4>1, <4>3, <1>4 DEF Ranked
    <3>3. CASE ~(b /\ Better(r, w))
      <4>1. winner' = {w}
        BY <3>1, <3>3, <1>4
      <4>2. ASSUME NEW q \in tried \cup {r}, MatchesPath(q, target)
            PROVE  /\ specificity(q) <= specificity(w)
                   /\ specificity(q) = specificity(w) /\ q.allowed => w.allowed
        <5>1. CASE q = r
          <6>1. ~Better(r, w)
            BY <5>1, <4>2, <3>3
          <6>2. /\ specificity(r) \in Nat /\ specificity(w) \in Nat
                /\ r.allowed \in BOOLEAN /\ w.allowed \in BOOLEAN
            BY <2>0, <3>1
          <6> QED  BY <5>1, <6>1, <6>2 DEF Better
        <5>2. CASE q \in tried
          BY <5>2, <4>2, <3>1 DEF Best
        <5> QED  BY <5>1, <5>2
      <4>3. Best(w, tried \cup {r}, target)
        BY <3>1, <4>2 DEF Best
      <4> QED  BY <4>1, <4>3, <3>1, <1>4 DEF Ranked
    <3> QED  BY <3>2, <3>3
  <2> QED  BY <2>1, <2>2, <2>3
<1> QED  BY <1>5, <1>6, <1>7, <1>8 DEF Inv

\* An iteration of _matches, or its return.
LEMMA MatchInv ==
  ASSUME Inv, Match
  PROVE  Inv'
<1>1. /\ file \in Seq(FileLine) /\ groups \in Seq(GroupType) /\ target \in Seq(Octet)
      /\ Parsed(file, line, groups) /\ TypeOK /\ Trying /\ Ranked
  BY DEF Inv, TypeOK
<1>2. /\ pc = "match" /\ file' = file /\ target' = target /\ line' = line
      /\ groups' = groups /\ decision' = decision
  BY DEF Match
<1>3. PICK r \in Meant(file) : trying = {r} /\ Scanned(at, Pattern(r), target)
  BY <1>1, <1>2 DEF Trying
<1>4. line = Len(file) /\ BeforeQuery(target) # RobotsPath /\ tried \subseteq Meant(file)
  BY <1>1, <1>2 DEF Trying
<1>5. r \in Rule /\ Pattern(r) \in Seq(Token)
  BY <1>1, <1>3, <1>4, Meaning, PatternType
<1>6. IF ~Unfinished(at, target) THEN Return(r, RestMatches(at, Pattern(r)))
      ELSE IF Stuck(at, Pattern(r), target) THEN Return(r, FALSE)
      ELSE /\ at' = Iterate(at, Pattern(r), target)
           /\ UNCHANGED <<pc, tried, trying, winner, matched>>
  BY <1>3 DEF Match
<1>7. CASE ~Unfinished(at, target)
  <2>1. RestMatches(at, Pattern(r)) <=> MatchesPath(r, target)
    BY <1>1, <1>3, <1>5, <1>7, EndDecides, MatchIsCut
  <2>2. RestMatches(at, Pattern(r)) \in BOOLEAN
    BY DEF RestMatches
  <2> QED  BY <1>2, <1>3, <1>6, <1>7, <2>1, <2>2, ReturnInv
<1>8. CASE Unfinished(at, target) /\ Stuck(at, Pattern(r), target)
  <2>1. ~MatchesPath(r, target)
    BY <1>1, <1>3, <1>5, <1>8, StuckFails, MatchIsCut
  <2> QED  BY <1>2, <1>3, <1>6, <1>8, <2>1, ReturnInv
<1>9. CASE Unfinished(at, target) /\ ~Stuck(at, Pattern(r), target)
  <2>1. /\ at' = Iterate(at, Pattern(r), target)
        /\ pc' = pc /\ tried' = tried /\ trying' = trying /\ winner' = winner
        /\ matched' = matched
    BY <1>6, <1>9
  <2>2. Scanned(at', Pattern(r), target)
    BY <1>1, <1>3, <1>5, <1>9, <2>1, IterateScanned
  <2>3. Trying'
    BY <1>2, <1>3, <1>4, <2>1, <2>2 DEF Trying
  <2>4. TypeOK' /\ Parsed(file, line, groups)' /\ Ranked' /\ MatchesTrue' /\ DecisionTrue'
    BY <1>1, <1>2, <2>1 DEF Inv, TypeOK, Ranked, MatchesTrue, DecisionTrue
  <2> QED  BY <2>3, <2>4 DEF Inv
<1> QED  BY <1>7, <1>8, <1>9

\* Every rule meant has been tried: the winner decides.
LEMMA AllTriedInv ==
  ASSUME Inv, AllTried
  PROVE  Inv'
<1>1. /\ file \in Seq(FileLine) /\ groups \in Seq(GroupType)
      /\ Parsed(file, line, groups) /\ TypeOK /\ Trying /\ Ranked
  BY DEF Inv, TypeOK
<1>2. /\ pc = "try" /\ Untried = {} /\ pc' = "decided"
      /\ file' = file /\ target' = target /\ line' = line /\ groups' = groups
      /\ tried' = tried /\ winner' = winner /\ matched' = matched
  BY DEF AllTried, Decide
<1>3. TypeOK' /\ Parsed(file, line, groups)' /\ Ranked' /\ MatchesTrue' /\ Trying'
  BY <1>1, <1>2 DEF Inv, TypeOK, Ranked, MatchesTrue, Trying
<1>4. line = Len(file) /\ BeforeQuery(target) # RobotsPath /\ tried \subseteq Meant(file)
  BY <1>1, <1>2 DEF Trying
<1>5. Meant(file) \subseteq Rule
  BY <1>1, <1>4, Meaning
<1>6. tried = Meant(file)
  <2>1. ASSUME NEW r \in Meant(file), r \notin tried PROVE FALSE
    <3>1. PICK g \in Selected(groups) :
            \E k \in DOMAIN groups[g].rules : groups[g].rules[k] = r
      BY <1>1, <1>4, Meaning
    <3>2. PICK k \in DOMAIN groups[g].rules : groups[g].rules[k] = r
      BY <3>1
    <3>3. <<g, k>> \in Untried
      BY <2>1, <3>1, <3>2 DEF Untried
    <3> QED  BY <3>3, <1>2
  <2> QED  BY <2>1, <1>4
<1>7. CASE winner = {}
  <2>1. \A r \in Meant(file) : ~MatchesPath(r, target)
    BY <1>1, <1>6, <1>7 DEF Ranked
  <2>2. Allowed(file, target)
    BY <2>1 DEF Allowed
  <2>3. decision' = {[allowed |-> TRUE, reason |-> "no_matching_rule"]}
    BY <1>7 DEF AllTried, Decide
  <2>4. DecisionTrue'
    BY <1>2, <2>2, <2>3 DEF DecisionTrue
  <2> QED  BY <1>3, <2>4 DEF Inv
<1>8. CASE winner # {}
  <2>1. PICK w \in tried : winner = {w} /\ Best(w, tried, target)
    BY <1>1, <1>8 DEF Ranked
  <2>2. w.allowed <=> Allowed(file, target)
    BY <1>1, <1>4, <1>5, <1>6, <2>1, BestDecides
  <2>3. PICK reason : decision' = {[allowed |-> w.allowed, reason |-> reason]}
    BY <1>8, <2>1 DEF AllTried, Decide
  <2>4. DecisionTrue'
    BY <1>2, <2>2, <2>3 DEF DecisionTrue
  <2> QED  BY <1>3, <2>4 DEF Inv
<1> QED  BY <1>7, <1>8

\* The invariant: the groups hold what was read, the loop is where its invariant says,
\* and the winner is the best of what was tried.
THEOREM Invariant == Spec => []Inv
<1>1. Inv /\ [Next]_vars => Inv'
  <2> SUFFICES ASSUME Inv, [Next]_vars
               PROVE  Inv'
    OBVIOUS
  <2>1. CASE UNCHANGED vars
    <3>1. /\ file' = file /\ target' = target /\ pc' = pc /\ line' = line
          /\ groups' = groups /\ tried' = tried /\ trying' = trying /\ at' = at
          /\ winner' = winner /\ matched' = matched /\ decision' = decision
      BY <2>1 DEF vars
    <3> QED  BY <3>1 DEF Inv, TypeOK, Trying, Ranked, MatchesTrue, DecisionTrue
  <2>2. CASE Run
    BY <2>2, ReadLineInv, SelectRulesInv, TryRuleInv, MatchInv, AllTriedInv DEF Run
  <2> QED  BY <2>1, <2>2 DEF Next
<1> QED  BY InitInv, <1>1, PTL DEF Spec

\* _matches returns True exactly when the pattern can be cut to the path, whatever the
\* pattern and the path: one backtracking point is enough (policy.py:159-181).
THEOREM MatcherRight == Spec => []MatchesTrue
<1>1. Inv => MatchesTrue
  BY DEF Inv
<1> QED  BY Invariant, <1>1, PTL

\* The decision of evaluate_robots is what the lines of the file mean: however its groups
\* are spread and repeated and whatever the order of its rules (policy.py:184-228).
THEOREM DecisionRight == Spec => []DecisionTrue
<1>1. Inv => DecisionTrue
  BY DEF Inv
<1> QED  BY Invariant, <1>1, PTL
===============================================================================
