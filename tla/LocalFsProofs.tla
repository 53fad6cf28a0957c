---------------------------- MODULE LocalFsProofs ----------------------------
(***************************************************************************)
(* The properties of the local file system, for every set of processes,   *)
(* of paths and of lock files, every disk at the start and any number of  *)
(* calls.                                                                  *)
(***************************************************************************)
EXTENDS LocalFs, SequenceTheorems, TLAPS

(* -------------------------------- the disk ------------------------------ *)

Universe == Paths \cup {Dcs} \cup LockFiles

\* Every directory on the way to what is on a disk is there, and lock files
\* are files.
DiskOk(d) ==
    /\ DOMAIN d \subseteq Universe
    /\ \A p \in DOMAIN d :
         /\ d[p] \in {"file", "dir"}
         /\ \A k \in 1 .. Len(p) - 1 : Kind(d, SubSeq(p, 1, k)) = "dir"
    /\ \A p \in LockFiles : Kind(d, p) # "dir"

(* ---------------------------------- locks ------------------------------- *)

\* A process that alone locked a path is the only one to hold a path with that
\* lock file, and has it on the disk; a lock file is held, or was left behind.
LocksOk ==
    /\ \A c \in Processes : call[c].at = "unlink" => call[c].arg \in held[c]
    /\ \A h \in sole : \A e \in Processes : \A q \in held[e] :
          LockFile[q] = LockFile[h[2]] => h = <<e, q>>
    /\ LockFileHasHolder
    /\ SoleHolderIsRecorded

(* -------------------------------- list_files ---------------------------- *)

Within(p, q) == q = p \/ Under(p, q)

\* The entry of directory p that leads to q.
Toward(p, q) == SubSeq(q, 1, Len(p) + 1)

Entered(w) == w.at \in {"opendir", "stat"}

\* Where the walk is: at an entry, or back in a directory.
Focus(w) == IF Entered(w) THEN w.arg ELSE w.frames[Len(w.frames)].dir

\* A walk with frames fs whose focus is x is done with q: in one of its
\* directories it has seen the entry that leads to q, and it is not in that
\* entry any more.
CoveredBy(fs, x, q) ==
    \E i \in DOMAIN fs : /\ Under(fs[i].dir, q)
                         /\ Toward(fs[i].dir, q) \in fs[i].seen
                         /\ ~Within(Toward(fs[i].dir, q), x)

Covered(w, q) == CoveredBy(w.frames, Focus(w), q)

\* The directories that the walk is in are on one way, from where it started
\* to its focus x, and each has seen the entry that it went into.
Stacked(fs, x) ==
    /\ \A i, j \in DOMAIN fs : i <= j => Len(fs[j].dir) = Len(fs[i].dir) + (j - i)
    /\ \A i \in DOMAIN fs :
          /\ Within(fs[i].dir, x)
          /\ fs[i].dir # x => Toward(fs[i].dir, x) \in fs[i].seen

StackOk(w) ==
    /\ Stacked(w.frames, Focus(w))
    /\ w.at # "opendir" => w.frames # <<>>
    /\ Entered(w) => w.arg \in Paths
    /\ Entered(w) /\ w.frames # <<>> => w.arg \in Children(w.frames[Len(w.frames)].dir)

\* What the walk has found of a disk d of which t was touched since it began.
WalkOk(w, t, d) ==
    /\ StackOk(w)
    /\ \A i \in DOMAIN w.frames : w.frames[i].dir \notin t => Kind(d, w.frames[i].dir) = "dir"
    /\ w.at = "stat" /\ w.arg \notin t => Kind(d, w.arg) # "none"
    /\ \A p \in Paths \ t :
          Kind(d, p) = "file" /\ Covered(w, p) => \E i \in DOMAIN w.listed : w.listed[i] = p
    /\ \A i \in DOMAIN w.listed :
          /\ Covered(w, w.listed[i])
          /\ w.listed[i] \notin t => Kind(d, w.listed[i]) = "file"
    /\ \A i, j \in DOMAIN w.listed : w.listed[i] = w.listed[j] => i = j

\* ListingIsRight, of one call.
ResultOk(w, t, d) ==
    LET found(p) == {i \in DOMAIN w.listed : w.listed[i] = p}
    IN  \A p \in Paths \ t :
            Under(w.arg, p) =>
                IF Kind(d, p) = "file" THEN \E i \in DOMAIN w.listed : found(p) = {i}
                ELSE found(p) = {}

\* With a path all that is below it was touched: what is untouched has all
\* directories on the way to it untouched.
WaysUntouched(t) ==
    \A p \in Paths \ t : \A k \in 1 .. Len(p) - 1 : SubSeq(p, 1, k) \notin t

ListOk(w, t, d) ==
    /\ w.at \in Listing => WaysUntouched(t)
    /\ w.at \in {"opendir", "walk", "stat"} => WalkOk(w, t, d)
    /\ w.at = "listed" => ResultOk(w, t, d)

(* ------------------------------ the invariant --------------------------- *)

CallRecords == [at : Listing \cup {"idle", "map", "copy", "unlink"},
                arg : Paths \cup {<<>>}, dst : Paths \cup {<<>>},
                frames : Seq([dir : Paths, seen : SUBSET Paths]),
                listed : Seq(Paths)]

\* A process and a path, which it holds.
IsHeld(h, paths) == h \in Processes \X DOMAIN LockFile /\ h[2] \in paths[h[1]]

Typed ==
    /\ call \in [Processes -> CallRecords]
    /\ \A c \in Processes : call[c].at = "copy" => call[c].arg \in Paths
    /\ touched \in [Processes -> SUBSET Paths]
    /\ held \in [Processes -> SUBSET DOMAIN LockFile]
    /\ \A h \in sole : IsHeld(h, held)
    /\ left \subseteq LockFiles
    /\ calls \in [Processes -> Nat]
    /\ \A c \in Processes : calls[c] \in 0 .. MaxCalls[c]

IInv ==
    /\ Typed
    /\ DiskOk(disk)
    /\ LocksOk
    /\ \A c \in Processes : ListOk(call[c], touched[c], disk)

(* --------------------------- paths as sequences ------------------------- *)

LEMMA PrefixFacts ==
    ASSUME NEW S, NEW p \in Seq(S), NEW k \in 0 .. Len(p)
    PROVE  /\ SubSeq(p, 1, k) \in Seq(S) /\ Len(SubSeq(p, 1, k)) = k
           /\ \A i \in 1 .. k : SubSeq(p, 1, k)[i] = p[i]
OBVIOUS

LEMMA SamePath ==
    ASSUME NEW S, NEW p \in Seq(S), NEW q \in Seq(S), Len(p) = Len(q),
           \A i \in 1 .. Len(p) : p[i] = q[i]
    PROVE  p = q
BY SeqEqual

\* A prefix, element by element.
LEMMA PrefixIs ==
    ASSUME NEW S, NEW p \in Seq(S), NEW q \in Seq(S), Len(p) <= Len(q)
    PROVE  SubSeq(q, 1, Len(p)) = p <=> \A i \in 1 .. Len(p) : p[i] = q[i]
<1> DEFINE r == SubSeq(q, 1, Len(p))
<1>1. Len(p) \in 0 .. Len(q)
  OBVIOUS
<1>2. r \in Seq(S) /\ Len(r) = Len(p) /\ \A i \in 1 .. Len(p) : r[i] = q[i]
  BY <1>1, PrefixFacts
<1> HIDE DEF r
<1>3. r = p <=> \A i \in 1 .. Len(p) : p[i] = q[i]
  BY <1>2, SamePath
<1> QED BY <1>3 DEF r

LEMMA UnderIs ==
    ASSUME NEW S, NEW p \in Seq(S), NEW q \in Seq(S)
    PROVE  Under(p, q) <=> Len(q) > Len(p) /\ \A i \in 1 .. Len(p) : p[i] = q[i]
<1>1. Len(p) \in Nat /\ Len(q) \in Nat
  OBVIOUS
<1>2. CASE Len(q) > Len(p)
  BY <1>1, <1>2, PrefixIs DEF Under
<1>3. CASE ~(Len(q) > Len(p))
  BY <1>3 DEF Under
<1> QED BY <1>2, <1>3

LEMMA WithinIs ==
    ASSUME NEW S, NEW p \in Seq(S), NEW q \in Seq(S)
    PROVE  Within(p, q) <=> Len(q) >= Len(p) /\ \A i \in 1 .. Len(p) : p[i] = q[i]
<1>1. Len(p) \in Nat /\ Len(q) \in Nat
  OBVIOUS
<1>2. CASE Len(q) > Len(p)
  <2>1. p # q
    BY <1>1, <1>2
  <2> QED BY <1>1, <1>2, <2>1, UnderIs DEF Within
<1>3. CASE Len(q) = Len(p)
  <2>1. ~Under(p, q)
    BY <1>1, <1>3 DEF Under
  <2>2. p = q <=> \A i \in 1 .. Len(p) : p[i] = q[i]
    BY <1>3, SamePath
  <2> QED BY <1>1, <1>3, <2>1, <2>2 DEF Within
<1>4. CASE Len(q) < Len(p)
  <2>1. ~Under(p, q) /\ p # q
    BY <1>1, <1>4 DEF Under
  <2> QED BY <1>1, <1>4, <2>1 DEF Within
<1> QED BY <1>1, <1>2, <1>3, <1>4

\* The ways to a path, and to what they lead.
LEMMA WayFacts ==
    ASSUME NEW S, NEW p \in Seq(S), NEW k \in 1 .. Len(p)
    PROVE  /\ Within(SubSeq(p, 1, k), p)
           /\ k < Len(p) => Under(SubSeq(p, 1, k), p)
           /\ \A j \in 1 .. k : SubSeq(SubSeq(p, 1, k), 1, j) = SubSeq(p, 1, j)
<1> DEFINE q == SubSeq(p, 1, k)
<1>1. k \in 0 .. Len(p) /\ Len(p) \in Nat /\ k \in Nat
  OBVIOUS
<1>2. q \in Seq(S) /\ Len(q) = k /\ \A i \in 1 .. k : q[i] = p[i]
  BY <1>1, PrefixFacts
<1> HIDE DEF q
<1>3. Within(q, p) /\ (k < Len(p) => Under(q, p))
  BY <1>1, <1>2, WithinIs, UnderIs
<1>4. ASSUME NEW j \in 1 .. k PROVE SubSeq(q, 1, j) = SubSeq(p, 1, j)
  <2> DEFINE a == SubSeq(q, 1, j)
             b == SubSeq(p, 1, j)
  <2>1. j \in 0 .. Len(q) /\ j \in 0 .. Len(p) /\ \A i \in 1 .. j : i \in 1 .. k
    BY <1>1, <1>2
  <2>2. a \in Seq(S) /\ Len(a) = j /\ \A i \in 1 .. j : a[i] = q[i]
    BY <1>2, <2>1, PrefixFacts
  <2>3. b \in Seq(S) /\ Len(b) = j /\ \A i \in 1 .. j : b[i] = p[i]
    BY <2>1, PrefixFacts
  <2> HIDE DEF a, b
  <2>4. a = b
    BY <1>2, <2>1, <2>2, <2>3, SamePath
  <2> QED BY <2>4 DEF a, b
<1> QED BY <1>3, <1>4 DEF q

\* What is within p has p on its way.
LEMMA WithinWay ==
    ASSUME NEW S, NEW p \in Seq(S), NEW q \in Seq(S), Within(p, q)
    PROVE  Len(p) <= Len(q) /\ SubSeq(q, 1, Len(p)) = p
<1>1. Len(p) <= Len(q) /\ \A i \in 1 .. Len(p) : p[i] = q[i]
  BY WithinIs
<1> QED BY <1>1, PrefixIs

LEMMA WithinTrans ==
    ASSUME NEW S, NEW p \in Seq(S), NEW q \in Seq(S), NEW r \in Seq(S),
           Within(p, q), Within(q, r)
    PROVE  Within(p, r)
<1>1. Len(p) \in Nat /\ Len(q) \in Nat /\ Len(r) \in Nat
  OBVIOUS
<1>2. Len(p) <= Len(q) /\ \A i \in 1 .. Len(p) : p[i] = q[i]
  BY WithinIs
<1>3. Len(q) <= Len(r) /\ \A i \in 1 .. Len(q) : q[i] = r[i]
  BY WithinIs
<1>4. Len(p) <= Len(r) /\ \A i \in 1 .. Len(p) : p[i] = r[i]
  BY <1>1, <1>2, <1>3
<1> QED BY <1>4, WithinIs

\* Two sequences, one after the other.
LEMMA JoinedFacts ==
    ASSUME NEW S, NEW a \in Seq(S), NEW b \in Seq(S)
    PROVE  /\ a \o b \in Seq(S) /\ Len(a \o b) = Len(a) + Len(b)
           /\ \A i \in 1 .. Len(a) : (a \o b)[i] = a[i]
           /\ \A i \in Len(a) + 1 .. Len(a) + Len(b) : (a \o b)[i] = b[i - Len(a)]
OBVIOUS

\* x is what becomes of r, which is within p, when p is renamed to q.
IsRenamed(S, p, q, r, x) ==
    /\ x \in Seq(S) /\ Len(x) = Len(q) + (Len(r) - Len(p))
    /\ \A i \in 1 .. Len(q) : x[i] = q[i]
    /\ \A i \in Len(q) + 1 .. Len(x) : x[i] = r[Len(p) + (i - Len(q))]
    /\ Within(q, x)

LEMMA RenamedFacts ==
    ASSUME NEW S, NEW p \in Seq(S), NEW q \in Seq(S), NEW r \in Seq(S), Within(p, r)
    PROVE  IsRenamed(S, p, q, r, Renamed(p, q, r))
<1> DEFINE y == SubSeq(r, Len(p) + 1, Len(r))
<1>1. Len(p) \in Nat /\ Len(q) \in Nat /\ Len(r) \in Nat /\ Len(p) <= Len(r)
  BY WithinIs
<1>2. /\ y \in Seq(S) /\ Len(y) = Len(r) - Len(p)
      /\ \A i \in 1 .. Len(y) : y[i] = r[Len(p) + i]
  BY <1>1
<1> HIDE DEF y
<1>3. PICK x : x = Renamed(p, q, r) /\ x = q \o y
  BY DEF Renamed, y
<1>4. /\ x \in Seq(S) /\ Len(x) = Len(q) + Len(y)
      /\ \A i \in 1 .. Len(q) : x[i] = q[i]
      /\ \A i \in Len(q) + 1 .. Len(q) + Len(y) : x[i] = y[i - Len(q)]
  <2>1. y \in Seq(S)
    BY <1>2
  <2> QED BY <1>3, <2>1, JoinedFacts
<1>5. ASSUME NEW i \in Len(q) + 1 .. Len(x)
      PROVE  x[i] = r[Len(p) + (i - Len(q))]
  <2>1. Len(x) = Len(q) + Len(y) /\ Len(q) \in Nat /\ Len(y) \in Nat
    BY <1>1, <1>2, <1>4
  <2>2. i - Len(q) \in 1 .. Len(y) /\ i \in Len(q) + 1 .. Len(q) + Len(y)
    BY <2>1
  <2> QED BY <1>2, <1>4, <2>2
<1>6. Within(q, x)
  <2>1. Len(x) >= Len(q)
    BY <1>1, <1>2, <1>4
  <2> QED BY <1>4, <2>1, WithinIs
<1> QED BY <1>2, <1>3, <1>4, <1>5, <1>6 DEF IsRenamed

LEMMA RenamedBack ==
    ASSUME NEW S, NEW p \in Seq(S), NEW q \in Seq(S), NEW r \in Seq(S), Within(p, r)
    PROVE  Renamed(q, p, Renamed(p, q, r)) = r
<1> DEFINE x == Renamed(p, q, r)
           z == Renamed(q, p, x)
<1>1. Len(p) \in Nat /\ Len(q) \in Nat /\ Len(r) \in Nat
  OBVIOUS
<1>2. Len(p) <= Len(r) /\ \A i \in 1 .. Len(p) : p[i] = r[i]
  BY WithinIs
<1>3. /\ x \in Seq(S) /\ Len(x) = Len(q) + (Len(r) - Len(p))
      /\ \A i \in Len(q) + 1 .. Len(x) : x[i] = r[Len(p) + (i - Len(q))]
      /\ Within(q, x)
  <2>1. IsRenamed(S, p, q, r, x)
    BY RenamedFacts
  <2> QED BY <2>1 DEF IsRenamed
<1> HIDE DEF x
<1>4. /\ z \in Seq(S) /\ Len(z) = Len(p) + (Len(x) - Len(q))
      /\ \A i \in 1 .. Len(p) : z[i] = p[i]
      /\ \A i \in Len(p) + 1 .. Len(z) : z[i] = x[Len(q) + (i - Len(p))]
  <2>1. IsRenamed(S, q, p, x, z)
    BY <1>3, RenamedFacts
  <2> QED BY <2>1 DEF IsRenamed
<1> HIDE DEF z
<1>5. PICK m \in Nat : Len(r) = Len(p) + m
  <2>1. Len(r) - Len(p) \in Nat /\ Len(r) = Len(p) + (Len(r) - Len(p))
    BY <1>1, <1>2
  <2> QED BY <2>1
<1>6. Len(x) = Len(q) + m /\ Len(z) = Len(r)
  BY <1>1, <1>3, <1>4, <1>5
<1>7. ASSUME NEW i \in 1 .. Len(r) PROVE z[i] = r[i]
  <2>1. CASE i <= Len(p)
    BY <1>1, <1>2, <1>4, <2>1
  <2>2. CASE i > Len(p)
    <3>1. PICK n \in 1 .. m : i = Len(p) + n
      <4>1. i - Len(p) \in 1 .. m /\ i = Len(p) + (i - Len(p))
        BY <1>1, <1>5, <2>2
      <4> QED BY <4>1
    <3>2. /\ i \in Len(p) + 1 .. Len(z) /\ i - Len(p) = n
          /\ Len(q) + n \in Len(q) + 1 .. Len(x) /\ (Len(q) + n) - Len(q) = n
      BY <1>1, <1>5, <1>6, <3>1
    <3>3. z[i] = x[Len(q) + n]
      BY <1>4, <3>2
    <3>4. x[Len(q) + n] = r[Len(p) + n]
      BY <1>3, <3>2
    <3> QED BY <3>1, <3>3, <3>4
  <2> QED BY <1>1, <2>1, <2>2
<1>8. z = r
  BY <1>4, <1>6, <1>7, SamePath
<1> QED BY <1>8 DEF x, z

\* The ways to a renamed path below its new name are the renamed ways.
LEMMA RenamedWay ==
    ASSUME NEW S, NEW p \in Seq(S), NEW q \in Seq(S), NEW r \in Seq(S), Within(p, r),
           NEW n \in Nat, Len(p) + n <= Len(r)
    PROVE  /\ Within(p, SubSeq(r, 1, Len(p) + n))
           /\ SubSeq(Renamed(p, q, r), 1, Len(q) + n) = Renamed(p, q, SubSeq(r, 1, Len(p) + n))
<1> DEFINE x == Renamed(p, q, r)
           j == Len(p) + n
           k == Len(q) + n
<1>1. /\ Len(p) \in Nat /\ Len(q) \in Nat /\ Len(r) \in Nat
      /\ j \in 0 .. Len(r) /\ k \in Nat
  OBVIOUS
<1>2. Len(p) <= Len(r) /\ \A i \in 1 .. Len(p) : p[i] = r[i]
  BY WithinIs
<1>3. /\ x \in Seq(S) /\ Len(x) = Len(q) + (Len(r) - Len(p))
      /\ \A i \in 1 .. Len(q) : x[i] = q[i]
      /\ \A i \in Len(q) + 1 .. Len(x) : x[i] = r[Len(p) + (i - Len(q))]
  <2>1. IsRenamed(S, p, q, r, x)
    BY RenamedFacts
  <2> QED BY <2>1 DEF IsRenamed
<1> HIDE DEF x
<1> DEFINE a == SubSeq(r, 1, j)
           b == SubSeq(x, 1, k)
           c == Renamed(p, q, a)
<1>4. k \in 0 .. Len(x)
  BY <1>1, <1>2, <1>3
<1>5. a \in Seq(S) /\ Len(a) = j /\ \A i \in 1 .. j : a[i] = r[i]
  BY <1>1, PrefixFacts
<1>6. b \in Seq(S) /\ Len(b) = k /\ \A i \in 1 .. k : b[i] = x[i]
  BY <1>3, <1>4, PrefixFacts
<1> HIDE DEF a, b
<1>7. Within(p, a)
  <2>1. Len(a) >= Len(p) /\ \A i \in 1 .. Len(p) : i \in 1 .. j
    BY <1>1, <1>5
  <2> QED BY <1>2, <1>5, <2>1, WithinIs
<1>8. /\ c \in Seq(S) /\ Len(c) = Len(q) + (Len(a) - Len(p))
      /\ \A i \in 1 .. Len(q) : c[i] = q[i]
      /\ \A i \in Len(q) + 1 .. Len(c) : c[i] = a[Len(p) + (i - Len(q))]
  <2>1. IsRenamed(S, p, q, a, c)
    BY <1>5, <1>7, RenamedFacts
  <2> QED BY <2>1 DEF IsRenamed
<1> HIDE DEF c
<1>9. Len(c) = k
  BY <1>1, <1>5, <1>8
<1>10. ASSUME NEW i \in 1 .. k PROVE b[i] = c[i]
  <2>1. CASE i <= Len(q)
    <3>1. i \in 1 .. Len(q)
      BY <1>1, <2>1
    <3> QED BY <1>3, <1>6, <1>8, <3>1
  <2>2. CASE i > Len(q)
    <3>1. PICK h \in 1 .. n : i = Len(q) + h
      <4>1. i - Len(q) \in 1 .. n /\ i = Len(q) + (i - Len(q))
        BY <1>1, <2>2
      <4> QED BY <4>1
    <3>2. /\ i \in Len(q) + 1 .. Len(c) /\ i \in Len(q) + 1 .. Len(x) /\ i - Len(q) = h
          /\ Len(p) + h \in 1 .. j
      BY <1>1, <1>4, <1>9, <3>1
    <3>3. b[i] = r[Len(p) + h]
      BY <1>3, <1>6, <3>2
    <3>4. c[i] = a[Len(p) + h]
      BY <1>8, <3>2
    <3> QED BY <1>5, <3>2, <3>3, <3>4
  <2> QED BY <1>1, <2>1, <2>2
<1>11. b = c
  BY <1>6, <1>8, <1>9, <1>10, SamePath
<1> QED BY <1>7, <1>11 DEF a, b, c, x

LEMMA UnderTrans ==
    ASSUME NEW S, NEW p \in Seq(S), NEW q \in Seq(S), NEW r \in Seq(S),
           Within(p, q), Under(q, r)
    PROVE  Under(p, r)
<1>1. Len(p) \in Nat /\ Len(q) \in Nat /\ Len(r) \in Nat
  OBVIOUS
<1>2. Len(p) <= Len(q) /\ \A i \in 1 .. Len(p) : p[i] = q[i]
  BY WithinIs
<1>3. Len(q) < Len(r) /\ \A i \in 1 .. Len(q) : q[i] = r[i]
  BY UnderIs
<1>4. Len(p) < Len(r) /\ \A i \in 1 .. Len(p) : p[i] = r[i]
  BY <1>1, <1>2, <1>3
<1> QED BY <1>4, UnderIs

(* -------------------------------- the disk ------------------------------ *)

\* The paths that there can be: those of the programs are outside the
\* directory of the lock files.
LEMMA UniverseFacts ==
    /\ \A p \in Universe : p \in Seq(STRING) /\ Len(p) \in Nat /\ Len(p) >= 1
    /\ \A p \in Paths : p \in Universe /\ p[1] # Dcs[1]
    /\ \A p \in LockFiles : p \in Universe /\ p[1] = Dcs[1] /\ Len(p) = 2
    /\ Dcs \in Universe
    /\ \A p \in Universe : p[1] # Dcs[1] => p \in Paths
    /\ \A p \in Universe : p[1] = Dcs[1] => p = Dcs \/ p \in LockFiles
    /\ Len(Dcs) = 1
<1>1. \A p \in Paths : p \in Seq(STRING) /\ p # <<>> /\ p[1] # Dcs[1]
  BY LocalFsAssumption
<1>2. \A p \in Paths : Len(p) \in Nat /\ Len(p) >= 1
  BY <1>1
<1>3. Dcs \in Seq(STRING) /\ Len(Dcs) = 1
  BY LocalFsAssumption
<1>4. \A p \in LockFiles : p \in Seq(STRING) /\ Len(p) = 2 /\ p[1] = Dcs[1]
  BY LocalFsAssumption DEF LockFiles
<1> QED BY <1>1, <1>2, <1>3, <1>4 DEF Universe

\* What a change does to the kind of every path.
LEMMA KindWithout ==
    ASSUME NEW d, NEW p
    PROVE  /\ DOMAIN Without(d, p) = DOMAIN d \ {p}
           /\ Kind(Without(d, p), p) = "none"
           /\ \A q : q # p => Kind(Without(d, p), q) = Kind(d, q)
BY DEF Without, Kind

LEMMA DiskFacts ==
    ASSUME NEW d, DiskOk(d)
    PROVE  /\ \A p : Kind(d, p) # "none" <=> p \in DOMAIN d
           /\ \A p \in DOMAIN d : /\ p \in Universe
                                  /\ d[p] \in {"file", "dir"} /\ Kind(d, p) = d[p]
           /\ \A p \in DOMAIN d : \A k \in 1 .. Len(p) - 1 : Kind(d, SubSeq(p, 1, k)) = "dir"
BY DEF DiskOk, Kind

\* DiskOk, in terms of kinds.
LEMMA KindsOk ==
    ASSUME NEW d, DOMAIN d \subseteq Universe,
           \A p \in DOMAIN d : Kind(d, p) \in {"file", "dir"},
           \A p \in DOMAIN d : \A k \in 1 .. Len(p) - 1 : Kind(d, SubSeq(p, 1, k)) = "dir",
           \A p \in LockFiles : Kind(d, p) # "dir"
    PROVE  DiskOk(d)
BY DEF DiskOk, Kind

\* Nothing changes for the lock files and their directory.
SameLocks(d, new) == \A p \in LockFiles \cup {Dcs} : Kind(new, p) = Kind(d, p)

\* What is under a path of the programs is one of their paths, and the entry
\* that leads to it is a child of that path.
LEMMA UnderFacts ==
    ASSUME NEW p \in Paths, NEW r \in Universe, Under(p, r)
    PROVE  /\ p \in Seq(STRING) /\ r \in Seq(STRING)
           /\ r \in Paths /\ Len(p) + 1 \in 1 .. Len(r)
           /\ Len(p) \in 1 .. Len(r) - 1 /\ SubSeq(r, 1, Len(p)) = p
           /\ Toward(p, r) \in Seq(STRING) /\ Len(Toward(p, r)) = Len(p) + 1
           /\ Under(p, Toward(p, r)) /\ Within(Toward(p, r), r)
<1>1. /\ p \in Seq(STRING) /\ Len(p) \in Nat /\ Len(p) >= 1 /\ p[1] # Dcs[1]
      /\ r \in Seq(STRING) /\ Len(r) \in Nat
  BY UniverseFacts
<1>2. Len(r) > Len(p) /\ \A i \in 1 .. Len(p) : p[i] = r[i]
  BY <1>1, UnderIs
<1>3. r[1] # Dcs[1]
  BY <1>1, <1>2
<1>4. r \in Paths
  BY <1>3, UniverseFacts
<1>5. Len(p) + 1 \in 1 .. Len(r) /\ Len(p) + 1 \in 0 .. Len(r) /\ Len(p) \in 1 .. Len(r) - 1
  BY <1>1, <1>2
<1>6. SubSeq(r, 1, Len(p)) = p
  BY DEF Under
<1> DEFINE t == SubSeq(r, 1, Len(p) + 1)
<1>7. t \in Seq(STRING) /\ Len(t) = Len(p) + 1 /\ \A i \in 1 .. Len(p) + 1 : t[i] = r[i]
  BY <1>1, <1>5, PrefixFacts
<1>8. Within(t, r)
  BY <1>1, <1>5, WayFacts
<1> HIDE DEF t
<1>9. Under(p, t)
  <2>1. Len(t) > Len(p) /\ \A i \in 1 .. Len(p) : p[i] = t[i]
    BY <1>1, <1>2, <1>7
  <2> QED BY <1>1, <1>7, <2>1, UnderIs
<1> QED BY <1>1, <1>4, <1>5, <1>6, <1>7, <1>8, <1>9 DEF t, Toward

\* On a disk the way to what is under a path goes through a child of it.
LEMMA OnTheWay ==
    ASSUME NEW d, DiskOk(d), NEW p \in Paths, NEW r \in DOMAIN d, Under(p, r)
    PROVE  /\ Kind(d, p) = "dir" /\ r \in Paths
           /\ Toward(p, r) \in Children(p) /\ Kind(d, Toward(p, r)) # "none"
           /\ Toward(p, r) # r => Kind(d, Toward(p, r)) = "dir"
<1>1. r \in Universe
  BY DiskFacts
<1>2. /\ p \in Seq(STRING) /\ r \in Seq(STRING)
      /\ r \in Paths /\ Len(p) + 1 \in 1 .. Len(r)
      /\ Len(p) \in 1 .. Len(r) - 1 /\ SubSeq(r, 1, Len(p)) = p
      /\ Toward(p, r) \in Seq(STRING) /\ Len(Toward(p, r)) = Len(p) + 1
      /\ Under(p, Toward(p, r)) /\ Within(Toward(p, r), r)
  BY <1>1, UnderFacts
<1>3. Kind(d, p) = "dir"
  <2>1. Kind(d, SubSeq(r, 1, Len(p))) = "dir"
    BY <1>2, DiskFacts
  <2> QED BY <1>2, <2>1
<1>4. CASE Toward(p, r) = r
  BY <1>2, <1>3, <1>4, DiskFacts DEF Children
<1>5. CASE Toward(p, r) # r
  <2>1. Len(p) + 1 \in 1 .. Len(r) - 1
    <3>1. Len(p) + 1 # Len(r)
      <4>1. ASSUME Len(p) + 1 = Len(r) PROVE FALSE
        <5>1. SubSeq(r, 1, Len(r)) = r
          BY <1>2
        <5> QED BY <1>5, <4>1, <5>1 DEF Toward
      <4> QED BY <4>1
    <3> QED BY <1>2, <3>1
  <2>2. Kind(d, Toward(p, r)) = "dir"
    BY <2>1, DiskFacts DEF Toward
  <2>3. Toward(p, r) \in DOMAIN d
    BY <2>2, DiskFacts
  <2>4. Toward(p, r) \in Paths
    BY <1>2, <2>3, DiskFacts, UnderFacts
  <2> QED BY <1>2, <1>3, <2>2, <2>4 DEF Children
<1> QED BY <1>4, <1>5

\* An empty directory has nothing under it, and neither has a lock file.
LEMMA NothingUnder ==
    ASSUME NEW d, DiskOk(d), NEW p, (p \in Paths /\ IsEmpty(d, p)) \/ p \in LockFiles
    PROVE  \A r \in DOMAIN d : ~Under(p, r)
<1>1. ASSUME p \in Paths, IsEmpty(d, p), NEW r \in DOMAIN d, Under(p, r)
      PROVE  FALSE
  BY <1>1, OnTheWay DEF IsEmpty
<1>2. ASSUME p \in LockFiles, NEW r \in DOMAIN d, Under(p, r)
      PROVE  FALSE
  <2>1. r \in Seq(STRING) /\ Len(r) \in Nat /\ Len(p) = 2 /\ p \in Seq(STRING)
    BY <1>2, DiskFacts, UniverseFacts
  <2>2. Len(r) > Len(p) /\ SubSeq(r, 1, Len(p)) = p
    BY <1>2 DEF Under
  <2>3. Len(p) \in 1 .. Len(r) - 1
    BY <2>1, <2>2
  <2>4. Kind(d, p) = "dir"
    BY <2>2, <2>3, DiskFacts
  <2> QED BY <1>2, <2>4 DEF DiskOk
<1> QED BY <1>1, <1>2

\* What has a place has all the directories on the way to it.
LEMMA PlaceWays ==
    ASSUME NEW d, DiskOk(d), NEW p \in Universe, HasPlace(d, p)
    PROVE  \A k \in 1 .. Len(p) - 1 : Kind(d, SubSeq(p, 1, k)) = "dir"
<1>1. p \in Seq(STRING) /\ Len(p) \in Nat /\ Len(p) >= 1
  BY UniverseFacts
<1>2. ASSUME NEW k \in 1 .. Len(p) - 1 PROVE Kind(d, SubSeq(p, 1, k)) = "dir"
  <2> DEFINE q == SubSeq(p, 1, Len(p) - 1)
  <2>1. Len(p) > 1 /\ Len(p) - 1 \in 1 .. Len(p) /\ Len(p) - 1 \in 0 .. Len(p)
    BY <1>1
  <2>2. Kind(d, q) = "dir"
    <3>1. PICK n \in Nat : n = Len(p)
      BY <1>1
    <3>2. n # 1
      BY <2>1, <3>1
    <3> QED BY <3>1, <3>2 DEF HasPlace
  <2>3. q \in DOMAIN d
    BY <2>2, DiskFacts
  <2>4. Len(q) = Len(p) - 1
    BY <1>1, <2>1, PrefixFacts
  <2>5. SubSeq(q, 1, k) = SubSeq(p, 1, k)
    BY <1>1, <2>1, WayFacts
  <2> HIDE DEF q
  <2>6. CASE k = Len(p) - 1
    BY <2>2, <2>6 DEF q
  <2>7. CASE k # Len(p) - 1
    <3>1. k \in 1 .. Len(q) - 1
      BY <1>1, <2>4, <2>7
    <3> QED BY <2>3, <2>5, <3>1, DiskFacts
  <2> QED BY <2>6, <2>7
<1> QED BY <1>2

\* A file or a directory is made where it has a place.
LEMMA WithOk ==
    ASSUME NEW d, DiskOk(d), NEW p \in Paths \cup LockFiles, NEW kind \in {"file", "dir"},
           HasPlace(d, p), Kind(d, p) # "dir", p \in LockFiles => kind = "file"
    PROVE  DiskOk(With(d, p, kind)) /\ (p \in Paths => SameLocks(d, With(d, p, kind)))
<1> DEFINE new == With(d, p, kind)
<1>1. p \in Universe /\ p \in Seq(STRING) /\ Len(p) \in Nat /\ Len(p) >= 1
  BY UniverseFacts
<1>2. /\ DOMAIN new = DOMAIN d \cup {p} /\ Kind(new, p) = kind
      /\ \A q : q # p => Kind(new, q) = Kind(d, q)
  BY DEF With, Kind
<1> HIDE DEF new
<1>3. \A q : Kind(d, q) = "dir" => Kind(new, q) = "dir"
  BY <1>2
<1>4. \A k \in 1 .. Len(p) - 1 : Kind(d, SubSeq(p, 1, k)) = "dir"
  BY <1>1, PlaceWays
<1>5. \A r \in DOMAIN new : \A k \in 1 .. Len(r) - 1 : Kind(new, SubSeq(r, 1, k)) = "dir"
  BY <1>2, <1>3, <1>4, DiskFacts
<1>6. \A r \in DOMAIN new : r \in Universe /\ Kind(new, r) \in {"file", "dir"}
  BY <1>1, <1>2, DiskFacts
<1>7. \A r \in LockFiles : Kind(new, r) # "dir"
  BY <1>2 DEF DiskOk
<1>8. p \in Paths => SameLocks(d, new)
  <2>1. p \in Paths => p \notin LockFiles /\ p # Dcs
    BY UniverseFacts
  <2> QED BY <1>2, <2>1 DEF SameLocks
<1>9. DiskOk(new)
  BY <1>5, <1>6, <1>7, KindsOk
<1> QED BY <1>8, <1>9 DEF new

LEMMA CreatedOk ==
    ASSUME NEW d, DiskOk(d), NEW p \in Paths \cup LockFiles
    PROVE  DiskOk(Created(d, p)) /\ (p \in Paths => SameLocks(d, Created(d, p)))
<1>1. SameLocks(d, d)
  BY DEF SameLocks
<1> QED BY <1>1, WithOk DEF Created

LEMMA MadeDirectoryOk ==
    ASSUME NEW d, DiskOk(d), NEW p \in Paths
    PROVE  DiskOk(MadeDirectory(d, p)) /\ SameLocks(d, MadeDirectory(d, p))
<1>1. SameLocks(d, d) /\ p \notin LockFiles
  BY UniverseFacts DEF SameLocks
<1> QED BY <1>1, WithOk DEF MadeDirectory

LEMMA CopiedFileOk ==
    ASSUME NEW d, DiskOk(d), NEW p, NEW q
    PROVE  DiskOk(CopiedFile(d, p, q)) /\ SameLocks(d, CopiedFile(d, p, q))
<1>1. SameLocks(d, d)
  BY DEF SameLocks
<1>2. \A t \in Paths : HasPlace(d, t) /\ Kind(d, t) = "none" =>
         DiskOk(With(d, t, "file")) /\ SameLocks(d, With(d, t, "file"))
  BY WithOk
<1>3. PICK t : t = IF Kind(d, q) = "dir" THEN q \o <<p[Len(p)]>> ELSE q
  OBVIOUS
<1>4. CopiedFile(d, p, q) =
        IF t \in Paths /\ HasPlace(d, t) /\ Kind(d, t) = "none" THEN With(d, t, "file") ELSE d
  BY <1>3 DEF CopiedFile
<1> QED BY <1>1, <1>2, <1>4

\* A file or an empty directory is removed.
LEMMA RemovedOk ==
    ASSUME NEW d, DiskOk(d), NEW p \in Paths \cup LockFiles
    PROVE  /\ DiskOk(Removed(d, p))
           /\ p \in Paths => SameLocks(d, Removed(d, p))
<1>1. CASE Removed(d, p) = d
  BY <1>1 DEF SameLocks
<1>2. CASE Removed(d, p) # d
  <2> DEFINE new == Without(d, p)
  <2>1. Removed(d, p) = new /\ IsEmpty(d, p)
    BY <1>2 DEF Removed
  <2>2. /\ DOMAIN new = DOMAIN d \ {p} /\ Kind(new, p) = "none"
        /\ \A q : q # p => Kind(new, q) = Kind(d, q)
    BY KindWithout
  <2> HIDE DEF new
  <2>3. \A r \in DOMAIN d : ~Under(p, r)
    BY <2>1, NothingUnder
  <2>4. ASSUME NEW r \in DOMAIN new, NEW k \in 1 .. Len(r) - 1
        PROVE  Kind(new, SubSeq(r, 1, k)) = "dir"
    <3>1. r \in DOMAIN d /\ r \in Seq(STRING) /\ Len(r) \in Nat
      BY <2>2, DiskFacts, UniverseFacts
    <3>2. k \in 1 .. Len(r) /\ k < Len(r)
      BY <3>1
    <3>3. Under(SubSeq(r, 1, k), r)
      BY <3>1, <3>2, WayFacts
    <3> QED BY <2>2, <2>3, <3>1, <3>3, DiskFacts
  <2>5. \A r \in DOMAIN new : r \in Universe /\ Kind(new, r) \in {"file", "dir"}
    BY <2>2, DiskFacts
  <2>6. \A r \in LockFiles : Kind(new, r) # "dir"
    BY <2>2 DEF DiskOk
  <2>7. p \in Paths => SameLocks(d, new)
    <3>1. p \in Paths => p \notin LockFiles /\ p # Dcs
      BY UniverseFacts
    <3> QED BY <2>2, <3>1 DEF SameLocks
  <2>8. DiskOk(new)
    BY <2>4, <2>5, <2>6, KindsOk
  <2> QED BY <2>1, <2>7, <2>8
<1> QED BY <1>1, <1>2

\* What a rename does to the kind of every path.
LEMMA KindMoved ==
    ASSUME NEW d, DiskOk(d), NEW p \in Paths, NEW q \in Paths, NEW new, new = Moved(d, p, q)
    PROVE  /\ \A r \in DOMAIN d : Within(p, r) =>
                /\ Renamed(p, q, r) \in DOMAIN new
                /\ Kind(new, Renamed(p, q, r)) = Kind(d, r)
           /\ \A x \in DOMAIN d : ~Within(p, x) /\ ~Within(q, x) =>
                x \in DOMAIN new /\ Kind(new, x) = Kind(d, x)
           /\ \A x \in DOMAIN new :
                \/ \E r \in DOMAIN d : Within(p, r) /\ x = Renamed(p, q, r) /\ Within(q, x)
                \/ x \in DOMAIN d /\ ~Within(p, x) /\ Kind(new, x) = Kind(d, x)
<1> DEFINE moving == {r \in DOMAIN d : Within(p, r)}
           there  == {Renamed(p, q, r) : r \in moving}
<1>1. new = [r \in (DOMAIN d \ moving) \cup there |->
                IF r \in there THEN d[Renamed(q, p, r)] ELSE d[r]]
  BY DEF Moved, Within
<1>2. p \in Seq(STRING) /\ q \in Seq(STRING) /\ \A r \in DOMAIN d : r \in Seq(STRING)
  BY DiskFacts, UniverseFacts
<1>3. \A r \in moving : Renamed(q, p, Renamed(p, q, r)) = r
  BY <1>2, RenamedBack
<1>4. \A x \in there : Within(q, x)
  BY <1>2, RenamedFacts DEF IsRenamed
<1> HIDE DEF there
<1>5. /\ DOMAIN new = (DOMAIN d \ moving) \cup there
      /\ \A x \in there : new[x] = d[Renamed(q, p, x)]
      /\ \A x \in DOMAIN d \ moving : x \notin there => new[x] = d[x]
  BY <1>1
<1>6. \A r \in moving : Renamed(p, q, r) \in there
  BY DEF there
<1>7. \A x \in there : \E r \in moving : x = Renamed(p, q, r)
  BY DEF there
<1>8. ASSUME NEW r \in moving
      PROVE  Renamed(p, q, r) \in DOMAIN new /\ Kind(new, Renamed(p, q, r)) = Kind(d, r)
  BY <1>3, <1>5, <1>6 DEF Kind
<1>9. ASSUME NEW x \in DOMAIN d \ moving, x \notin there
      PROVE  x \in DOMAIN new /\ Kind(new, x) = Kind(d, x)
  BY <1>5, <1>9 DEF Kind
<1>10. ASSUME NEW x \in DOMAIN new
       PROVE  \/ \E r \in DOMAIN d : Within(p, r) /\ x = Renamed(p, q, r) /\ Within(q, x)
              \/ x \in DOMAIN d /\ ~Within(p, x) /\ Kind(new, x) = Kind(d, x)
  <2>1. CASE x \in there
    BY <1>4, <1>7, <2>1
  <2>2. CASE x \notin there
    BY <1>5, <1>9, <2>2
  <2> QED BY <2>1, <2>2
<1> QED BY <1>4, <1>8, <1>9, <1>10

\* What a rename moves has a place where it goes, and nothing loses its own:
\* only a file, or a directory with nothing under it, is replaced.
LEMMA MovedOk ==
    ASSUME NEW d, DiskOk(d), NEW p \in Paths, NEW q \in Paths, CanMove(d, p, q),
           DOMAIN Moved(d, p, q) \subseteq Paths \cup DOMAIN d
    PROVE  DiskOk(Moved(d, p, q)) /\ SameLocks(d, Moved(d, p, q))
<1>1. PICK new : new = Moved(d, p, q)
  OBVIOUS
<1>2. /\ \A r \in DOMAIN d : Within(p, r) =>
           /\ Renamed(p, q, r) \in DOMAIN new
           /\ Kind(new, Renamed(p, q, r)) = Kind(d, r)
      /\ \A x \in DOMAIN d : ~Within(p, x) /\ ~Within(q, x) =>
           x \in DOMAIN new /\ Kind(new, x) = Kind(d, x)
      /\ \A x \in DOMAIN new :
           \/ \E r \in DOMAIN d : Within(p, r) /\ x = Renamed(p, q, r) /\ Within(q, x)
           \/ x \in DOMAIN d /\ ~Within(p, x) /\ Kind(new, x) = Kind(d, x)
  BY <1>1, KindMoved
<1>3. /\ p \in Seq(STRING) /\ Len(p) \in Nat /\ Len(p) >= 1 /\ p[1] # Dcs[1]
      /\ q \in Seq(STRING) /\ Len(q) \in Nat /\ Len(q) >= 1 /\ q[1] # Dcs[1]
      /\ q \in Universe
  BY UniverseFacts
<1>4. \A x \in DOMAIN new : x \in Universe /\ x \in Seq(STRING) /\ Len(x) \in Nat
  <2>1. DOMAIN new \subseteq Universe
    BY <1>1, DiskFacts, UniverseFacts
  <2> QED BY <2>1, UniverseFacts
<1>5. \A x \in DOMAIN d : x \in Universe /\ x \in Seq(STRING) /\ Len(x) \in Nat
  BY DiskFacts, UniverseFacts
<1>6. SameLocks(d, new)
  <2> SUFFICES ASSUME NEW x \in LockFiles \cup {Dcs} PROVE Kind(new, x) = Kind(d, x)
    BY DEF SameLocks
  <2>1. x \in Seq(STRING) /\ x[1] = Dcs[1]
    BY UniverseFacts
  <2>2. ~Within(p, x) /\ ~Within(q, x)
    <3>1. 1 \in 1 .. Len(p) /\ 1 \in 1 .. Len(q)
      BY <1>3
    <3> QED BY <1>3, <2>1, <3>1, WithinIs
  <2>3. CASE x \in DOMAIN d
    BY <1>2, <2>2, <2>3
  <2>4. CASE x \notin DOMAIN d
    <3>1. x \notin DOMAIN new
      BY <1>2, <2>2, <2>4
    <3> QED BY <2>4, <3>1 DEF Kind
  <2> QED BY <2>3, <2>4
<1>7. \A k \in 1 .. Len(q) - 1 : Kind(d, SubSeq(q, 1, k)) = "dir"
  BY <1>3, PlaceWays DEF CanMove
<1>8. ASSUME NEW y, Kind(d, y) = "dir", ~Within(p, y), ~Within(q, y)
      PROVE  Kind(new, y) = "dir"
  <2>1. y \in DOMAIN d
    BY <1>8, DiskFacts
  <2> QED BY <1>2, <1>8, <2>1
<1>9. ASSUME NEW r \in DOMAIN d, Within(p, r), NEW x, x = Renamed(p, q, r), Within(q, x),
             x \in Seq(STRING), NEW k \in 1 .. Len(x) - 1
      PROVE  Kind(new, SubSeq(x, 1, k)) = "dir"
  <2>1. Len(x) \in Nat /\ Len(x) >= Len(q) /\ k \in Nat /\ k \in 1 .. Len(x)
    BY <1>3, <1>9, WithinIs
  <2>2. CASE k < Len(q)
    <3> DEFINE y == SubSeq(q, 1, k)
    <3>1. SubSeq(x, 1, Len(q)) = q
      BY <1>3, <1>9, WithinWay
    <3>2. Len(q) \in 1 .. Len(x) /\ k \in 1 .. Len(q) /\ k \in 0 .. Len(q) /\ k \in 1 .. Len(q) - 1
      BY <1>3, <2>1, <2>2
    <3>3. SubSeq(SubSeq(x, 1, Len(q)), 1, k) = SubSeq(x, 1, k)
      BY <1>9, <3>2, WayFacts
    <3>4. SubSeq(x, 1, k) = y
      BY <3>1, <3>3
    <3>5. y \in Seq(STRING) /\ Len(y) = k /\ Under(y, q)
      BY <1>3, <2>2, <3>2, PrefixFacts, WayFacts
    <3>6. Kind(d, y) = "dir"
      BY <1>7, <3>2
    <3> HIDE DEF y
    <3>7. ~Within(p, y)
      BY <1>3, <3>5, UnderTrans DEF CanMove
    <3>8. ~Within(q, y)
      BY <1>3, <2>2, <3>5, WithinIs
    <3> QED BY <1>8, <3>4, <3>6, <3>7, <3>8
  <2>3. CASE k >= Len(q)
    <3>1. r \in Seq(STRING) /\ Len(r) \in Nat /\ Len(p) <= Len(r)
      BY <1>3, <1>5, <1>9, WithinIs
    <3>2. Len(x) = Len(q) + (Len(r) - Len(p))
      <4>1. IsRenamed(STRING, p, q, r, Renamed(p, q, r))
        BY <1>3, <1>9, <3>1, RenamedFacts
      <4> QED BY <1>9, <4>1 DEF IsRenamed
    <3>3. PICK n \in Nat : k = Len(q) + n
      <4>1. k - Len(q) \in Nat /\ k = Len(q) + (k - Len(q))
        BY <1>3, <2>1, <2>3
      <4> QED BY <4>1
    <3>4. Len(p) + n \in 1 .. Len(r) - 1 /\ Len(p) + n <= Len(r)
      BY <1>3, <2>1, <3>1, <3>2, <3>3
    <3> DEFINE z == SubSeq(r, 1, Len(p) + n)
    <3>5. Within(p, z) /\ SubSeq(Renamed(p, q, r), 1, Len(q) + n) = Renamed(p, q, z)
      BY <1>3, <1>9, <3>1, <3>4, RenamedWay
    <3>6. Kind(d, z) = "dir"
      BY <3>4, DiskFacts
    <3> HIDE DEF z
    <3>7. z \in DOMAIN d
      BY <3>6, DiskFacts
    <3>8. Kind(new, Renamed(p, q, z)) = "dir"
      BY <1>2, <3>5, <3>6, <3>7
    <3> QED BY <1>9, <3>3, <3>5, <3>8
  <2> QED BY <1>3, <2>1, <2>2, <2>3
<1>10. ASSUME NEW x \in DOMAIN d, ~Within(p, x), NEW k \in 1 .. Len(x) - 1
       PROVE  Kind(new, SubSeq(x, 1, k)) = "dir"
  <2> DEFINE y == SubSeq(x, 1, k)
  <2>1. x \in Seq(STRING) /\ k \in 1 .. Len(x) /\ k \in 0 .. Len(x) /\ k < Len(x)
    BY <1>5
  <2>2. y \in Seq(STRING) /\ Within(y, x) /\ Under(y, x)
    BY <2>1, PrefixFacts, WayFacts
  <2>3. Kind(d, y) = "dir"
    BY DiskFacts
  <2> HIDE DEF y
  <2>4. ~Within(p, y)
    BY <1>3, <1>10, <2>1, <2>2, WithinTrans
  <2>5. ~Within(q, y)
    <3> SUFFICES ASSUME Within(q, y) PROVE FALSE
      OBVIOUS
    <3>1. Under(q, x)
      BY <1>3, <2>1, <2>2, UnderTrans
    <3>2. Kind(d, q) = "dir" /\ Toward(q, x) \in Children(q) /\ Kind(d, Toward(q, x)) # "none"
      BY <3>1, OnTheWay
    <3>3. p # q
      BY <2>4
    <3> QED BY <3>2, <3>3 DEF CanMove, IsEmpty
  <2> QED BY <1>8, <2>3, <2>4, <2>5 DEF y
<1>11. \A x \in DOMAIN new : \A k \in 1 .. Len(x) - 1 : Kind(new, SubSeq(x, 1, k)) = "dir"
  BY <1>2, <1>4, <1>9, <1>10
<1>12. \A x \in DOMAIN new : Kind(new, x) \in {"file", "dir"}
  BY <1>2, DiskFacts
<1>13. \A x \in LockFiles : Kind(new, x) # "dir"
  BY <1>6 DEF SameLocks, DiskOk
<1>14. DiskOk(new)
  BY <1>4, <1>11, <1>12, <1>13, KindsOk
<1> QED BY <1>1, <1>6, <1>14

(* ------------------------------ the start ------------------------------- *)

LEMMA RecordFacts ==
    /\ \A place \in Listing \cup {"idle", "map", "copy", "unlink"} :
         \A p \in Paths \cup {<<>>} :
            At(place, p) \in CallRecords /\ At(place, p).at = place /\ At(place, p).arg = p
    /\ Idle \in CallRecords /\ Idle.at = "idle"
BY DEF At, Idle, CallRecords, Listing

LEMMA InitOk == Init => IInv
<1> SUFFICES ASSUME Init PROVE IInv
  OBVIOUS
<1>1. Idle \in CallRecords /\ Idle.at = "idle"
  BY RecordFacts
<1>2. \A c \in Processes : call[c] = Idle
  BY DEF Init
<1>3. Typed
  <2>1. MaxCalls \in [Processes -> Nat]
    BY LocalFsAssumption
  <2> QED BY <1>1, <1>2, <2>1 DEF Typed, Init
<1>4. DiskOk(disk)
  BY DisksAssumption DEF DiskOk, Universe, Init
<1>5. LocksOk
  BY <1>1, <1>2 DEF LocksOk, LockFileHasHolder, SoleHolderIsRecorded, LockFiles, Init
<1>6. \A c \in Processes : ListOk(call[c], touched[c], disk)
  BY <1>1, <1>2 DEF ListOk, Listing
<1> QED BY <1>3, <1>4, <1>5, <1>6 DEF IInv

(* --------------------- steps that change the disk ----------------------- *)

Frames == Seq([dir : Paths, seen : SUBSET Paths])

LEMMA FrameFacts ==
    ASSUME NEW fs \in Frames, fs # <<>>
    PROVE  /\ Len(fs) \in Nat /\ DOMAIN fs = 1 .. Len(fs) /\ Len(fs) \in DOMAIN fs
           /\ \A i \in DOMAIN fs : /\ fs[i] \in [dir : Paths, seen : SUBSET Paths]
                                   /\ fs[i].dir \in Paths /\ fs[i].dir \in Seq(STRING)
                                   /\ Len(fs[i].dir) \in Nat
                                   /\ fs[i].seen \subseteq Paths
<1>1. Len(fs) \in Nat /\ DOMAIN fs = 1 .. Len(fs) /\ Len(fs) \in DOMAIN fs
  BY DEF Frames
<1>2. \A i \in DOMAIN fs : fs[i] \in [dir : Paths, seen : SUBSET Paths]
  BY <1>1, ElementOfSeq DEF Frames
<1> QED BY <1>1, <1>2, UniverseFacts

LEMMA CallFacts ==
    ASSUME NEW w \in CallRecords
    PROVE  /\ w.frames \in Frames /\ w.listed \in Seq(Paths)
           /\ \A i \in DOMAIN w.listed : w.listed[i] \in Paths
<1>1. w.frames \in Frames /\ w.listed \in Seq(Paths)
  BY DEF CallRecords, Frames
<1>2. DOMAIN w.listed = 1 .. Len(w.listed)
  BY <1>1
<1> QED BY <1>1, <1>2, ElementOfSeq

\* The paths that differ between two disks.
Differ(d, new) == {p \in DOMAIN d \cup DOMAIN new : Kind(d, p) # Kind(new, p)}

LEMMA DifferFacts ==
    ASSUME NEW d, NEW new, DiskOk(d), DiskOk(new)
    PROVE  \A p : p \notin Differ(d, new) => Kind(d, p) = Kind(new, p)
BY DiskFacts DEF Differ

\* What is untouched after a change is below nothing that changed, so the
\* directories on the way to it are untouched as well.
LEMMA StillUntouched ==
    ASSUME NEW t, WaysUntouched(t), NEW S \in SUBSET Universe
    PROVE  WaysUntouched(t \cup Below(S))
<1> SUFFICES ASSUME NEW p \in Paths, p \notin t \cup Below(S), NEW k \in 1 .. Len(p) - 1,
                    SubSeq(p, 1, k) \in Below(S)
             PROVE  FALSE
  BY DEF WaysUntouched
<1>1. p \in Seq(STRING) /\ Len(p) \in Nat
  BY UniverseFacts
<1>2. k \in 1 .. Len(p) /\ k < Len(p) /\ k \in 0 .. Len(p)
  BY <1>1
<1>3. PICK q : q = SubSeq(p, 1, k) /\ q \in Seq(STRING) /\ Under(q, p)
  BY <1>1, <1>2, PrefixFacts, WayFacts
<1>4. PICK x \in S : Within(x, q)
  BY <1>3 DEF Below, Within
<1>5. x \in Seq(STRING)
  BY UniverseFacts
<1>6. Under(x, p)
  BY <1>1, <1>3, <1>4, <1>5, UnderTrans
<1> QED BY <1>6 DEF Below

\* A walk knows what is untouched, whatever another process changes.
LEMMA Disturbed ==
    ASSUME NEW d, NEW new, DiskOk(d), DiskOk(new), NEW w \in CallRecords, NEW t,
           NEW S \in SUBSET Universe, Differ(d, new) \subseteq S,
           ListOk(w, t, d), w.at \in Listing
    PROVE  ListOk(w, t \cup Below(S), new)
<1> DEFINE u == t \cup Below(S)
<1>1. WaysUntouched(u)
  BY StillUntouched DEF ListOk
<1>2. \A p \in Paths : p \notin u => p \notin t /\ Kind(new, p) = Kind(d, p)
  BY DifferFacts DEF Below
<1> HIDE DEF u
<1>3. ASSUME WalkOk(w, t, d) PROVE WalkOk(w, u, new)
  <2>1. \A i \in DOMAIN w.listed : w.listed[i] \in Paths
    BY CallFacts
  <2>2. \A i \in DOMAIN w.frames : w.frames[i].dir \in Paths
    <3>1. CASE w.frames = <<>>
      BY <3>1
    <3>2. CASE w.frames # <<>>
      BY <3>2, CallFacts, FrameFacts
    <3> QED BY <3>1, <3>2
  <2>3. w.at = "stat" => w.arg \in Paths
    BY <1>3 DEF WalkOk, StackOk, Entered
  <2> QED BY <1>2, <1>3, <2>1, <2>2, <2>3 DEF WalkOk
<1>4. ASSUME ResultOk(w, t, d) PROVE ResultOk(w, u, new)
  BY <1>2, <1>4 DEF ResultOk
<1> QED BY <1>1, <1>3, <1>4 DEF ListOk, u

\* A step that changes the disk, by a process that is not listing after it.
LEMMA ChangeOk ==
    ASSUME IInv, NEW c \in Processes, NEW d, NEW replaced \in SUBSET Paths,
           DiskOk(d), Change(d, replaced),
           NEW w \in CallRecords, w.at \notin Listing, call' = [call EXCEPT ![c] = w]
    PROVE  /\ DiskOk(disk)'
           /\ touched' \in [Processes -> SUBSET Paths]
           /\ \A e \in Processes : ListOk(call[e], touched[e], disk)'
<1>1. /\ call \in [Processes -> CallRecords]
      /\ touched \in [Processes -> SUBSET Paths]
      /\ DiskOk(disk)
      /\ \A e \in Processes : ListOk(call[e], touched[e], disk)
  BY DEF IInv, Typed
<1>2. PICK new : new = disk' /\ DiskOk(new)
  BY <1>1 DEF Change
<1>3. PICK S : S = Differ(disk, new) \cup {p \in replaced : disk' # disk}
  OBVIOUS
<1>4. S \in SUBSET Universe /\ Differ(disk, new) \subseteq S
  BY <1>1, <1>2, <1>3, DiskFacts, UniverseFacts DEF Differ
<1>5. touched' = [e \in Processes |-> IF call[e].at \notin Listing THEN {}
                                      ELSE touched[e] \cup Below(S)]
  BY <1>2, <1>3 DEF Change, Differ
<1>6. touched' \in [Processes -> SUBSET Paths]
  BY <1>1, <1>5 DEF Below
<1>7. ASSUME NEW e \in Processes PROVE ListOk(call'[e], touched'[e], new)
  <2>1. CASE e = c
    BY <1>1, <2>1 DEF ListOk, Listing
  <2>2. CASE e # c /\ call[e].at \notin Listing
    BY <1>1, <2>2 DEF ListOk, Listing
  <2>3. CASE e # c /\ call[e].at \in Listing
    <3>1. ListOk(call[e], touched[e] \cup Below(S), new)
      BY <1>1, <1>2, <1>4, <2>3, Disturbed
    <3> QED BY <1>1, <1>5, <2>3, <3>1
  <2> QED BY <2>1, <2>2, <2>3
<1> QED BY <1>2, <1>6, <1>7

(* ---------------------------- lock and release -------------------------- *)

\* A step that leaves the locks and their files alone.
LEMMA LocksKept ==
    ASSUME IInv, SameLocks(disk, disk'), UNCHANGED lockVars, DiskOk(disk)',
           \A c \in Processes : call'[c].at = "unlink" => call'[c] = call[c]
    PROVE  LocksOk'
<1>1. \A p \in DOMAIN LockFile : Kind(disk', LockFile[p]) = Kind(disk, LockFile[p])
  BY DEF SameLocks, LockFiles
<1>2. \A p \in DOMAIN LockFile : LockFile[p] \in DOMAIN disk' <=> LockFile[p] \in DOMAIN disk
  BY <1>1, DiskFacts DEF IInv
<1>3. LocksOk /\ held' = held /\ sole' = sole /\ left' = left
      /\ \A h \in sole : IsHeld(h, held)
  BY DEF IInv, Typed, lockVars
<1>4. LockFileHasHolder'
  BY <1>2, <1>3 DEF LocksOk, LockFileHasHolder, Holders
<1>5. SoleHolderIsRecorded'
  BY <1>1, <1>3 DEF LocksOk, SoleHolderIsRecorded, IsHeld
<1> QED BY <1>3, <1>4, <1>5 DEF LocksOk

\* Only lock file p changes: the other lock files and their directory do not.
OnlyLock(d, new, p) ==
    /\ \A q \in LockFiles \cup {Dcs} : q # p => Kind(new, q) = Kind(d, q)
    /\ p # Dcs

\* What a step that changes only lock file p leaves as it was.
LEMMA OthersKept ==
    ASSUME NEW d, NEW new, DiskOk(d), DiskOk(new), NEW p \in DOMAIN LockFile,
           OnlyLock(d, new, LockFile[p])
    PROVE  \A q \in DOMAIN LockFile : LockFile[q] # LockFile[p] =>
              /\ Kind(new, LockFile[q]) = Kind(d, LockFile[q])
              /\ LockFile[q] \in DOMAIN new => LockFile[q] \in DOMAIN d
<1>1. \A q \in DOMAIN LockFile : LockFile[q] # LockFile[p] =>
         Kind(new, LockFile[q]) = Kind(d, LockFile[q])
  BY DEF OnlyLock, LockFiles
<1> QED BY <1>1, DiskFacts

\* A path is locked, and recorded if its lock file is there.
LEMMA TakesOk ==
    ASSUME IInv, NEW c \in Processes, NEW p \in DOMAIN LockFile, p \notin held[c],
           NEW recorded \in BOOLEAN, Takes(c, p, recorded),
           OnlyLock(disk, disk', LockFile[p]), DiskOk(disk)',
           recorded => Kind(disk', LockFile[p]) = "file",
           \A e \in Processes : call'[e].at = "unlink" => call'[e] = call[e]
    PROVE  LocksOk'
<1>1. /\ LocksOk /\ held \in [Processes -> SUBSET DOMAIN LockFile] /\ DiskOk(disk)
      /\ \A h \in sole : IsHeld(h, held)
  BY DEF IInv, Typed
<1>2. held'[c] = held[c] \cup {p} /\ \A e \in Processes : e # c => held'[e] = held[e]
  BY <1>1 DEF Takes
<1>3. \A e \in Processes : held[e] \subseteq held'[e]
  BY <1>2
<1>4. \A h \in sole' : \/ h \in sole /\ LockFile[h[2]] # LockFile[p]
                       \/ h = <<c, p>> /\ recorded /\ Holders(LockFile[p]) = {}
  BY DEF Takes
<1>5. \A q \in DOMAIN LockFile : LockFile[q] # LockFile[p] =>
         /\ Kind(disk', LockFile[q]) = Kind(disk, LockFile[q])
         /\ LockFile[q] \in DOMAIN disk' => LockFile[q] \in DOMAIN disk
  BY <1>1, OthersKept
<1>6. ASSUME NEW h \in sole', NEW e \in Processes, NEW q \in held'[e],
             LockFile[q] = LockFile[h[2]]
      PROVE  h = <<e, q>>
  <2>1. CASE h \in sole /\ LockFile[h[2]] # LockFile[p]
    <3>1. q \in held[e]
      BY <1>2, <1>6, <2>1
    <3> QED BY <1>1, <1>6, <2>1, <3>1 DEF LocksOk
  <2>2. CASE h = <<c, p>> /\ Holders(LockFile[p]) = {}
    <3>1. LockFile[q] = LockFile[p]
      BY <1>6, <2>2
    <3>2. q \notin held[e]
      <4>1. ASSUME q \in held[e] PROVE FALSE
        <5>1. q \in DOMAIN LockFile
          BY <1>1, <4>1
        <5>2. <<e, q>> \in Holders(LockFile[p])
          BY <3>1, <4>1, <5>1 DEF Holders
        <5> QED BY <2>2, <5>2
      <4> QED BY <4>1
    <3> QED BY <1>2, <2>2, <3>2
  <2> QED BY <1>4, <2>1, <2>2
<1>7. LockFileHasHolder'
  <2> SUFFICES ASSUME NEW q \in DOMAIN LockFile, LockFile[q] \in DOMAIN disk',
                      LockFile[q] \notin left'
               PROVE  \E h \in Processes \X DOMAIN LockFile :
                         h[2] \in held'[h[1]] /\ LockFile[h[2]] = LockFile[q]
    BY DEF LockFileHasHolder, Holders
  <2>1. CASE LockFile[q] = LockFile[p]
    <3>1. <<c, p>> \in Processes \X DOMAIN LockFile /\ <<c, p>>[1] = c /\ <<c, p>>[2] = p
      OBVIOUS
    <3> QED BY <1>2, <2>1, <3>1
  <2>2. CASE LockFile[q] # LockFile[p]
    <3>1. LockFile[q] \notin left
      BY <2>2 DEF Takes
    <3>2. Holders(LockFile[q]) # {}
      BY <1>1, <1>5, <2>2, <3>1 DEF LocksOk, LockFileHasHolder
    <3> QED BY <1>3, <3>2 DEF Holders
  <2> QED BY <2>1, <2>2
<1>8. SoleHolderIsRecorded'
  <2> SUFFICES ASSUME NEW h \in sole' PROVE Kind(disk', LockFile[h[2]]) = "file"
    BY DEF SoleHolderIsRecorded
  <2>1. CASE h \in sole /\ LockFile[h[2]] # LockFile[p]
    <3>1. h[2] \in DOMAIN LockFile
      BY <1>1, <2>1 DEF IsHeld
    <3> QED BY <1>1, <1>5, <2>1, <3>1 DEF LocksOk, SoleHolderIsRecorded
  <2>2. CASE h = <<c, p>> /\ recorded
    BY <2>2
  <2> QED BY <1>4, <2>1, <2>2
<1>9. \A e \in Processes : call'[e].at = "unlink" => call'[e].arg \in held'[e]
  BY <1>1, <1>3 DEF LocksOk
<1> QED BY <1>6, <1>7, <1>8, <1>9 DEF LocksOk

\* A path is released: its lock file is gone.
LEMMA GivesUpOk ==
    ASSUME IInv, NEW c \in Processes, NEW p \in held[c], GivesUp(c, p),
           OnlyLock(disk, disk', LockFile[p]), DiskOk(disk)', Kind(disk', LockFile[p]) = "none",
           \A e \in Processes : call'[e].at = "unlink" => e # c /\ call'[e] = call[e]
    PROVE  LocksOk'
<1>1. /\ LocksOk /\ held \in [Processes -> SUBSET DOMAIN LockFile] /\ DiskOk(disk)
      /\ \A h \in sole : IsHeld(h, held)
  BY DEF IInv, Typed
<1>2. /\ held'[c] = held[c] \ {p} /\ \A e \in Processes : e # c => held'[e] = held[e]
      /\ sole' = sole \ {<<c, p>>} /\ left' = left \ {LockFile[p]}
  BY <1>1 DEF GivesUp
<1>3. p \in DOMAIN LockFile
  BY <1>1
<1>4. \A e \in Processes : held'[e] \subseteq held[e]
  BY <1>2
<1>5. \A q \in DOMAIN LockFile : LockFile[q] # LockFile[p] =>
         /\ Kind(disk', LockFile[q]) = Kind(disk, LockFile[q])
         /\ LockFile[q] \in DOMAIN disk' => LockFile[q] \in DOMAIN disk
  BY <1>1, <1>3, OthersKept
<1>6. \A h \in sole' : \A e \in Processes : \A q \in held'[e] :
         LockFile[q] = LockFile[h[2]] => h = <<e, q>>
  BY <1>1, <1>2, <1>4 DEF LocksOk
<1>7. LockFileHasHolder'
  <2> SUFFICES ASSUME NEW q \in DOMAIN LockFile, LockFile[q] \in DOMAIN disk',
                      LockFile[q] \notin left'
               PROVE  \E h \in Processes \X DOMAIN LockFile :
                         h[2] \in held'[h[1]] /\ LockFile[h[2]] = LockFile[q]
    BY DEF LockFileHasHolder, Holders
  <2>1. LockFile[q] # LockFile[p]
    BY DiskFacts
  <2>2. Holders(LockFile[q]) # {}
    BY <1>1, <1>2, <1>5, <2>1 DEF LocksOk, LockFileHasHolder
  <2>3. PICK h \in Processes \X DOMAIN LockFile :
           h[2] \in held[h[1]] /\ LockFile[h[2]] = LockFile[q]
    BY <2>2 DEF Holders
  <2>4. h[2] # p
    BY <2>1, <2>3
  <2> QED BY <1>2, <2>3, <2>4
<1>8. SoleHolderIsRecorded'
  <2> SUFFICES ASSUME NEW h \in sole, h # <<c, p>> PROVE Kind(disk', LockFile[h[2]]) = "file"
    BY <1>2 DEF SoleHolderIsRecorded
  <2>1. h[2] \in DOMAIN LockFile /\ LockFile[h[2]] # LockFile[p]
    BY <1>1 DEF LocksOk, IsHeld
  <2> QED BY <1>1, <1>5, <2>1 DEF LocksOk, SoleHolderIsRecorded
<1>9. \A e \in Processes : call'[e].at = "unlink" => call'[e].arg \in held'[e]
  BY <1>1, <1>2 DEF LocksOk
<1> QED BY <1>6, <1>7, <1>8, <1>9 DEF LocksOk

\* What lock and release do to the lock file.
LEMMA LockFileMade ==
    ASSUME NEW d, DiskOk(d), NEW p \in LockFiles
    PROVE  OnlyLock(d, d, p) /\ OnlyLock(d, Created(d, p), p)
<1>1. PICK n \in Nat : n = Len(p)
  BY UniverseFacts
<1>2. p # Dcs
  <2>1. ASSUME p = Dcs PROVE n = 1 /\ n = 2
    BY <1>1, <2>1, UniverseFacts
  <2> QED BY <2>1
<1>3. PICK new : new = Created(d, p) /\ (new = d \/ new = With(d, p, "file"))
  BY DEF Created
<1>4. \A q : q # p => Kind(new, q) = Kind(d, q)
  <2>1. CASE new = d
    BY <2>1
  <2>2. CASE new = With(d, p, "file")
    BY <2>2 DEF With, Kind
  <2> QED BY <1>3, <2>1, <2>2
<1> QED BY <1>2, <1>3, <1>4 DEF OnlyLock

LEMMA LockFileRemoved ==
    ASSUME NEW d, DiskOk(d), NEW p \in LockFiles
    PROVE  /\ OnlyLock(d, Removed(d, p), p)
           /\ Kind(Removed(d, p), p) = "none"
<1>1. p # Dcs
  BY LockFileMade DEF OnlyLock
<1>2. IsEmpty(d, p)
  <2>1. ASSUME NEW q \in Paths, Under(p, q) PROVE FALSE
    <3>1. p \in Seq(STRING) /\ q \in Seq(STRING) /\ Len(p) = 2 /\ p[1] = Dcs[1] /\ q[1] # Dcs[1]
      BY UniverseFacts
    <3>2. Under(p, q) <=> Len(q) > Len(p) /\ \A i \in 1 .. Len(p) : p[i] = q[i]
      <4>1. p \in Seq(STRING)
        BY <3>1
      <4>2. q \in Seq(STRING)
        BY <3>1
      <4> QED BY ONLY <4>1, <4>2, UnderIs
    <3>3. \A i \in 1 .. Len(p) : p[i] = q[i]
      BY <2>1, <3>2
    <3>4. 1 \in 1 .. Len(p)
      BY <3>1
    <3> QED BY <3>1, <3>3, <3>4
  <2> QED BY <2>1 DEF IsEmpty, Children
<1>3. CASE Kind(d, p) = "none"
  BY <1>1, <1>3 DEF Removed, OnlyLock
<1>4. CASE Kind(d, p) # "none"
  <2>1. Removed(d, p) = Without(d, p)
    BY <1>2, <1>4 DEF Removed
  <2> DEFINE new == Without(d, p)
  <2>2. Kind(new, p) = "none" /\ \A q : q # p => Kind(new, q) = Kind(d, q)
    BY KindWithout
  <2> HIDE DEF new
  <2>3. OnlyLock(d, new, p)
    BY <1>1, <2>2 DEF OnlyLock
  <2> QED BY <2>1, <2>2, <2>3 DEF new
<1> QED BY <1>3, <1>4

(* ------------------------------- the steps ------------------------------ *)

\* Process c is at w after its step.
Steps(c, w) ==
    /\ call' = [call EXCEPT ![c] = w]
    /\ w \in CallRecords
    /\ w.at = "copy" => w.arg \in Paths
    /\ calls' \in [Processes -> Nat]
    /\ \A e \in Processes : calls'[e] \in 0 .. MaxCalls[e]

LEMMA CallSteps ==
    ASSUME IInv, NEW c \in Processes, NEW f, NEW w \in CallRecords,
           w.at = "copy" => w.arg \in Paths, Call(c, f, w)
    PROVE  Steps(c, w)
<1>1. /\ calls \in [Processes -> Nat] /\ \A e \in Processes : calls[e] \in 0 .. MaxCalls[e]
      /\ MaxCalls \in [Processes -> Nat]
  BY LocalFsAssumption DEF IInv, Typed
<1>2. calls[c] < MaxCalls[c] /\ calls' = [calls EXCEPT ![c] = calls[c] + 1]
  BY DEF Call
<1>3. calls' \in [Processes -> Nat] /\ \A e \in Processes : calls'[e] \in 0 .. MaxCalls[e]
  BY <1>1, <1>2
<1> QED BY <1>3 DEF Call, Steps

LEMMA GoesSteps ==
    ASSUME IInv, NEW c \in Processes, NEW w \in CallRecords,
           w.at = "copy" => w.arg \in Paths, Goes(c, w)
    PROVE  Steps(c, w)
BY DEF IInv, Typed, Goes, Steps

LEMMA StepsFacts ==
    ASSUME IInv, NEW c \in Processes, NEW w, Steps(c, w)
    PROVE  /\ call' \in [Processes -> CallRecords] /\ call'[c] = w
           /\ \A e \in Processes : e # c => call'[e] = call[e]
           /\ \A e \in Processes : call'[e].at = "copy" => call'[e].arg \in Paths
BY DEF IInv, Typed, Steps

\* A step on the paths of the programs.
LEMMA PathsStep ==
    ASSUME IInv, NEW c \in Processes, NEW d, NEW replaced \in SUBSET Paths, Change(d, replaced),
           DiskOk(d), SameLocks(disk, d),
           NEW w, Steps(c, w), w.at \notin Listing \cup {"unlink"}, UNCHANGED lockVars
    PROVE  IInv'
<1>1. /\ call' \in [Processes -> CallRecords] /\ call'[c] = w
      /\ \A e \in Processes : e # c => call'[e] = call[e]
      /\ \A e \in Processes : call'[e].at = "copy" => call'[e].arg \in Paths
  BY StepsFacts
<1>2. /\ DiskOk(disk)'
      /\ touched' \in [Processes -> SUBSET Paths]
      /\ \A e \in Processes : ListOk(call[e], touched[e], disk)'
  BY ChangeOk DEF Steps
<1>3. LocksOk'
  <2>1. SameLocks(disk, disk')
    BY DEF Change, SameLocks
  <2> QED BY <1>1, <1>2, <2>1, LocksKept
<1>4. Typed'
  BY <1>1, <1>2 DEF IInv, Typed, Steps, lockVars
<1> QED BY <1>2, <1>3, <1>4 DEF IInv

\* A step that changes neither the disk nor the locks, by a process that is not
\* listing after it.
LEMMA QuietStep ==
    ASSUME IInv, NEW c \in Processes, NEW w, Steps(c, w), w.at \notin Listing \cup {"unlink"},
           UNCHANGED <<disk, touched, lockVars>>
    PROVE  IInv'
<1>1. /\ call' \in [Processes -> CallRecords] /\ call'[c] = w
      /\ \A e \in Processes : e # c => call'[e] = call[e]
      /\ \A e \in Processes : call'[e].at = "copy" => call'[e].arg \in Paths
  BY StepsFacts
<1>2. DiskOk(disk)' /\ SameLocks(disk, disk')
  BY DEF IInv, SameLocks
<1>3. LocksOk'
  BY <1>1, <1>2, LocksKept
<1>4. ASSUME NEW e \in Processes PROVE ListOk(call'[e], touched[e], disk)
  <2>1. CASE e = c
    BY <1>1, <2>1 DEF ListOk, Listing
  <2>2. CASE e # c
    BY <1>1, <2>2 DEF IInv
  <2> QED BY <2>1, <2>2
<1>5. Typed'
  BY <1>1 DEF IInv, Typed, Steps, lockVars
<1> QED BY <1>2, <1>3, <1>4, <1>5 DEF IInv

LEMMA IdleSteps ==
    ASSUME IInv, NEW c \in Processes
    PROVE  /\ \A f : Call(c, f, Idle) => Steps(c, Idle)
           /\ Goes(c, Idle) => Steps(c, Idle)
           /\ Idle.at \notin Listing \cup {"unlink"}
<1>1. Idle \in CallRecords /\ Idle.at = "idle"
  BY RecordFacts
<1>2. Idle.at \notin Listing \cup {"unlink", "copy"}
  BY <1>1 DEF Listing
<1> QED BY <1>1, <1>2, CallSteps, GoesSteps

LEMMA CreateOk == ASSUME IInv, NEW c \in Processes, Create(c) PROVE IInv'
<1>1. PICK p \in Paths : Change(Created(disk, p), {})
  BY DEF Create
<1>2. DiskOk(Created(disk, p)) /\ SameLocks(disk, Created(disk, p))
  BY CreatedOk DEF IInv
<1> QED BY <1>1, <1>2, IdleSteps, PathsStep DEF Create

LEMMA MkdirOk == ASSUME IInv, NEW c \in Processes, Mkdir(c) PROVE IInv'
<1>1. PICK p \in Paths : Change(MadeDirectory(disk, p), {})
  BY DEF Mkdir
<1>2. DiskOk(MadeDirectory(disk, p)) /\ SameLocks(disk, MadeDirectory(disk, p))
  BY MadeDirectoryOk DEF IInv
<1> QED BY <1>1, <1>2, IdleSteps, PathsStep DEF Mkdir

LEMMA RemoveOk == ASSUME IInv, NEW c \in Processes, Remove(c) PROVE IInv'
<1>1. PICK p \in Paths : Change(Removed(disk, p), {})
  BY DEF Remove
<1>2. DiskOk(Removed(disk, p)) /\ SameLocks(disk, Removed(disk, p))
  BY RemovedOk DEF IInv
<1> QED BY <1>1, <1>2, IdleSteps, PathsStep DEF Remove

LEMMA RenameOk == ASSUME IInv, NEW c \in Processes, Rename(c) PROVE IInv'
<1>1. PICK p, q, new :
         /\ p \in Paths /\ q \in Paths
         /\ new = IF CanMove(disk, p, q) THEN Moved(disk, p, q) ELSE disk
         /\ DOMAIN new \subseteq Paths \cup DOMAIN disk /\ Change(new, {q})
         /\ {q} \in SUBSET Paths
  BY DEF Rename
<1>2. CASE CanMove(disk, p, q)
  <2>1. DiskOk(new) /\ SameLocks(disk, new)
    BY <1>1, <1>2, MovedOk DEF IInv
  <2> QED BY <1>1, <2>1, IdleSteps, PathsStep DEF Rename
<1>3. CASE ~CanMove(disk, p, q)
  <2>1. DiskOk(new) /\ SameLocks(disk, new)
    BY <1>1, <1>3 DEF IInv, SameLocks
  <2> QED BY <1>1, <2>1, IdleSteps, PathsStep DEF Rename
<1> QED BY <1>2, <1>3

LEMMA OpenOk == ASSUME IInv, NEW c \in Processes, Open(c) PROVE IInv'
<1>1. PICK p, w : /\ p \in Paths
                  /\ Call(c, "open", w)
                  /\ w = IF Kind(disk, p) = "none" THEN Idle ELSE At("map", p)
  BY DEF Open
<1>2. w \in CallRecords /\ w.at \in {"idle", "map"}
  BY <1>1, RecordFacts
<1>3. Steps(c, w) /\ w.at \notin Listing \cup {"unlink"}
  BY <1>1, <1>2, CallSteps DEF Listing
<1> QED BY <1>3, QuietStep DEF Open

LEMMA EndsOk == ASSUME IInv, NEW c \in Processes, OpenEnds(c) \/ CopyEnds(c) PROVE IInv'
BY IdleSteps, QuietStep DEF OpenEnds, CopyEnds

LEMMA CopyOk == ASSUME IInv, NEW c \in Processes, Copy(c) PROVE IInv'
<1>1. PICK p \in Paths, q \in Paths :
         IF Kind(disk, p) = "dir"
           THEN /\ Change(MadeDirectory(disk, q), {})
                /\ Call(c, "copy", IF Kind(disk', q) = "dir" THEN [At("copy", p) EXCEPT !.dst = q]
                                   ELSE Idle)
           ELSE /\ Change(IF Kind(disk, p) = "file" THEN CopiedFile(disk, p, q) ELSE disk, {})
                /\ Call(c, "copy", Idle)
  BY DEF Copy
<1>2. UNCHANGED lockVars /\ DiskOk(disk) /\ SameLocks(disk, disk) /\ {} \in SUBSET Paths
  BY DEF Copy, IInv, SameLocks
<1>3. CASE Kind(disk, p) = "dir"
  <2>1. DiskOk(MadeDirectory(disk, q)) /\ SameLocks(disk, MadeDirectory(disk, q))
    BY <1>2, MadeDirectoryOk
  <2>2. CASE Kind(disk', q) = "dir"
    <3>1. PICK w : w = [At("copy", p) EXCEPT !.dst = q] /\ Call(c, "copy", w)
      BY <1>1, <1>3, <2>2
    <3>2. w \in CallRecords /\ w.at = "copy" /\ w.arg = p
      <4>1. PICK v : v = At("copy", p) /\ v \in CallRecords /\ v.at = "copy" /\ v.arg = p
        BY RecordFacts
      <4>2. w = [v EXCEPT !.dst = q]
        BY <3>1, <4>1
      <4> QED BY <4>1, <4>2 DEF CallRecords
    <3>3. Steps(c, w) /\ w.at \notin Listing \cup {"unlink"}
      BY <3>1, <3>2, CallSteps DEF Listing
    <3> QED BY <1>1, <1>2, <1>3, <2>1, <3>3, PathsStep
  <2>3. CASE Kind(disk', q) # "dir"
    <3>1. Call(c, "copy", Idle)
      BY <1>1, <1>3, <2>3
    <3> QED BY <1>1, <1>2, <1>3, <2>1, <3>1, IdleSteps, PathsStep
  <2> QED BY <2>2, <2>3
<1>4. CASE Kind(disk, p) # "dir"
  <2>1. PICK new : /\ new = IF Kind(disk, p) = "file" THEN CopiedFile(disk, p, q) ELSE disk
                   /\ Change(new, {}) /\ Call(c, "copy", Idle)
    BY <1>1, <1>4
  <2>2. DiskOk(new) /\ SameLocks(disk, new)
    BY <1>2, <2>1, CopiedFileOk
  <2> QED BY <1>2, <2>1, <2>2, IdleSteps, PathsStep
<1> QED BY <1>3, <1>4

LEMMA CopyEntryOk == ASSUME IInv, NEW c \in Processes, CopyEntry(c) PROVE IInv'
<1>1. PICK p, q, new : new = CopiedFile(disk, p, q) /\ Change(new, {})
  BY DEF CopyEntry
<1>2. DiskOk(new) /\ SameLocks(disk, new)
  BY <1>1, CopiedFileOk DEF IInv
<1>3. PICK w : w = call[c]
  OBVIOUS
<1>4. w \in CallRecords /\ w.at = "copy" /\ w.arg \in Paths
  BY <1>3 DEF IInv, Typed, CopyEntry
<1>5. Steps(c, w)
  BY <1>3, <1>4 DEF Steps, CopyEntry, IInv, Typed
<1>6. w.at \notin Listing \cup {"unlink"}
  BY <1>4 DEF Listing
<1> QED BY <1>1, <1>2, <1>5, <1>6, PathsStep DEF CopyEntry

\* A step that makes or removes a lock file.
LEMMA LockStep ==
    ASSUME IInv, NEW c \in Processes, NEW d, Change(d, {}), DiskOk(d),
           Steps(c, Idle),
           held' \in [Processes -> SUBSET DOMAIN LockFile],
           \A h \in sole' : IsHeld(h, held'), left' \subseteq LockFiles,
           LocksOk'
    PROVE  IInv'
<1>1. /\ call' \in [Processes -> CallRecords] /\ call'[c] = Idle
      /\ \A e \in Processes : call'[e].at = "copy" => call'[e].arg \in Paths
  BY StepsFacts
<1>2. Idle \in CallRecords /\ Idle.at \notin Listing /\ {} \in SUBSET Paths
  BY IdleSteps, RecordFacts
<1>3. /\ DiskOk(disk)'
      /\ touched' \in [Processes -> SUBSET Paths]
      /\ \A e \in Processes : ListOk(call[e], touched[e], disk)'
  BY <1>2, ChangeOk DEF Steps
<1>4. Typed'
  BY <1>1, <1>3 DEF IInv, Typed, Steps
<1> QED BY <1>3, <1>4 DEF IInv

LEMMA StillHeld ==
    ASSUME NEW f, NEW g, \A e \in Processes : f[e] \subseteq g[e], NEW h, IsHeld(h, f)
    PROVE  IsHeld(h, g)
<1>1. PICK e \in Processes, q \in DOMAIN LockFile : h = <<e, q>>
  BY DEF IsHeld
<1>2. q \in f[e]
  BY <1>1 DEF IsHeld
<1> QED BY <1>1, <1>2 DEF IsHeld

LEMMA LockOk == ASSUME IInv, NEW c \in Processes, Lock(c) PROVE IInv'
<1>1. PICK p \in DOMAIN LockFile \ held[c] :
         /\ Call(c, "lock", Idle)
         /\ Change(Created(disk, LockFile[p]), {})
         /\ Takes(c, p, Kind(disk', LockFile[p]) = "file")
  BY DEF Lock
<1>2. PICK new, recorded : /\ new = Created(disk, LockFile[p])
                           /\ recorded = (Kind(disk', LockFile[p]) = "file")
  OBVIOUS
<1>3. Steps(c, Idle) /\ Idle.at = "idle"
  BY <1>1, IdleSteps, RecordFacts
<1>4. call'[c] = Idle /\ \A e \in Processes : e # c => call'[e] = call[e]
  BY <1>3, StepsFacts
<1>5. LockFile[p] \in LockFiles
  BY <1>1 DEF LockFiles
<1>6. /\ DiskOk(disk) /\ DiskOk(new)
      /\ OnlyLock(disk, new, LockFile[p]) /\ OnlyLock(disk, disk, LockFile[p])
  BY <1>2, <1>5, CreatedOk, LockFileMade DEF IInv
<1>7. Change(new, {}) /\ disk' \in {disk, new}
  BY <1>1, <1>2 DEF Change
<1>8. DiskOk(disk)' /\ OnlyLock(disk, disk', LockFile[p])
  BY <1>6, <1>7
<1>9. recorded \in BOOLEAN /\ Takes(c, p, recorded)
  BY <1>1, <1>2
<1>10. LocksOk'
  BY <1>1, <1>2, <1>3, <1>4, <1>8, <1>9, TakesOk
<1>11. /\ held' = [held EXCEPT ![c] = held[c] \cup {p}] /\ left' = left \ {LockFile[p]}
       /\ held \in [Processes -> SUBSET DOMAIN LockFile] /\ left \subseteq LockFiles
       /\ \A g \in sole : IsHeld(g, held)
  BY <1>1 DEF Takes, IInv, Typed
<1>12. held' \in [Processes -> SUBSET DOMAIN LockFile] /\ left' \subseteq LockFiles
  BY <1>1, <1>11
<1>13. ASSUME NEW h \in sole' PROVE IsHeld(h, held')
  <2>1. \A e \in Processes : held[e] \subseteq held'[e]
    BY <1>11
  <2>2. IsHeld(<<c, p>>, held')
    BY <1>1, <1>11 DEF IsHeld
  <2>3. h \in sole \/ h = <<c, p>>
    BY <1>9 DEF Takes
  <2>4. IsHeld(h, held) => IsHeld(h, held')
    BY <2>1, StillHeld
  <2> QED BY <1>11, <2>2, <2>3, <2>4
<1> QED BY <1>3, <1>6, <1>7, <1>10, <1>12, <1>13, LockStep

LEMMA GivesUpTyped ==
    ASSUME IInv, NEW c \in Processes, NEW p \in held[c], GivesUp(c, p)
    PROVE  /\ held' \in [Processes -> SUBSET DOMAIN LockFile] /\ \A h \in sole' : IsHeld(h, held')
           /\ left' \subseteq LockFiles
<1>1. /\ held' = [held EXCEPT ![c] = held[c] \ {p}] /\ sole' = sole \ {<<c, p>>}
      /\ held \in [Processes -> SUBSET DOMAIN LockFile]
      /\ \A h \in sole : IsHeld(h, held)
      /\ left' \subseteq left /\ left \subseteq LockFiles
  BY DEF GivesUp, IInv, Typed
<1>2. held' \in [Processes -> SUBSET DOMAIN LockFile]
  BY <1>1
<1>3. ASSUME NEW h \in sole' PROVE IsHeld(h, held')
  <2>1. IsHeld(h, held) /\ h # <<c, p>>
    BY <1>1
  <2>2. PICK e \in Processes, q \in DOMAIN LockFile : h = <<e, q>>
    BY <2>1 DEF IsHeld
  <2>3. q \in held[e] /\ (e # c \/ q # p)
    BY <2>1, <2>2 DEF IsHeld
  <2>4. q \in held'[e]
    BY <1>1, <2>3
  <2> QED BY <2>2, <2>4 DEF IsHeld
<1> QED BY <1>1, <1>2, <1>3

LEMMA UnlinkOk == ASSUME IInv, NEW c \in Processes, Unlink(c) PROVE IInv'
<1>1. PICK p : p = call[c].arg
  OBVIOUS
<1>2. p \in held[c] /\ p \in DOMAIN LockFile
  BY <1>1 DEF Unlink, IInv, LocksOk, Typed
<1>3. PICK new : new = Removed(disk, LockFile[p])
  OBVIOUS
<1>4. /\ Goes(c, Idle) /\ Change(new, {}) /\ disk' \in {disk, new}
      /\ IF Kind(disk', LockFile[p]) = "none" THEN GivesUp(c, p) ELSE UNCHANGED lockVars
  BY <1>1, <1>3 DEF Unlink, Change
<1>5. Steps(c, Idle) /\ Idle.at = "idle"
  BY <1>4, IdleSteps, RecordFacts
<1>6. call'[c] = Idle /\ \A e \in Processes : e # c => call'[e] = call[e]
  BY <1>5, StepsFacts
<1>7. LockFile[p] \in LockFiles
  BY <1>2 DEF LockFiles
<1>8. /\ DiskOk(disk) /\ DiskOk(new) /\ Kind(new, LockFile[p]) = "none"
      /\ OnlyLock(disk, new, LockFile[p]) /\ OnlyLock(disk, disk, LockFile[p])
  BY <1>3, <1>7, RemovedOk, LockFileMade, LockFileRemoved DEF IInv
<1>9. DiskOk(disk)' /\ OnlyLock(disk, disk', LockFile[p])
  BY <1>4, <1>8
<1>10. CASE Kind(disk', LockFile[p]) = "none"
  <2>1. GivesUp(c, p)
    BY <1>4, <1>10
  <2>2. LocksOk'
    BY <1>2, <1>5, <1>6, <1>9, <1>10, <2>1, GivesUpOk
  <2> QED BY <1>2, <1>4, <1>5, <1>8, <2>1, <2>2, GivesUpTyped, LockStep
<1>11. CASE Kind(disk', LockFile[p]) # "none"
  <2>1. UNCHANGED lockVars /\ disk' = disk
    BY <1>4, <1>8, <1>11
  <2>2. SameLocks(disk, disk')
    BY <2>1 DEF SameLocks
  <2>3. LocksOk'
    BY <1>5, <1>6, <1>9, <2>1, <2>2, LocksKept
  <2>4. /\ held' \in [Processes -> SUBSET DOMAIN LockFile] /\ \A h \in sole' : IsHeld(h, held')
        /\ left' \subseteq LockFiles
    BY <2>1 DEF IInv, Typed, lockVars
  <2> QED BY <1>4, <1>5, <1>8, <2>3, <2>4, LockStep
<1> QED BY <1>10, <1>11

LEMMA DiesOk == ASSUME IInv, NEW c \in Processes, Dies(c) PROVE IInv'
<1>1. /\ LocksOk /\ DiskOk(disk) /\ held \in [Processes -> SUBSET DOMAIN LockFile]
      /\ \A h \in sole : IsHeld(h, held)
      /\ left \subseteq LockFiles /\ touched \in [Processes -> SUBSET Paths]
  BY DEF IInv, Typed
<1>2. /\ held' = [held EXCEPT ![c] = {}] /\ sole' = {h \in sole : h[1] # c}
      /\ left' = left \cup ({LockFile[p] : p \in held[c]} \cap DOMAIN disk)
      /\ touched' = [touched EXCEPT ![c] = {}] /\ UNCHANGED disk
  BY DEF Dies
<1>3. Steps(c, Idle) /\ Idle.at = "idle" /\ Idle \in CallRecords
  BY IdleSteps, RecordFacts DEF Dies
<1>4. /\ call' \in [Processes -> CallRecords] /\ call'[c] = Idle
      /\ \A e \in Processes : e # c => call'[e] = call[e]
      /\ \A e \in Processes : call'[e].at = "copy" => call'[e].arg \in Paths
  BY <1>3, StepsFacts
<1>5. held'[c] = {} /\ \A e \in Processes : e # c => held'[e] = held[e]
  BY <1>1, <1>2
<1>6. LockFileHasHolder'
  <2> SUFFICES ASSUME NEW q \in DOMAIN LockFile, LockFile[q] \in DOMAIN disk,
                      LockFile[q] \notin left'
               PROVE  \E h \in Processes \X DOMAIN LockFile :
                         h[2] \in held'[h[1]] /\ LockFile[h[2]] = LockFile[q]
    BY <1>2 DEF LockFileHasHolder, Holders
  <2>1. Holders(LockFile[q]) # {}
    BY <1>1, <1>2 DEF LocksOk, LockFileHasHolder
  <2>2. PICK h \in Processes \X DOMAIN LockFile :
           h[2] \in held[h[1]] /\ LockFile[h[2]] = LockFile[q]
    BY <2>1 DEF Holders
  <2>3. h[1] # c
    <3>1. ASSUME h[1] = c PROVE LockFile[q] \in left'
      <4>1. LockFile[q] \in {LockFile[p] : p \in held[c]}
        BY <2>2, <3>1
      <4> QED BY <1>2, <4>1
    <3> QED BY <3>1
  <2> QED BY <1>5, <2>2, <2>3
<1>7. SoleHolderIsRecorded'
  BY <1>1, <1>2 DEF LocksOk, SoleHolderIsRecorded
<1>8. \A h \in sole' : \A e \in Processes : \A q \in held'[e] :
         LockFile[q] = LockFile[h[2]] => h = <<e, q>>
  BY <1>1, <1>2, <1>5 DEF LocksOk
<1>9. \A e \in Processes : call'[e].at = "unlink" => call'[e].arg \in held'[e]
  BY <1>1, <1>3, <1>4, <1>5 DEF LocksOk
<1>10. LocksOk'
  BY <1>6, <1>7, <1>8, <1>9 DEF LocksOk
<1>11. ASSUME NEW h \in sole' PROVE IsHeld(h, held')
  <2>1. IsHeld(h, held) /\ h[1] # c
    BY <1>1, <1>2
  <2> QED BY <1>5, <2>1 DEF IsHeld
<1>12. left' \subseteq LockFiles /\ held' \in [Processes -> SUBSET DOMAIN LockFile]
  <2>1. {LockFile[p] : p \in held[c]} \subseteq LockFiles
    BY <1>1 DEF LockFiles
  <2> QED BY <1>1, <1>2, <2>1
<1>13. touched' \in [Processes -> SUBSET Paths] /\ \A e \in Processes : e # c => touched'[e] = touched[e]
  BY <1>1, <1>2
<1>14. ASSUME NEW e \in Processes PROVE ListOk(call'[e], touched'[e], disk)
  <2>1. CASE e = c
    BY <1>3, <1>4, <2>1 DEF ListOk, Listing
  <2>2. CASE e # c
    BY <1>4, <1>13, <2>2 DEF IInv
  <2> QED BY <2>1, <2>2
<1>15. Typed'
  BY <1>3, <1>4, <1>11, <1>12, <1>13 DEF IInv, Typed, Steps
<1> QED BY <1>1, <1>2, <1>10, <1>14, <1>15 DEF IInv

LEMMA ReleaseOk == ASSUME IInv, NEW c \in Processes, Release(c) PROVE IInv'
<1>1. PICK p \in held[c] :
         IF Kind(disk, LockFile[p]) = "none"
           THEN Call(c, "release", Idle) /\ GivesUp(c, p)
           ELSE Call(c, "release", At("unlink", p)) /\ UNCHANGED lockVars
  BY DEF Release
<1>2. /\ p \in DOMAIN LockFile /\ p \in Paths /\ LockFile[p] \in LockFiles
      /\ UNCHANGED <<disk, touched>>
  BY LocalFsAssumption DEF Release, IInv, Typed, LockFiles
<1>3. DiskOk(disk) /\ DiskOk(disk)'
  BY <1>2 DEF IInv
<1>4. ASSUME NEW w, Steps(c, w), w.at \in {"idle", "unlink"},
             held' \in [Processes -> SUBSET DOMAIN LockFile],
             \A h \in sole' : IsHeld(h, held'), left' \subseteq LockFiles,
             LocksOk'
      PROVE  IInv'
  <2>1. /\ call' \in [Processes -> CallRecords] /\ call'[c] = w
        /\ \A e \in Processes : e # c => call'[e] = call[e]
        /\ \A e \in Processes : call'[e].at = "copy" => call'[e].arg \in Paths
    BY <1>4, StepsFacts
  <2>2. ASSUME NEW e \in Processes PROVE ListOk(call'[e], touched[e], disk)
    <3>1. CASE e = c
      BY <1>4, <2>1, <3>1 DEF ListOk, Listing
    <3>2. CASE e # c
      BY <2>1, <3>2 DEF IInv
    <3> QED BY <3>1, <3>2
  <2>3. Typed'
    BY <1>2, <1>4, <2>1 DEF IInv, Typed, Steps
  <2> QED BY <1>2, <1>3, <1>4, <2>2, <2>3 DEF IInv
<1>5. CASE Kind(disk, LockFile[p]) = "none"
  <2>1. Steps(c, Idle) /\ Idle.at = "idle" /\ GivesUp(c, p)
    BY <1>1, <1>5, IdleSteps, RecordFacts
  <2>2. call'[c] = Idle /\ \A e \in Processes : e # c => call'[e] = call[e]
    BY <2>1, StepsFacts
  <2>3. OnlyLock(disk, disk', LockFile[p])
    BY <1>2, <1>3, LockFileMade DEF OnlyLock
  <2>4. LocksOk'
    BY <1>2, <1>3, <1>5, <2>1, <2>2, <2>3, GivesUpOk
  <2> QED BY <1>4, <2>1, <2>4, GivesUpTyped
<1>6. CASE Kind(disk, LockFile[p]) # "none"
  <2>1. PICK w : w = At("unlink", p) /\ Call(c, "release", w) /\ UNCHANGED lockVars
    BY <1>1, <1>6
  <2>2. w \in CallRecords /\ w.at = "unlink" /\ w.arg = p
    BY <1>2, <2>1, RecordFacts
  <2>3. Steps(c, w)
    BY <2>1, <2>2, CallSteps
  <2>4. call'[c] = w /\ \A e \in Processes : e # c => call'[e] = call[e]
    BY <2>3, StepsFacts
  <2>5. LocksOk'
    BY <1>1, <1>2, <2>1, <2>2, <2>4
       DEF IInv, LocksOk, LockFileHasHolder, SoleHolderIsRecorded, Holders, lockVars
  <2> QED BY <1>4, <2>1, <2>2, <2>3, <2>5 DEF IInv, Typed, lockVars
<1> QED BY <1>5, <1>6

(* ------------------------------- list_files ----------------------------- *)

LEMMA UnderWithin ==
    ASSUME NEW S, NEW p \in Seq(S), NEW q \in Seq(S), NEW r \in Seq(S),
           Under(p, q), Within(q, r)
    PROVE  Under(p, r)
<1>1. Len(p) \in Nat /\ Len(q) \in Nat /\ Len(r) \in Nat
  OBVIOUS
<1>2. Len(p) < Len(q) /\ \A i \in 1 .. Len(p) : p[i] = q[i]
  BY UnderIs
<1>3. Len(q) <= Len(r) /\ \A i \in 1 .. Len(q) : q[i] = r[i]
  BY WithinIs
<1>4. Len(p) < Len(r) /\ \A i \in 1 .. Len(p) : p[i] = r[i]
  BY <1>1, <1>2, <1>3
<1> QED BY <1>4, UnderIs

\* Of two paths on the way to p the shorter one is on the way to the longer.
LEMMA Shorter ==
    ASSUME NEW S, NEW x \in Seq(S), NEW e \in Seq(S), NEW p \in Seq(S),
           Within(e, p), Len(x) <= Len(e)
    PROVE  Within(x, p) <=> Within(x, e)
<1>1. Len(x) \in Nat /\ Len(e) \in Nat /\ Len(p) \in Nat
  OBVIOUS
<1>2. Len(e) <= Len(p) /\ \A i \in 1 .. Len(e) : e[i] = p[i]
  BY WithinIs
<1>3. Len(x) <= Len(p) /\ \A i \in 1 .. Len(x) : e[i] = p[i]
  BY <1>1, <1>2
<1> QED BY <1>3, WithinIs

\* A path above e leads to e and to what is within e through the same entry.
LEMMA SameEntry ==
    ASSUME NEW S, NEW f \in Seq(S), NEW e \in Seq(S), NEW p \in Seq(S),
           Within(e, p), Len(f) < Len(e)
    PROVE  Toward(f, p) = Toward(f, e)
<1>1. Len(f) \in Nat /\ Len(e) \in Nat /\ Len(p) \in Nat
  OBVIOUS
<1>2. Len(e) <= Len(p) /\ SubSeq(p, 1, Len(e)) = e
  BY WithinWay
<1>3. Len(e) \in 1 .. Len(p) /\ Len(f) + 1 \in 1 .. Len(e)
  BY <1>1, <1>2
<1>4. SubSeq(SubSeq(p, 1, Len(e)), 1, Len(f) + 1) = SubSeq(p, 1, Len(f) + 1)
  BY <1>3, WayFacts
<1> QED BY <1>2, <1>4 DEF Toward

LEMMA ChildFacts ==
    ASSUME NEW e \in Paths, NEW p \in Children(e)
    PROVE  /\ e \in Seq(STRING) /\ p \in Seq(STRING) /\ p \in Paths
           /\ Len(e) \in Nat /\ Len(p) = Len(e) + 1 /\ p # e
           /\ Under(e, p) /\ Within(e, p) /\ Toward(e, p) = p /\ ~Within(p, e)
           /\ \A x \in Seq(STRING) : Len(x) = Len(p) => (Within(x, p) <=> x = p) /\ ~Within(x, e)
<1>1. /\ e \in Seq(STRING) /\ p \in Seq(STRING) /\ p \in Paths /\ Len(e) \in Nat
      /\ Len(p) = Len(e) + 1 /\ Under(e, p)
  BY UniverseFacts DEF Children
<1>2. SubSeq(p, 1, Len(p)) = p /\ p # e
  BY <1>1
<1>3. Toward(e, p) = p
  BY <1>1, <1>2 DEF Toward
<1>4. ASSUME NEW x \in Seq(STRING), Len(x) = Len(p)
      PROVE  (Within(x, p) <=> x = p) /\ ~Within(x, e)
  <2>1. ~Under(x, p) /\ ~Under(x, e) /\ x # e
    BY <1>1, <1>4 DEF Under
  <2> QED BY <2>1 DEF Within
<1> QED BY <1>1, <1>2, <1>3, <1>4 DEF Within

\* The walk leaves entry p of its last directory: it is done with what is
\* within p, and with nothing else that it was not done with.
LEMMA Leave ==
    ASSUME NEW fs \in Frames, fs # <<>>, NEW e, e = fs[Len(fs)].dir,
           NEW p \in Children(e), Stacked(fs, p)
    PROVE  /\ Stacked(fs, e)
           /\ \A q \in Paths : CoveredBy(fs, e, q) <=> CoveredBy(fs, p, q) \/ Within(p, q)
<1> DEFINE n == Len(fs)
<1>1. /\ n \in Nat /\ DOMAIN fs = 1 .. n /\ n \in DOMAIN fs
      /\ \A i \in DOMAIN fs : /\ fs[i].dir \in Paths /\ fs[i].dir \in Seq(STRING)
                              /\ Len(fs[i].dir) \in Nat
  BY FrameFacts
<1>2. /\ e \in Paths /\ e \in Seq(STRING) /\ p \in Seq(STRING) /\ p \in Paths
      /\ Len(e) \in Nat /\ Len(p) = Len(e) + 1 /\ p # e
      /\ Under(e, p) /\ Within(e, p) /\ Toward(e, p) = p /\ ~Within(p, e)
      /\ \A x \in Seq(STRING) : Len(x) = Len(p) => (Within(x, p) <=> x = p) /\ ~Within(x, e)
  BY <1>1, ChildFacts
<1>3. /\ \A i, j \in DOMAIN fs : i <= j => Len(fs[j].dir) = Len(fs[i].dir) + (j - i)
      /\ \A i \in DOMAIN fs :
            /\ Within(fs[i].dir, p)
            /\ fs[i].dir # p => Toward(fs[i].dir, p) \in fs[i].seen
  BY DEF Stacked
<1>4. ASSUME NEW i \in DOMAIN fs PROVE i <= n /\ Len(e) = Len(fs[i].dir) + (n - i)
  <2>1. i \in 1 .. n /\ i <= n
    BY <1>1
  <2> QED BY <1>1, <1>3, <2>1
<1>5. \A i \in DOMAIN fs : /\ Len(fs[i].dir) <= Len(e)
                           /\ i # n => Len(fs[i].dir) < Len(e)
                           /\ i = n => fs[i].dir = e
  BY <1>1, <1>2, <1>4
<1>6. p \in fs[n].seen
  BY <1>1, <1>2, <1>3
<1>7. Stacked(fs, e)
  <2>1. ASSUME NEW i \in DOMAIN fs
        PROVE  /\ Within(fs[i].dir, e)
               /\ fs[i].dir # e => Toward(fs[i].dir, e) \in fs[i].seen
    <3>1. Within(fs[i].dir, e)
      BY <1>1, <1>2, <1>3, <1>5, Shorter
    <3>2. ASSUME fs[i].dir # e PROVE Toward(fs[i].dir, e) \in fs[i].seen
      <4>1. Len(fs[i].dir) < Len(e)
        BY <1>5, <3>2
      <4>2. Toward(fs[i].dir, p) = Toward(fs[i].dir, e)
        BY <1>1, <1>2, <4>1, SameEntry
      <4>3. fs[i].dir # p
        BY <1>1, <1>2, <4>1
      <4> QED BY <1>3, <4>2, <4>3
    <3> QED BY <3>1, <3>2
  <2> QED BY <1>3, <2>1 DEF Stacked
<1>8. ASSUME NEW q \in Paths, NEW i \in DOMAIN fs, Under(fs[i].dir, q)
      PROVE  /\ i # n => (Within(Toward(fs[i].dir, q), p) <=> Within(Toward(fs[i].dir, q), e))
             /\ i = n => (Within(Toward(e, q), p) <=> Toward(e, q) = p) /\ ~Within(Toward(e, q), e)
             /\ Within(Toward(fs[i].dir, q), q)
  <2>1. /\ Toward(fs[i].dir, q) \in Seq(STRING)
        /\ Len(Toward(fs[i].dir, q)) = Len(fs[i].dir) + 1
        /\ Within(Toward(fs[i].dir, q), q)
    BY <1>1, <1>8, UnderFacts, UniverseFacts
  <2>2. CASE i = n
    BY <1>2, <1>5, <2>1, <2>2
  <2>3. CASE i # n
    <3>1. Len(Toward(fs[i].dir, q)) <= Len(e)
      BY <1>1, <1>2, <1>5, <2>1, <2>3
    <3> QED BY <1>2, <2>1, <2>3, <3>1, Shorter
  <2> QED BY <2>2, <2>3
<1>9. ASSUME NEW q \in Paths, CoveredBy(fs, e, q) PROVE CoveredBy(fs, p, q) \/ Within(p, q)
  <2>1. PICK i \in DOMAIN fs : /\ Under(fs[i].dir, q)
                               /\ Toward(fs[i].dir, q) \in fs[i].seen
                               /\ ~Within(Toward(fs[i].dir, q), e)
    BY <1>9 DEF CoveredBy
  <2>2. CASE Within(Toward(fs[i].dir, q), p)
    <3>1. i = n /\ Toward(e, q) = p
      BY <1>5, <1>8, <2>1, <2>2
    <3> QED BY <1>5, <1>8, <2>1, <3>1
  <2>3. CASE ~Within(Toward(fs[i].dir, q), p)
    BY <2>1, <2>3 DEF CoveredBy
  <2> QED BY <2>2, <2>3
<1>10. ASSUME NEW q \in Paths, CoveredBy(fs, p, q) PROVE CoveredBy(fs, e, q)
  <2>1. PICK i \in DOMAIN fs : /\ Under(fs[i].dir, q)
                               /\ Toward(fs[i].dir, q) \in fs[i].seen
                               /\ ~Within(Toward(fs[i].dir, q), p)
    BY <1>10 DEF CoveredBy
  <2>2. ~Within(Toward(fs[i].dir, q), e)
    BY <1>5, <1>8, <2>1
  <2> QED BY <2>1, <2>2 DEF CoveredBy
<1>11. ASSUME NEW q \in Paths, Within(p, q) PROVE CoveredBy(fs, e, q)
  <2>1. q \in Seq(STRING)
    BY UniverseFacts
  <2>2. Under(e, q)
    BY <1>2, <1>11, <2>1, UnderWithin
  <2>3. Toward(e, q) = p
    <3>1. SubSeq(q, 1, Len(p)) = p
      BY <1>2, <1>11, <2>1, WithinWay
    <3> QED BY <1>2, <3>1 DEF Toward
  <2> QED BY <1>1, <1>2, <1>5, <1>6, <2>2, <2>3 DEF CoveredBy
<1> QED BY <1>7, <1>9, <1>10, <1>11

\* The walk goes to entry p of its last directory: it is done with what it was
\* done with.
LEMMA Enter ==
    ASSUME NEW fs \in Frames, fs # <<>>, NEW e, e = fs[Len(fs)].dir, Stacked(fs, e),
           NEW p \in Children(e), p \notin fs[Len(fs)].seen,
           NEW gs, DOMAIN gs = DOMAIN fs, \A i \in DOMAIN fs : gs[i].dir = fs[i].dir,
           \A i \in DOMAIN fs : i # Len(fs) => gs[i].seen = fs[i].seen,
           gs[Len(fs)].seen = fs[Len(fs)].seen \cup {p}
    PROVE  /\ Stacked(gs, p)
           /\ \A q \in Paths : CoveredBy(gs, p, q) <=> CoveredBy(fs, e, q)
<1> DEFINE n == Len(fs)
<1>1. /\ n \in Nat /\ DOMAIN fs = 1 .. n /\ n \in DOMAIN fs
      /\ \A i \in DOMAIN fs : /\ fs[i].dir \in Paths /\ fs[i].dir \in Seq(STRING)
                              /\ Len(fs[i].dir) \in Nat
  BY FrameFacts
<1>2. /\ e \in Paths /\ e \in Seq(STRING) /\ p \in Seq(STRING) /\ p \in Paths
      /\ Len(e) \in Nat /\ Len(p) = Len(e) + 1 /\ p # e
      /\ Under(e, p) /\ Within(e, p) /\ Toward(e, p) = p
      /\ \A x \in Seq(STRING) : Len(x) = Len(p) => (Within(x, p) <=> x = p) /\ ~Within(x, e)
  BY <1>1, ChildFacts
<1>3. /\ \A i, j \in DOMAIN fs : i <= j => Len(fs[j].dir) = Len(fs[i].dir) + (j - i)
      /\ \A i \in DOMAIN fs :
            /\ Within(fs[i].dir, e)
            /\ fs[i].dir # e => Toward(fs[i].dir, e) \in fs[i].seen
  BY DEF Stacked
<1>4. ASSUME NEW i \in DOMAIN fs PROVE i <= n /\ Len(e) = Len(fs[i].dir) + (n - i)
  <2>1. i \in 1 .. n /\ i <= n
    BY <1>1
  <2> QED BY <1>1, <1>3, <2>1
<1>5. \A i \in DOMAIN fs : /\ i # n => Len(fs[i].dir) < Len(e)
                           /\ i = n => fs[i].dir = e
  BY <1>1, <1>2, <1>4
<1>6. Stacked(gs, p)
  <2>1. ASSUME NEW i \in DOMAIN fs
        PROVE  Within(fs[i].dir, p) /\ Toward(fs[i].dir, p) \in gs[i].seen
    <3>1. Within(fs[i].dir, p)
      BY <1>1, <1>2, <1>3, WithinTrans
    <3>2. CASE i = n
      BY <1>2, <1>5, <3>1, <3>2
    <3>3. CASE i # n
      <4>1. Len(fs[i].dir) < Len(e) /\ fs[i].dir # e
        BY <1>1, <1>2, <1>5, <3>3
      <4>2. Toward(fs[i].dir, p) = Toward(fs[i].dir, e)
        BY <1>1, <1>2, <4>1, SameEntry
      <4> QED BY <1>3, <3>1, <3>3, <4>1, <4>2
    <3> QED BY <3>2, <3>3
  <2> QED BY <1>3, <2>1 DEF Stacked
<1>7. ASSUME NEW q \in Paths, NEW i \in DOMAIN fs, Under(fs[i].dir, q)
      PROVE  /\ Toward(fs[i].dir, q) \in gs[i].seen /\ ~Within(Toward(fs[i].dir, q), p)
             <=> Toward(fs[i].dir, q) \in fs[i].seen /\ ~Within(Toward(fs[i].dir, q), e)
  <2>1. /\ Toward(fs[i].dir, q) \in Seq(STRING)
        /\ Len(Toward(fs[i].dir, q)) = Len(fs[i].dir) + 1
    BY <1>1, <1>7, UnderFacts, UniverseFacts
  <2>2. CASE i = n
    BY <1>2, <1>5, <2>1, <2>2
  <2>3. CASE i # n
    <3>1. Len(Toward(fs[i].dir, q)) <= Len(e)
      BY <1>1, <1>2, <1>5, <2>1, <2>3
    <3>2. Within(Toward(fs[i].dir, q), p) <=> Within(Toward(fs[i].dir, q), e)
      BY <1>2, <2>1, <3>1, Shorter
    <3> QED BY <2>3, <3>2
  <2> QED BY <2>2, <2>3
<1>8. ASSUME NEW q \in Paths PROVE CoveredBy(gs, p, q) <=> CoveredBy(fs, e, q)
  BY <1>7 DEF CoveredBy
<1> QED BY <1>6, <1>8

\* A step of the walk that is done with what it was done with.
LEMMA SameWalk ==
    ASSUME NEW d, NEW t, NEW w \in CallRecords, ListOk(w, t, d),
           w.at \in {"opendir", "walk", "stat"},
           NEW v, v.at \in {"opendir", "walk", "stat"}, v.listed = w.listed, StackOk(v),
           \A q \in Paths : Covered(v, q) <=> Covered(w, q),
           \A i \in DOMAIN v.frames : v.frames[i].dir \notin t => Kind(d, v.frames[i].dir) = "dir",
           v.at = "stat" /\ v.arg \notin t => Kind(d, v.arg) # "none"
    PROVE  ListOk(v, t, d)
<1>1. WaysUntouched(t) /\ WalkOk(w, t, d)
  BY DEF ListOk, Listing
<1>2. \A i \in DOMAIN w.listed : w.listed[i] \in Paths
  BY CallFacts
<1>3. WalkOk(v, t, d)
  BY <1>1, <1>2 DEF WalkOk
<1> QED BY <1>1, <1>3 DEF ListOk, Listing

LEMMA OpenWalk ==
    ASSUME NEW d, NEW t, NEW w \in CallRecords, ListOk(w, t, d), w.at = "opendir",
           Kind(d, w.arg) = "dir", NEW v, v.at = "walk", v.listed = w.listed,
           v.frames = Append(w.frames, [dir |-> w.arg, seen |-> {}])
    PROVE  ListOk(v, t, d)
<1> DEFINE fs == w.frames
           x  == w.arg
           n  == Len(fs)
<1>1. WalkOk(w, t, d) /\ StackOk(w) /\ Focus(w) = x /\ x \in Paths
  BY DEF ListOk, WalkOk, StackOk, Focus, Entered
<1>2. fs \in Frames
  BY CallFacts
<1>3. PICK gs : gs = Append(fs, [dir |-> x, seen |-> {}]) /\ gs = v.frames
  OBVIOUS
<1>4. /\ n \in Nat /\ DOMAIN fs = 1 .. n /\ DOMAIN gs = 1 .. n + 1 /\ Len(gs) = n + 1
      /\ gs[n + 1] = [dir |-> x, seen |-> {}] /\ \A i \in 1 .. n : gs[i] = fs[i]
  BY <1>2, <1>3 DEF Frames
<1>5. gs[n + 1].dir = x /\ gs[n + 1].seen = {}
  BY <1>4
<1>6. Stacked(fs, x)
  BY <1>1 DEF StackOk
<1>7. x \in Seq(STRING) /\ Len(x) \in Nat
  BY <1>1, UniverseFacts
<1>8. ASSUME NEW i \in 1 .. n + 1, NEW j \in 1 .. n + 1, i <= j
      PROVE  Len(gs[j].dir) = Len(gs[i].dir) + (j - i)
  <2>1. CASE j <= n
    <3>1. i \in 1 .. n /\ j \in 1 .. n
      BY <1>4, <1>8, <2>1
    <3> QED BY <1>4, <1>6, <1>8, <3>1 DEF Stacked
  <2>2. CASE i = n + 1 /\ j = n + 1
    BY <1>4, <1>5, <1>7, <2>2
  <2>3. CASE i <= n /\ j = n + 1
    <3>1. i \in 1 .. n /\ n \in 1 .. n /\ i <= n
      BY <1>4, <2>3
    <3>2. Len(fs[n].dir) = Len(fs[i].dir) + (n - i)
      BY <1>4, <1>6, <3>1 DEF Stacked
    <3>3. x \in Children(fs[n].dir)
      <4>1. fs # <<>>
        BY <1>2, <3>1 DEF Frames
      <4> QED BY <1>1, <4>1 DEF StackOk, Entered
    <3>4. Len(x) = Len(fs[n].dir) + 1
      BY <3>3 DEF Children
    <3>5. Len(fs[i].dir) \in Nat
      BY <1>2, <1>4, <3>1, FrameFacts
    <3>6. Len(x) = Len(fs[i].dir) + ((n + 1) - i)
      <4>1. PICK a, b : a \in Nat /\ a = Len(fs[i].dir) /\ b = Len(fs[n].dir)
        BY <3>5
      <4>2. b = a + (n - i) /\ Len(x) = b + 1 /\ n \in Nat /\ i \in Nat /\ a \in Nat
        BY <1>4, <3>1, <3>2, <3>4, <4>1
      <4>3. Len(x) = a + ((n + 1) - i)
        BY <4>2
      <4> QED BY <4>1, <4>3
    <3>7. gs[i] = fs[i]
      BY <1>4, <3>1
    <3> HIDE DEF x, n
    <3> QED BY <1>5, <2>3, <3>6, <3>7
  <2> QED BY <1>4, <1>8, <2>1, <2>2, <2>3
<1>9. ASSUME NEW i \in 1 .. n + 1
      PROVE  /\ Within(gs[i].dir, x)
             /\ gs[i].dir # x => Toward(gs[i].dir, x) \in gs[i].seen
  <2>1. CASE i = n + 1
    BY <1>5, <2>1 DEF Within
  <2>2. CASE i \in 1 .. n
    BY <1>4, <1>6, <2>2 DEF Stacked
  <2> QED BY <1>4, <2>1, <2>2
<1>10. Stacked(gs, x)
  BY <1>4, <1>8, <1>9 DEF Stacked
<1>11. Focus(v) = x /\ ~Entered(v)
  BY <1>3, <1>4, <1>5 DEF Focus, Entered
<1>12. gs # <<>>
  BY <1>4
<1>13. StackOk(v)
  BY <1>3, <1>10, <1>11, <1>12 DEF StackOk
<1>14. ASSUME NEW q \in Paths PROVE CoveredBy(gs, x, q) <=> CoveredBy(fs, x, q)
  <2>1. DOMAIN fs \subseteq DOMAIN gs /\ \A i \in DOMAIN gs : i \in DOMAIN fs \/ i = n + 1
    BY <1>4
  <2> QED BY <1>4, <1>5, <2>1 DEF CoveredBy
<1>15. \A q \in Paths : Covered(v, q) <=> Covered(w, q)
  BY <1>1, <1>3, <1>11, <1>14 DEF Covered
<1>16. \A i \in DOMAIN gs : gs[i].dir \notin t => Kind(d, gs[i].dir) = "dir"
  <2>1. \A i \in DOMAIN fs : fs[i].dir \notin t => Kind(d, fs[i].dir) = "dir"
    BY <1>1 DEF WalkOk
  <2>2. \A i \in DOMAIN gs : i \in DOMAIN fs \/ i = n + 1
    BY <1>4
  <2> QED BY <1>4, <1>5, <2>1, <2>2
<1>17. v.at \in {"opendir", "walk", "stat"} /\ v.at # "stat" /\ w.at \in {"opendir", "walk", "stat"}
  OBVIOUS
<1> QED BY <1>3, <1>13, <1>15, <1>16, <1>17, SameWalk

LEMMA NextWalk ==
    ASSUME NEW d, NEW t, NEW w \in CallRecords, ListOk(w, t, d), w.at = "walk",
           NEW p \in Unseen(w), Kind(d, p) # "none" \/ p \in t,
           NEW v, v.at = "stat", v.arg = p, v.listed = w.listed,
           DOMAIN v.frames = DOMAIN w.frames, Len(v.frames) = Len(w.frames),
           \A i \in DOMAIN w.frames : v.frames[i].dir = w.frames[i].dir,
           \A i \in DOMAIN w.frames : i # Len(w.frames) => v.frames[i].seen = w.frames[i].seen,
           v.frames[Len(w.frames)].seen = w.frames[Len(w.frames)].seen \cup {p}
    PROVE  ListOk(v, t, d)
<1> DEFINE fs == w.frames
           gs == v.frames
           e  == fs[Len(fs)].dir
<1>1. WalkOk(w, t, d) /\ StackOk(w) /\ Focus(w) = e /\ fs # <<>>
  BY DEF ListOk, WalkOk, StackOk, Focus, Entered
<1>2. fs \in Frames
  BY CallFacts
<1>3. Len(fs) \in DOMAIN fs
  BY <1>1, <1>2, FrameFacts
<1>4. Stacked(fs, e)
  BY <1>1 DEF StackOk
<1>5. p \in Children(e) /\ p \notin fs[Len(fs)].seen /\ p \in Paths
  BY DEF Unseen, Children
<1>6. /\ Stacked(gs, p)
      /\ \A q \in Paths : CoveredBy(gs, p, q) <=> CoveredBy(fs, e, q)
  <2>1. PICK f, g, x : f \in Frames /\ f = fs /\ g = gs /\ x = e
    BY <1>2
  <2>2. f # <<>> /\ x = f[Len(f)].dir /\ Stacked(f, x) /\ p \in Children(x) /\ p \notin f[Len(f)].seen
    BY <1>1, <1>4, <1>5, <2>1
  <2>3. /\ DOMAIN g = DOMAIN f /\ \A i \in DOMAIN f : g[i].dir = f[i].dir
        /\ \A i \in DOMAIN f : i # Len(f) => g[i].seen = f[i].seen
        /\ g[Len(f)].seen = f[Len(f)].seen \cup {p}
    BY <2>1
  <2>4. Stacked(g, p) /\ \A q \in Paths : CoveredBy(g, p, q) <=> CoveredBy(f, x, q)
    BY <2>1, <2>2, <2>3, Enter
  <2> QED BY <2>1, <2>4
<1>7. Focus(v) = p /\ Entered(v)
  BY DEF Focus, Entered
<1>8. gs[Len(gs)].dir = e /\ gs # <<>>
  <2>1. DOMAIN gs # {}
    BY <1>3
  <2> QED BY <1>3, <2>1
<1>9. StackOk(v)
  BY <1>5, <1>6, <1>7, <1>8 DEF StackOk
<1>10. \A q \in Paths : Covered(v, q) <=> Covered(w, q)
  BY <1>1, <1>6, <1>7 DEF Covered
<1>11. \A i \in DOMAIN gs : gs[i].dir \notin t => Kind(d, gs[i].dir) = "dir"
  BY <1>1 DEF WalkOk
<1>12. v.at \in {"opendir", "walk", "stat"} /\ w.at \in {"opendir", "walk", "stat"}
  OBVIOUS
<1> QED BY <1>9, <1>10, <1>11, <1>12, SameWalk

LEMMA StatWalk ==
    ASSUME NEW d, NEW t, NEW w \in CallRecords, ListOk(w, t, d), w.at = "stat",
           NEW v, v.at = "opendir", v.arg = w.arg, v.listed = w.listed, v.frames = w.frames
    PROVE  ListOk(v, t, d)
<1>1. WalkOk(w, t, d) /\ Focus(v) = Focus(w) /\ Entered(v) /\ Entered(w)
  BY DEF ListOk, Focus, Entered
<1>2. StackOk(v)
  BY <1>1 DEF WalkOk, StackOk
<1>3. \A q \in Paths : Covered(v, q) <=> Covered(w, q)
  BY <1>1 DEF Covered
<1>4. \A i \in DOMAIN v.frames : v.frames[i].dir \notin t => Kind(d, v.frames[i].dir) = "dir"
  BY <1>1 DEF WalkOk
<1>5. v.at \in {"opendir", "walk", "stat"} /\ v.at # "stat" /\ w.at \in {"opendir", "walk", "stat"}
  OBVIOUS
<1> QED BY <1>2, <1>3, <1>4, <1>5, SameWalk

LEMMA StatFileWalk ==
    ASSUME NEW d, DiskOk(d), NEW t, NEW w \in CallRecords, ListOk(w, t, d), w.at = "stat",
           Kind(d, w.arg) # "dir",
           NEW v, v.at = "walk", v.frames = w.frames,
           NEW m \in Nat, DOMAIN w.listed = 1 .. m, DOMAIN v.listed = 1 .. m + 1,
           \A i \in 1 .. m : v.listed[i] = w.listed[i], v.listed[m + 1] = w.arg
    PROVE  ListOk(v, t, d)
<1> DEFINE fs == w.frames
           p  == w.arg
           e  == fs[Len(fs)].dir
<1>1. /\ WalkOk(w, t, d) /\ StackOk(w) /\ WaysUntouched(t) /\ fs # <<>>
      /\ Entered(w) /\ Focus(w) = p /\ ~Entered(v) /\ Focus(v) = e
  BY DEF ListOk, Listing, WalkOk, StackOk, Focus, Entered
<1>2. fs \in Frames /\ \A i \in DOMAIN w.listed : w.listed[i] \in Paths
  BY CallFacts
<1>3. p \in Children(e) /\ p \in Paths /\ Stacked(fs, p)
  BY <1>1 DEF StackOk
<1>4. /\ Stacked(fs, e)
      /\ \A q \in Paths : CoveredBy(fs, e, q) <=> CoveredBy(fs, p, q) \/ Within(p, q)
  <2>1. PICK f, x, y : f \in Frames /\ f = fs /\ x = e /\ y = p
    BY <1>2
  <2>2. f # <<>> /\ x = f[Len(f)].dir /\ Stacked(f, y) /\ y \in Children(x)
    BY <1>1, <1>3, <2>1
  <2>3. Stacked(f, x) /\ \A q \in Paths : CoveredBy(f, x, q) <=> CoveredBy(f, y, q) \/ Within(y, q)
    BY <2>1, <2>2, Leave
  <2> QED BY <2>1, <2>3
<1>5. \A q \in Paths : Covered(v, q) <=> Covered(w, q) \/ Within(p, q)
  BY <1>1, <1>4 DEF Covered
<1>6. StackOk(v)
  BY <1>1, <1>4 DEF StackOk
<1>7. ASSUME NEW q \in Paths \ t, Kind(d, q) = "file", Covered(v, q)
      PROVE  \E i \in DOMAIN v.listed : v.listed[i] = q
  <2>1. CASE Covered(w, q)
    <3>1. PICK i \in DOMAIN w.listed : w.listed[i] = q
      BY <1>1, <1>7, <2>1 DEF WalkOk
    <3> QED BY <3>1
  <2>2. CASE Under(p, q)
    <3>1. q \in DOMAIN d
      BY <1>7, DiskFacts
    <3> QED BY <1>3, <2>2, <3>1, OnTheWay
  <2>3. CASE q = p
    <3>1. m + 1 \in DOMAIN v.listed
      OBVIOUS
    <3> QED BY <2>3, <3>1
  <2> QED BY <1>5, <1>7, <2>1, <2>2, <2>3 DEF Within
<1>8. ASSUME NEW i \in DOMAIN v.listed
      PROVE  /\ Covered(v, v.listed[i])
             /\ v.listed[i] \notin t => Kind(d, v.listed[i]) = "file"
  <2>1. CASE i \in 1 .. m
    BY <1>1, <1>2, <1>5, <2>1 DEF WalkOk
  <2>2. CASE i = m + 1
    <3>1. Covered(v, p)
      BY <1>3, <1>5 DEF Within
    <3>2. p \notin t => Kind(d, p) \in {"file", "dir"}
      BY <1>1, DiskFacts DEF WalkOk
    <3> QED BY <2>2, <3>1, <3>2
  <2> QED BY <2>1, <2>2
<1>9. ~Covered(w, p)
  <2> SUFFICES ASSUME NEW i \in DOMAIN fs, Under(fs[i].dir, p)
               PROVE  Within(Toward(fs[i].dir, p), p)
    BY <1>1 DEF Covered, CoveredBy
  <2>1. fs[i].dir \in Paths
    BY <1>1, <1>2, FrameFacts
  <2> QED BY <1>3, <2>1, UnderFacts, UniverseFacts
<1>10. \A i \in 1 .. m : w.listed[i] # p
  BY <1>1, <1>9 DEF WalkOk
<1>11. ASSUME NEW i \in DOMAIN v.listed, NEW j \in DOMAIN v.listed, v.listed[i] = v.listed[j]
       PROVE  i = j
  <2>1. CASE i \in 1 .. m /\ j \in 1 .. m
    BY <1>1, <1>11, <2>1 DEF WalkOk
  <2>2. CASE i = m + 1 \/ j = m + 1
    BY <1>10, <1>11, <2>2
  <2> QED BY <2>1, <2>2
<1>12. \A i \in DOMAIN v.frames : v.frames[i].dir \notin t => Kind(d, v.frames[i].dir) = "dir"
  BY <1>1 DEF WalkOk
<1>13. WalkOk(v, t, d)
  BY <1>6, <1>7, <1>8, <1>11, <1>12 DEF WalkOk
<1> QED BY <1>1, <1>13 DEF ListOk, Listing

\* At the end of a directory every entry has been seen that leads to what is
\* untouched.
LEMMA SeenAll ==
    ASSUME NEW d, DiskOk(d), NEW t, WaysUntouched(t), NEW p \in Paths, NEW seen,
           \A x \in Children(p) \ seen : Kind(d, x) = "none" \/ x \in t,
           NEW q \in Paths \ t, Kind(d, q) = "file", Under(p, q)
    PROVE  Toward(p, q) \in seen
<1>1. q \in DOMAIN d
  BY DiskFacts
<1>2. /\ Toward(p, q) \in Children(p) /\ Kind(d, Toward(p, q)) # "none"
      /\ Len(p) + 1 \in 1 .. Len(q) /\ Len(q) \in Nat /\ q \in Seq(STRING)
  BY <1>1, OnTheWay, UnderFacts, UniverseFacts
<1>3. Toward(p, q) \notin t
  <2>1. CASE Len(p) + 1 = Len(q)
    <3>1. SubSeq(q, 1, Len(q)) = q
      BY <1>2
    <3> QED BY <2>1, <3>1 DEF Toward
  <2>2. CASE Len(p) + 1 # Len(q)
    <3>1. Len(p) + 1 \in 1 .. Len(q) - 1
      BY <1>2, <2>2
    <3> QED BY <3>1 DEF WaysUntouched, Toward
  <2> QED BY <2>1, <2>2
<1> QED BY <1>2, <1>3

LEMMA EndList ==
    ASSUME NEW d, DiskOk(d), NEW t, NEW w \in CallRecords, ListOk(w, t, d), w.at = "walk",
           \A p \in Unseen(w) : Kind(d, p) = "none" \/ p \in t, 1 = Len(w.frames),
           NEW v, v.at = "listed", v.arg = w.frames[1].dir, v.listed = w.listed
    PROVE  ListOk(v, t, d)
<1> DEFINE fs == w.frames
           a  == fs[1].dir
<1>1. /\ WalkOk(w, t, d) /\ StackOk(w) /\ WaysUntouched(t) /\ fs # <<>>
      /\ ~Entered(w) /\ Focus(w) = a
  BY DEF ListOk, Listing, WalkOk, StackOk, Focus, Entered
<1>2. fs \in Frames /\ \A i \in DOMAIN w.listed : w.listed[i] \in Paths
  BY CallFacts
<1>3. 1 \in DOMAIN fs /\ a \in Paths
  BY <1>1, <1>2, FrameFacts
<1>4. \A x \in Children(a) \ fs[1].seen : Kind(d, x) = "none" \/ x \in t
  BY DEF Unseen
<1>5. ASSUME NEW q \in Paths \ t, Kind(d, q) = "file", Under(a, q)
      PROVE  \E i \in DOMAIN w.listed : w.listed[i] = q
  <2>1. Toward(a, q) \in fs[1].seen
    BY <1>1, <1>3, <1>4, <1>5, SeenAll
  <2>2. ~Within(Toward(a, q), a)
    <3>1. q \in DOMAIN d
      BY <1>5, DiskFacts
    <3>2. Toward(a, q) \in Children(a)
      BY <1>3, <1>5, <3>1, OnTheWay
    <3> QED BY <1>3, <3>2, ChildFacts
  <2>3. Covered(w, q)
    BY <1>1, <1>3, <1>5, <2>1, <2>2 DEF Covered, CoveredBy
  <2> QED BY <1>1, <1>5, <2>3 DEF WalkOk
<1>6. \A i, j \in DOMAIN w.listed : w.listed[i] = w.listed[j] => i = j
  BY <1>1 DEF WalkOk
<1>7. ASSUME NEW q \in Paths \ t, NEW i \in DOMAIN w.listed, w.listed[i] = q
      PROVE  {j \in DOMAIN w.listed : w.listed[j] = q} = {i} /\ Kind(d, q) = "file"
  BY <1>1, <1>6, <1>7 DEF WalkOk
<1>8. ResultOk(v, t, d)
  BY <1>5, <1>7 DEF ResultOk
<1> QED BY <1>1, <1>8 DEF ListOk, Listing

LEMMA EndWalk ==
    ASSUME NEW d, DiskOk(d), NEW t, NEW w \in CallRecords, ListOk(w, t, d), w.at = "walk",
           \A p \in Unseen(w) : Kind(d, p) = "none" \/ p \in t,
           NEW m \in Nat, m >= 1, Len(w.frames) = m + 1,
           NEW v, v.at = "walk", v.listed = w.listed, v.frames \in Frames, Len(v.frames) = m,
           \A i \in 1 .. m : v.frames[i] = w.frames[i]
    PROVE  ListOk(v, t, d)
<1> DEFINE fs == w.frames
           gs == v.frames
           p  == fs[m + 1].dir
           e  == fs[m].dir
<1>1. /\ WalkOk(w, t, d) /\ StackOk(w) /\ WaysUntouched(t) /\ fs # <<>>
      /\ ~Entered(w) /\ Focus(w) = p /\ ~Entered(v) /\ Focus(v) = e
  <2>1. m \in 1 .. m
    OBVIOUS
  <2> QED BY <2>1 DEF ListOk, Listing, WalkOk, StackOk, Focus, Entered
<1>2. fs \in Frames /\ \A i \in DOMAIN w.listed : w.listed[i] \in Paths
  BY CallFacts
<1>3. /\ DOMAIN fs = 1 .. m + 1 /\ m + 1 \in DOMAIN fs /\ m \in DOMAIN fs
      /\ DOMAIN gs = 1 .. m /\ gs # <<>> /\ gs[Len(gs)] = fs[m]
      /\ \A i \in DOMAIN fs : i \in DOMAIN gs \/ i = m + 1
      /\ \A i \in DOMAIN gs : i \in DOMAIN fs /\ gs[i] = fs[i]
  <2>1. DOMAIN fs = 1 .. m + 1 /\ DOMAIN gs = 1 .. m
    BY <1>1, <1>2, FrameFacts DEF Frames
  <2> QED BY <2>1
<1>4. /\ e \in Paths /\ p \in Paths /\ e \in Seq(STRING) /\ p \in Seq(STRING)
      /\ Len(e) \in Nat /\ Len(p) \in Nat
      /\ \A i \in DOMAIN fs : fs[i].dir \in Paths /\ fs[i].dir \in Seq(STRING)
  BY <1>1, <1>2, <1>3, FrameFacts
<1>5. Stacked(fs, p)
  BY <1>1 DEF StackOk
<1>6. Stacked(gs, p)
  BY <1>3, <1>5 DEF Stacked
<1>7. p \in Children(e)
  <2>1. PICK k : k = m + 1 /\ k \in DOMAIN fs /\ m <= k
    BY <1>3
  <2>2. Len(fs[k].dir) = Len(fs[m].dir) + (k - m)
    BY <1>3, <1>5, <2>1 DEF Stacked
  <2>3. Len(p) = Len(e) + 1 /\ p # e
    BY <1>4, <2>1, <2>2
  <2>4. Within(e, p)
    BY <1>3, <1>5 DEF Stacked
  <2> QED BY <1>4, <2>3, <2>4 DEF Within, Children
<1>8. /\ Stacked(gs, e)
      /\ \A q \in Paths : CoveredBy(gs, e, q) <=> CoveredBy(gs, p, q) \/ Within(p, q)
  <2>1. PICK g, x, y : g \in Frames /\ g = gs /\ x = e /\ y = p
    OBVIOUS
  <2>2. g # <<>> /\ x = g[Len(g)].dir /\ Stacked(g, y) /\ y \in Children(x)
    BY <1>3, <1>6, <1>7, <2>1
  <2>3. Stacked(g, x) /\ \A q \in Paths : CoveredBy(g, x, q) <=> CoveredBy(g, y, q) \/ Within(y, q)
    BY <2>1, <2>2, Leave
  <2> QED BY <2>1, <2>3
<1>9. ASSUME NEW q \in Paths
      PROVE  /\ CoveredBy(gs, p, q) => CoveredBy(fs, p, q)
             /\ CoveredBy(fs, p, q) => CoveredBy(gs, p, q) \/ Under(p, q)
             /\ Under(p, q) /\ Toward(p, q) \in fs[m + 1].seen => CoveredBy(fs, p, q)
  <2>1. ASSUME Under(p, q) PROVE ~Within(Toward(p, q), p)
    <3>1. Toward(p, q) \in Seq(STRING) /\ Len(Toward(p, q)) = Len(p) + 1
      BY <1>4, <2>1, UnderFacts, UniverseFacts
    <3>2. ~(Len(p) >= Len(Toward(p, q)))
      BY <1>4, <3>1
    <3> QED BY <1>4, <3>1, <3>2, WithinIs
  <2> QED BY <1>3, <2>1 DEF CoveredBy
<1>10. StackOk(v)
  BY <1>1, <1>3, <1>8 DEF StackOk
<1>11. ASSUME NEW q \in Paths \ t, Kind(d, q) = "file", Covered(v, q)
       PROVE  Covered(w, q)
  <2>1. CoveredBy(gs, p, q) \/ Within(p, q)
    BY <1>1, <1>8, <1>11 DEF Covered
  <2>2. CASE CoveredBy(gs, p, q)
    BY <1>1, <1>9, <2>2 DEF Covered
  <2>3. CASE q = p
    BY <1>1, <1>3, <1>11, <2>3 DEF WalkOk
  <2>4. CASE Under(p, q)
    <3>1. \A x \in Children(p) \ fs[m + 1].seen : Kind(d, x) = "none" \/ x \in t
      BY DEF Unseen
    <3>2. Toward(p, q) \in fs[m + 1].seen
      BY <1>1, <1>4, <1>11, <2>4, <3>1, SeenAll
    <3> QED BY <1>1, <1>9, <2>4, <3>2 DEF Covered
  <2> QED BY <2>1, <2>2, <2>3, <2>4 DEF Within
<1>12. ASSUME NEW q \in Paths, Covered(w, q) PROVE Covered(v, q)
  <2>1. CoveredBy(gs, p, q) \/ Under(p, q)
    BY <1>1, <1>9, <1>12 DEF Covered
  <2>2. CoveredBy(gs, e, q)
    BY <1>8, <2>1 DEF Within
  <2> QED BY <1>1, <2>2 DEF Covered
<1>13. ASSUME NEW i \in DOMAIN gs, gs[i].dir \notin t PROVE Kind(d, gs[i].dir) = "dir"
  <2>1. i \in DOMAIN fs /\ gs[i] = fs[i] /\ fs[i].dir \notin t
    BY <1>3, <1>13
  <2>2. Kind(d, fs[i].dir) = "dir"
    BY <1>1, <2>1 DEF WalkOk
  <2> QED BY <2>1, <2>2
<1>14. WalkOk(v, t, d)
  <2>1. ASSUME NEW q \in Paths \ t, Kind(d, q) = "file", Covered(v, q)
        PROVE  \E i \in DOMAIN v.listed : v.listed[i] = q
    <3>1. Covered(w, q)
      BY <1>11, <2>1
    <3> QED BY <1>1, <2>1, <3>1 DEF WalkOk
  <2>2. ASSUME NEW i \in DOMAIN v.listed
        PROVE  /\ Covered(v, v.listed[i])
               /\ v.listed[i] \notin t => Kind(d, v.listed[i]) = "file"
    <3>1. w.listed[i] \in Paths /\ Covered(w, w.listed[i])
      BY <1>1, <1>2 DEF WalkOk
    <3>2. Covered(v, w.listed[i])
      BY <1>12, <3>1
    <3> QED BY <1>1, <3>2 DEF WalkOk
  <2>3. \A i, j \in DOMAIN v.listed : v.listed[i] = v.listed[j] => i = j
    BY <1>1 DEF WalkOk
  <2>4. v.at # "stat"
    OBVIOUS
  <2> QED BY <1>10, <1>13, <2>1, <2>2, <2>3, <2>4 DEF WalkOk
<1> QED BY <1>1, <1>14 DEF ListOk, Listing

LEMMA StartList ==
    ASSUME NEW d, DiskOk(d), NEW p \in Paths
    PROVE  /\ ListOk(At("opendir", p), {}, d)
           /\ Kind(d, p) # "dir" =>
                 \A v : v.at = "listed" /\ v.arg = p /\ v.listed = <<p>> => ListOk(v, {}, d)
<1>1. WaysUntouched({})
  BY DEF WaysUntouched
<1>2. PICK w : w = At("opendir", p)
  OBVIOUS
<1>3. /\ w.at = "opendir" /\ w.arg = p /\ w.frames = <<>> /\ w.listed = <<>>
      /\ DOMAIN w.frames = {} /\ DOMAIN w.listed = {}
  BY <1>2 DEF At
<1>4. Entered(w) /\ \A q : ~Covered(w, q)
  BY <1>3 DEF Entered, Covered, CoveredBy
<1>5. StackOk(w)
  BY <1>3 DEF StackOk, Stacked
<1>6. WalkOk(w, {}, d)
  BY <1>3, <1>4, <1>5 DEF WalkOk
<1>7. ListOk(w, {}, d)
  BY <1>1, <1>3, <1>6 DEF ListOk
<1>8. ASSUME Kind(d, p) # "dir", NEW v, v.at = "listed", v.arg = p, v.listed = <<p>>
      PROVE  ListOk(v, {}, d)
  <2>1. DOMAIN v.listed = {1} /\ v.listed[1] = p
    BY <1>8
  <2>2. \A q \in DOMAIN d : ~Under(p, q)
    BY <1>8, OnTheWay
  <2>3. \A q : Kind(d, q) = "file" => q \in DOMAIN d
    BY DiskFacts
  <2>4. \A q \in Paths : Under(p, q) => p # q
    BY UniverseFacts DEF Under
  <2>5. ASSUME NEW q \in Paths, Under(p, q)
        PROVE  Kind(d, q) # "file" /\ {i \in DOMAIN v.listed : v.listed[i] = q} = {}
    BY <2>1, <2>2, <2>3, <2>4, <2>5
  <2>6. ResultOk(v, {}, d)
    BY <1>8, <2>5 DEF ResultOk
  <2> QED BY <1>1, <1>8, <2>6 DEF ListOk
<1> QED BY <1>2, <1>7, <1>8

\* A step of list_files.
LEMMA ListStep ==
    ASSUME IInv, NEW c \in Processes, NEW w, Steps(c, w), w.at # "unlink",
           UNCHANGED <<disk, lockVars>>, NEW t \in SUBSET Paths,
           touched' = [touched EXCEPT ![c] = t], ListOk(w, t, disk)
    PROVE  IInv'
<1>1. /\ call' \in [Processes -> CallRecords] /\ call'[c] = w
      /\ \A e \in Processes : e # c => call'[e] = call[e]
      /\ \A e \in Processes : call'[e].at = "copy" => call'[e].arg \in Paths
  BY StepsFacts
<1>2. /\ touched' \in [Processes -> SUBSET Paths] /\ touched'[c] = t
      /\ \A e \in Processes : e # c => touched'[e] = touched[e]
  BY DEF IInv, Typed
<1>3. DiskOk(disk)' /\ SameLocks(disk, disk')
  BY DEF IInv, SameLocks
<1>4. LocksOk'
  BY <1>1, <1>3, LocksKept
<1>5. ASSUME NEW e \in Processes PROVE ListOk(call'[e], touched'[e], disk)
  BY <1>1, <1>2 DEF IInv
<1>6. Typed'
  BY <1>1, <1>2 DEF IInv, Typed, Steps, lockVars
<1> QED BY <1>3, <1>4, <1>5, <1>6 DEF IInv

LEMMA WalkStep ==
    ASSUME IInv, NEW c \in Processes, NEW w \in CallRecords, w.at \in Listing, Goes(c, w),
           ListOk(w, touched[c], disk), UNCHANGED <<disk, touched, lockVars>>
    PROVE  IInv'
<1>1. w.at # "unlink" /\ w.at # "copy"
  BY DEF Listing
<1>2. Steps(c, w)
  BY <1>1, GoesSteps
<1>3. /\ touched[c] \in SUBSET Paths
      /\ touched' = [touched EXCEPT ![c] = touched[c]]
  BY DEF IInv, Typed
<1> QED BY <1>1, <1>2, <1>3, ListStep

LEMMA ListFailsOk == ASSUME IInv, NEW c \in Processes, ListFails(c) PROVE IInv'
<1>1. Steps(c, Idle) /\ Idle.at = "idle"
  BY IdleSteps, RecordFacts DEF ListFails
<1>2. ListOk(Idle, {}, disk) /\ {} \in SUBSET Paths /\ Idle.at # "unlink"
  BY <1>1 DEF ListOk, Listing
<1> QED BY <1>1, <1>2, ListStep DEF ListFails

LEMMA ListFilesOk == ASSUME IInv, NEW c \in Processes, ListFiles(c) PROVE IInv'
<1>1. PICK p, w :
         /\ p \in Paths
         /\ Call(c, "list_files", w)
         /\ w = IF Kind(disk, p) = "dir" THEN At("opendir", p)
                ELSE [At("listed", p) EXCEPT !.listed = <<p>>]
  BY DEF ListFiles
<1>2. /\ DiskOk(disk) /\ UNCHANGED <<disk, lockVars>> /\ p \in Paths
      /\ touched' = [touched EXCEPT ![c] = {}] /\ {} \in SUBSET Paths
  BY <1>1 DEF IInv, ListFiles
<1>3. CASE Kind(disk, p) = "dir"
  <2>1. w \in CallRecords /\ w.at = "opendir"
    BY <1>1, <1>3, RecordFacts DEF Listing
  <2>2. Steps(c, w)
    BY <1>1, <2>1, CallSteps
  <2>3. ListOk(w, {}, disk)
    BY <1>1, <1>2, <1>3, StartList
  <2> QED BY <1>2, <2>1, <2>2, <2>3, ListStep
<1>4. CASE Kind(disk, p) # "dir"
  <2>1. PICK v : v = At("listed", p) /\ v \in CallRecords /\ v.at = "listed" /\ v.arg = p
    BY <1>2, RecordFacts DEF Listing
  <2>2. PICK s \in Seq(Paths) : s = <<p>>
    <3>1. <<p>> \in Seq(Paths)
      BY <1>2
    <3> QED BY <3>1
  <2>3. w = [v EXCEPT !.listed = s]
    BY <1>1, <1>4, <2>1, <2>2
  <2>4. w \in CallRecords /\ w.at = "listed" /\ w.arg = p /\ w.listed = s
    BY <2>1, <2>3 DEF CallRecords
  <2>5. Steps(c, w)
    BY <1>1, <2>4, CallSteps
  <2>6. ListOk(w, {}, disk)
    BY <1>2, <1>4, <2>2, <2>4, StartList
  <2> QED BY <1>2, <2>4, <2>5, <2>6, ListStep
<1> QED BY <1>3, <1>4

LEMMA OpenRecord ==
    ASSUME NEW w \in CallRecords, w.arg \in Paths, NEW v,
           v = [w EXCEPT !.at = "walk", !.frames = Append(@, [dir |-> w.arg, seen |-> {}])]
    PROVE  /\ v \in CallRecords /\ v.at = "walk" /\ v.listed = w.listed
           /\ v.frames = Append(w.frames, [dir |-> w.arg, seen |-> {}])
<1>1. PICK gs : gs = Append(w.frames, [dir |-> w.arg, seen |-> {}])
  OBVIOUS
<1>2. gs \in Seq([dir : Paths, seen : SUBSET Paths])
  <2>1. PICK r \in [dir : Paths, seen : SUBSET Paths] : r = [dir |-> w.arg, seen |-> {}]
    <3>1. [dir |-> w.arg, seen |-> {}] \in [dir : Paths, seen : SUBSET Paths]
      OBVIOUS
    <3> QED BY <3>1
  <2>2. w.frames \in Frames /\ gs = Append(w.frames, r)
    BY <1>1, <2>1, CallFacts
  <2> QED BY <2>1, <2>2, AppendProperties DEF Frames
<1>3. v = [w EXCEPT !.at = "walk", !.frames = gs]
  BY <1>1
<1> QED BY <1>1, <1>2, <1>3 DEF CallRecords, Listing

LEMMA OpenDirectoryOk == ASSUME IInv, NEW c \in Processes, OpenDirectory(c) PROVE IInv'
<1>1. PICK w : w = call[c]
  OBVIOUS
<1>2. /\ w \in CallRecords /\ w.at = "opendir" /\ ListOk(w, touched[c], disk)
      /\ UNCHANGED <<disk, touched, lockVars>>
  BY <1>1 DEF IInv, Typed, OpenDirectory
<1>3. PICK v : /\ v = [w EXCEPT !.at = "walk", !.frames = Append(@, [dir |-> w.arg, seen |-> {}])]
               /\ Goes(c, IF Kind(disk, w.arg) # "dir" THEN Idle ELSE v)
  BY <1>1 DEF OpenDirectory
<1>4. w.arg \in Paths
  BY <1>2 DEF ListOk, WalkOk, StackOk, Entered
<1>5. CASE Kind(disk, w.arg) # "dir"
  BY <1>2, <1>3, <1>5, IdleSteps, QuietStep
<1>6. CASE Kind(disk, w.arg) = "dir"
  <2>1. /\ v \in CallRecords /\ v.at = "walk" /\ v.listed = w.listed
        /\ v.frames = Append(w.frames, [dir |-> w.arg, seen |-> {}])
    BY <1>2, <1>3, <1>4, OpenRecord
  <2>2. ListOk(v, touched[c], disk)
    BY <1>2, <1>6, <2>1, OpenWalk
  <2> QED BY <1>2, <1>3, <1>6, <2>1, <2>2, WalkStep DEF Listing
<1> QED BY <1>5, <1>6

\* Where the walk w is when it has found entry p.
AtEntry(w, p) == [w EXCEPT !.at = "stat", !.arg = p,
                           !.frames[Len(w.frames)].seen = @ \cup {p}]

LEMMA NextRecord ==
    ASSUME NEW w \in CallRecords, w.frames # <<>>, NEW p \in Paths, NEW v, v = AtEntry(w, p)
    PROVE  /\ v \in CallRecords /\ v.at = "stat" /\ v.arg = p /\ v.listed = w.listed
           /\ DOMAIN v.frames = DOMAIN w.frames /\ Len(v.frames) = Len(w.frames)
           /\ \A i \in DOMAIN w.frames : v.frames[i].dir = w.frames[i].dir
           /\ \A i \in DOMAIN w.frames : i # Len(w.frames) => v.frames[i].seen = w.frames[i].seen
           /\ v.frames[Len(w.frames)].seen = w.frames[Len(w.frames)].seen \cup {p}
<1>1. PICK fs, n : fs \in Frames /\ fs = w.frames /\ n = Len(fs)
  BY CallFacts
<1>2. /\ n \in Nat /\ DOMAIN fs = 1 .. n /\ n \in DOMAIN fs
      /\ \A i \in DOMAIN fs : fs[i] \in [dir : Paths, seen : SUBSET Paths]
  BY <1>1, FrameFacts
<1>3. PICK r : r = [fs[n] EXCEPT !.seen = fs[n].seen \cup {p}]
  OBVIOUS
<1>4. /\ r \in [dir : Paths, seen : SUBSET Paths]
      /\ r.dir = fs[n].dir /\ r.seen = fs[n].seen \cup {p}
  BY <1>2, <1>3
<1>5. PICK gs : gs = [fs EXCEPT ![n] = r]
  OBVIOUS
<1>6. v = [w EXCEPT !.at = "stat", !.arg = p, !.frames = gs]
  BY <1>1, <1>3, <1>5 DEF AtEntry
<1>7. /\ gs \in Seq([dir : Paths, seen : SUBSET Paths]) /\ DOMAIN gs = DOMAIN fs /\ Len(gs) = n
      /\ \A i \in DOMAIN fs : i # n => gs[i] = fs[i]
      /\ gs[n] = r
  BY <1>1, <1>2, <1>4, <1>5 DEF Frames
<1>8. /\ v \in CallRecords /\ v.at = "stat" /\ v.arg = p /\ v.listed = w.listed
      /\ v.frames = gs
  BY <1>6, <1>7 DEF CallRecords, Listing
<1> QED BY <1>1, <1>2, <1>4, <1>7, <1>8

LEMMA NextEntryOk == ASSUME IInv, NEW c \in Processes, NextEntry(c) PROVE IInv'
<1>1. PICK w : w = call[c]
  OBVIOUS
<1>2. /\ w \in CallRecords /\ w.at = "walk" /\ ListOk(w, touched[c], disk)
      /\ UNCHANGED <<disk, touched, lockVars>>
  BY <1>1 DEF IInv, Typed, NextEntry
<1>3. PICK p, v :
         /\ p \in Unseen(w)
         /\ Kind(disk, p) # "none" \/ p \in touched[c]
         /\ v = AtEntry(w, p)
         /\ Goes(c, v)
  BY <1>1 DEF NextEntry, AtEntry
<1>4. w.frames # <<>> /\ p \in Paths
  <2>1. p \in Unseen(w)
    BY <1>3
  <2> QED BY <1>2, <2>1 DEF ListOk, WalkOk, StackOk, Unseen, Children
<1>5. /\ v \in CallRecords /\ v.at = "stat" /\ v.arg = p /\ v.listed = w.listed
      /\ DOMAIN v.frames = DOMAIN w.frames /\ Len(v.frames) = Len(w.frames)
      /\ \A i \in DOMAIN w.frames : v.frames[i].dir = w.frames[i].dir
      /\ \A i \in DOMAIN w.frames : i # Len(w.frames) => v.frames[i].seen = w.frames[i].seen
      /\ v.frames[Len(w.frames)].seen = w.frames[Len(w.frames)].seen \cup {p}
  BY <1>2, <1>3, <1>4, NextRecord
<1>6. ListOk(v, touched[c], disk)
  BY <1>2, <1>3, <1>5, NextWalk
<1> QED BY <1>2, <1>3, <1>5, <1>6, WalkStep DEF Listing

\* Where the walk w is when it has found out that its entry is no directory.
Listed(w) == [w EXCEPT !.at = "walk", !.listed = Append(@, w.arg)]

LEMMA ListedRecord ==
    ASSUME NEW w \in CallRecords, w.arg \in Paths, NEW v, v = Listed(w)
    PROVE  /\ v \in CallRecords /\ v.at = "walk" /\ v.frames = w.frames
           /\ \E m \in Nat : /\ DOMAIN w.listed = 1 .. m /\ DOMAIN v.listed = 1 .. m + 1
                             /\ \A i \in 1 .. m : v.listed[i] = w.listed[i]
                             /\ v.listed[m + 1] = w.arg
<1>1. PICK s \in Seq(Paths), p \in Paths : s = w.listed /\ p = w.arg
  BY CallFacts
<1>2. PICK r : r = Append(s, p)
  OBVIOUS
<1>3. PICK m \in Nat : m = Len(s)
  OBVIOUS
<1>4. /\ r \in Seq(Paths) /\ DOMAIN s = 1 .. m /\ DOMAIN r = 1 .. m + 1
      /\ \A i \in 1 .. m : r[i] = s[i]
      /\ r[m + 1] = p
  BY <1>2, <1>3
<1>5. v = [w EXCEPT !.at = "walk", !.listed = r]
  BY <1>1, <1>2 DEF Listed
<1>6. v \in CallRecords /\ v.at = "walk" /\ v.frames = w.frames /\ v.listed = r
  BY <1>4, <1>5 DEF CallRecords, Listing
<1> QED BY <1>1, <1>4, <1>6

LEMMA StatOk == ASSUME IInv, NEW c \in Processes, Stat(c) PROVE IInv'
<1>1. PICK w : w = call[c]
  OBVIOUS
<1>2. /\ w \in CallRecords /\ w.at = "stat" /\ ListOk(w, touched[c], disk) /\ DiskOk(disk)
      /\ UNCHANGED <<disk, touched, lockVars>>
  BY <1>1 DEF IInv, Typed, Stat
<1>3. w.arg \in Paths
  BY <1>2 DEF ListOk, WalkOk, StackOk, Entered
<1>4. CASE Kind(disk, w.arg) = "dir"
  <2>1. PICK v : v = [w EXCEPT !.at = "opendir"] /\ Goes(c, v)
    BY <1>1, <1>4 DEF Stat
  <2>2. /\ v \in CallRecords /\ v.at = "opendir" /\ v.arg = w.arg /\ v.listed = w.listed
        /\ v.frames = w.frames
    BY <1>2, <2>1 DEF CallRecords, Listing
  <2>3. ListOk(v, touched[c], disk)
    BY <1>2, <2>2, StatWalk
  <2> QED BY <1>2, <2>1, <2>2, <2>3, WalkStep DEF Listing
<1>5. CASE Kind(disk, w.arg) # "dir"
  <2>1. PICK v : v = Listed(w) /\ Goes(c, v)
    BY <1>1, <1>5 DEF Stat, Listed
  <2>2. v \in CallRecords /\ v.at = "walk" /\ v.frames = w.frames
    BY <1>2, <1>3, <2>1, ListedRecord
  <2>3. PICK m \in Nat : /\ DOMAIN w.listed = 1 .. m /\ DOMAIN v.listed = 1 .. m + 1
                         /\ \A i \in 1 .. m : v.listed[i] = w.listed[i]
                         /\ v.listed[m + 1] = w.arg
    BY <1>2, <1>3, <2>1, ListedRecord
  <2>4. ListOk(v, touched[c], disk)
    BY <1>2, <1>5, <2>2, <2>3, StatFileWalk
  <2> QED BY <1>2, <2>1, <2>2, <2>4, WalkStep DEF Listing
<1> QED BY <1>4, <1>5

\* Where the walk w is when it has left its last directory.
Back(w) ==
    [w EXCEPT !.at = IF Len(w.frames) = 1 THEN "listed" ELSE "walk",
              !.arg = w.frames[Len(w.frames)].dir,
              !.frames = SubSeq(@, 1, Len(w.frames) - 1)]

LEMMA BackRecord ==
    ASSUME NEW w \in CallRecords, w.frames # <<>>, NEW v, v = Back(w)
    PROVE  /\ v \in CallRecords /\ v.listed = w.listed
           /\ v.arg = w.frames[Len(w.frames)].dir
           /\ \/ v.at = "listed" /\ 1 = Len(w.frames)
              \/ /\ v.at = "walk"
                 /\ \E m \in Nat : /\ m >= 1 /\ Len(w.frames) = m + 1
                                   /\ Len(v.frames) = m
                                   /\ \A i \in 1 .. m : v.frames[i] = w.frames[i]
<1>1. PICK fs, n : fs \in Frames /\ fs = w.frames /\ n = Len(fs)
  BY CallFacts
<1>2. n \in Nat /\ n \in DOMAIN fs /\ DOMAIN fs = 1 .. n /\ fs[n].dir \in Paths
  BY <1>1, FrameFacts
<1>3. PICK m \in Nat : n = m + 1
  <2>1. n - 1 \in Nat /\ n = (n - 1) + 1
    BY <1>2
  <2> QED BY <2>1
<1>4. PICK gs : gs = SubSeq(fs, 1, m)
  OBVIOUS
<1>5. /\ gs \in Seq([dir : Paths, seen : SUBSET Paths]) /\ Len(gs) = m
      /\ \A i \in 1 .. m : gs[i] = fs[i]
  <2>1. m \in 0 .. Len(fs) /\ fs \in Seq([dir : Paths, seen : SUBSET Paths])
    BY <1>1, <1>2, <1>3 DEF Frames
  <2> QED BY <1>4, <2>1, PrefixFacts
<1>6. PICK place \in {"listed", "walk"} :
         /\ place = IF n = 1 THEN "listed" ELSE "walk"
         /\ place = "listed" => n = 1
         /\ place = "walk" => m >= 1
  <2>1. CASE n = 1
    BY <2>1
  <2>2. CASE n # 1
    <3>1. m >= 1
      BY <1>2, <1>3, <2>2
    <3> QED BY <2>2, <3>1
  <2> QED BY <2>1, <2>2
<1>7. v = [w EXCEPT !.at = place, !.arg = fs[n].dir, !.frames = gs]
  <2>1. n - 1 = m
    BY <1>3
  <2> QED BY <1>1, <1>4, <1>6, <2>1 DEF Back
<1>8. /\ v \in CallRecords /\ v.at = place /\ v.arg = fs[n].dir /\ v.frames = gs
      /\ v.listed = w.listed
  BY <1>2, <1>5, <1>7 DEF CallRecords, Listing
<1>9. CASE place = "listed"
  BY <1>1, <1>6, <1>8, <1>9
<1>10. CASE place = "walk"
  BY <1>1, <1>3, <1>5, <1>6, <1>8, <1>10
<1> QED BY <1>9, <1>10

LEMMA EndOfDirectoryOk == ASSUME IInv, NEW c \in Processes, EndOfDirectory(c) PROVE IInv'
<1>1. PICK w : w = call[c]
  OBVIOUS
<1>2. /\ w \in CallRecords /\ w.at = "walk" /\ ListOk(w, touched[c], disk) /\ DiskOk(disk)
      /\ UNCHANGED <<disk, touched, lockVars>>
      /\ \A p \in Unseen(w) : Kind(disk, p) = "none" \/ p \in touched[c]
  BY <1>1 DEF IInv, Typed, EndOfDirectory
<1>3. PICK v : v = Back(w) /\ Goes(c, v)
  BY <1>1 DEF EndOfDirectory, Back
<1>4. w.frames # <<>>
  BY <1>2 DEF ListOk, WalkOk, StackOk
<1>5. /\ v \in CallRecords /\ v.listed = w.listed
      /\ v.arg = w.frames[Len(w.frames)].dir
      /\ \/ v.at = "listed" /\ 1 = Len(w.frames)
         \/ /\ v.at = "walk"
            /\ \E m \in Nat : /\ m >= 1 /\ Len(w.frames) = m + 1
                              /\ Len(v.frames) = m
                              /\ \A i \in 1 .. m : v.frames[i] = w.frames[i]
  BY <1>2, <1>3, <1>4, BackRecord
<1>6. CASE v.at = "listed" /\ 1 = Len(w.frames)
  <2>1. v.arg = w.frames[1].dir
    BY <1>5, <1>6
  <2>2. ListOk(v, touched[c], disk)
    BY <1>2, <1>5, <1>6, <2>1, EndList
  <2> QED BY <1>2, <1>3, <1>5, <1>6, <2>2, WalkStep DEF Listing
<1>7. CASE v.at = "walk"
  <2>1. PICK m \in Nat : /\ m >= 1 /\ Len(w.frames) = m + 1 /\ Len(v.frames) = m
                         /\ \A i \in 1 .. m : v.frames[i] = w.frames[i]
    BY <1>5, <1>7
  <2>2. v.frames \in Frames
    BY <1>5, CallFacts
  <2>3. ListOk(v, touched[c], disk)
    BY <1>2, <1>5, <1>7, <2>1, <2>2, EndWalk
  <2> QED BY <1>2, <1>3, <1>5, <1>7, <2>3, WalkStep DEF Listing
<1> QED BY <1>5, <1>6, <1>7

(* ----------------------------- the theorems ----------------------------- *)

LEMMA NextOk == IInv /\ [Next]_vars => IInv'
<1> SUFFICES ASSUME IInv, [Next]_vars PROVE IInv'
  OBVIOUS
<1>1. CASE UNCHANGED vars
  BY <1>1 DEF vars, IInv, Typed, DiskOk, LocksOk, LockFileHasHolder, SoleHolderIsRecorded,
              Holders, ListOk
<1>2. ASSUME NEW c \in Processes,
             Create(c) \/ Rename(c) \/ Remove(c) \/ Mkdir(c)
      PROVE  IInv'
  BY <1>2, CreateOk, RenameOk, RemoveOk, MkdirOk
<1>3. ASSUME NEW c \in Processes,
             Open(c) \/ OpenEnds(c) \/ Copy(c) \/ CopyEntry(c) \/ CopyEnds(c)
      PROVE  IInv'
  BY <1>3, OpenOk, EndsOk, CopyOk, CopyEntryOk
<1>4. ASSUME NEW c \in Processes,
             \/ ListFiles(c) \/ OpenDirectory(c) \/ NextEntry(c)
             \/ Stat(c) \/ EndOfDirectory(c) \/ ListFails(c)
      PROVE  IInv'
  BY <1>4, ListFilesOk, OpenDirectoryOk, NextEntryOk, StatOk, EndOfDirectoryOk, ListFailsOk
<1>5. ASSUME NEW c \in Processes, Lock(c) \/ Release(c) \/ Unlink(c) \/ Dies(c)
      PROVE  IInv'
  BY <1>5, LockOk, ReleaseOk, UnlinkOk, DiesOk
<1> QED BY <1>1, <1>2, <1>3, <1>4, <1>5 DEF Next

LEMMA Invariance == Spec => []IInv
BY InitOk, NextOk, PTL DEF Spec

\* The variables have their types, through every call of any number of
\* processes, failed or not.
THEOREM TypeCorrect == Spec => []TypeOK
<1>1. ASSUME IInv PROVE TypeOK
  <2>1. /\ \A p \in DOMAIN disk : disk[p] \in {"file", "dir"}
        /\ DOMAIN disk \subseteq Universe
    BY <1>1 DEF IInv, DiskOk
  <2>2. \A h \in sole : h[2] \in held[h[1]]
    BY <1>1 DEF IInv, Typed, IsHeld
  <2> QED BY <1>1, <2>1, <2>2 DEF IInv, Typed, TypeOK, CallRecords, Universe
<1> QED BY <1>1, Invariance, PTL

\* A lock file is on the disk only while a process holds a path that it stands
\* for, or because a process died that did.
THEOREM LockFileHasHolderHolds == Spec => []LockFileHasHolder
<1>1. IInv => LockFileHasHolder
  BY DEF IInv, LocksOk
<1> QED BY <1>1, Invariance, PTL

\* A process that alone locked a path, and could open the lock file, has it on
\* the disk, whatever the others create, move and remove, and whoever dies.
THEOREM SoleHolderIsRecordedHolds == Spec => []SoleHolderIsRecorded
<1>1. IInv => SoleHolderIsRecorded
  BY DEF IInv, LocksOk
<1> QED BY <1>1, Invariance, PTL

\* list_files of a directory returns what nobody touched as it should be,
\* whatever the other processes change meanwhile, in directories of any depth.
THEOREM ListingIsRightHolds == Spec => []ListingIsRight
<1>1. IInv => ListingIsRight
  BY DEF IInv, ListOk, ResultOk, ListingIsRight
<1> QED BY <1>1, Invariance, PTL
=============================================================================
