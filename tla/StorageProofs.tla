---------------------------- MODULE StorageProofs ----------------------------
(***************************************************************************)
(* Proofs about CompiledArtifacts for every set of threads, processes and  *)
(* recipes and every limit of the caches, and about Installer for every    *)
(* set of installers and manifests.                                        *)
(***************************************************************************)
EXTENDS CompiledArtifacts, Installer, SequenceTheorems, WellFoundedInduction

(***************************************************************************)
(* CompiledArtifacts: the inductive invariant                              *)
(***************************************************************************)
PCs == {"idle", "lookup", "waiting", "done"} \cup Compiling
Call == [pc : PCs, key : Keys \cup {None}, identity : 0 .. MaxVersion, out : Outcomes,
         since : 0 .. MaxVersion]
Row == [key : Keys, out : Outcomes]
Tables == [entries : Seq(Row), rejections : Seq(Row), pending : SUBSET Keys]

\* What the proofs need of the types.
Shape ==
  /\ withStore \in SUBSET Procs /\ version \in Versions /\ temps \in Nat
  /\ disk \in Seq(Files) /\ lock \in Threads \cup {None}
  /\ cache \in [Procs -> Tables]
  /\ call \in [Threads -> Call]

\* The flock is held exactly inside the locked region.
LockOK == \A t \in Threads : call[t].pc \in Locked <=> lock = t

\* An outcome decides the recipe of a key, by an exporter that is no older.
Answers(out, key) ==
  out.kind \in {"artifact", "unsupported"} => out.recipe = key[1] /\ out.ver >= key[2]

\* A key never names an exporter newer than the installed one; the digest of a
\* call was read after its key was made, and what it publishes was compiled by
\* the exporter the file will be named after.
CallOK(t) ==
  /\ call[t].pc # "idle" =>
       call[t].key \in Keys /\ call[t].since = call[t].key[2] /\ call[t].key[2] <= version
  /\ call[t].pc \in {"enter"} \cup Locked =>
       call[t].key[2] <= call[t].identity /\ call[t].identity <= version
  /\ call[t].pc \in {"publish", "replace", "verify", "finish", "done"} =>
       Answers(call[t].out, call[t].key)
  /\ call[t].pc \in {"publish", "replace"} =>
       /\ call[t].out.kind = "artifact"
       /\ call[t].identity <= call[t].out.ver /\ call[t].out.ver <= version
  /\ call[t].pc = "replace" => call[t].out.ver = call[t].identity

\* A sequence that holds a key once.
Unique(s) == \A i, j \in 1 .. Len(s) : s[i].key = s[j].key => i = j
KeysOf(s) == {s[i].key : i \in 1 .. Len(s)}

Sound(table) ==
  /\ Unique(table) /\ Len(table) <= Capacity
  /\ \A i \in 1 .. Len(table) : Answers(table[i].out, table[i].key)
TablesOK == \A p \in Procs : Sound(cache[p].entries) /\ Sound(cache[p].rejections)

\* The directory, and the writer in it: it has no temporary file but its own,
\* and once that is written there is room for it.
Kept(files) ==
  /\ Unique(files) /\ Fits(files, 0, 0)
  /\ \A i \in 1 .. Len(files) : files[i].state # "partial" /\ files[i].ver = files[i].key[2]
DiskOK == Kept(disk)
WriterOK(t) ==
  /\ call[t].pc \in {"compile", "publish"} => temps = 0
  /\ call[t].pc = "replace" => temps = 1 /\ Fits(disk, Size[RecipeOf(t)], 1)

\* A key is pending while one thread of the process compiles it, and nothing
\* pending is decided: SingleFlight, table by table.
Flying(p) == {t \in Threads : ProcOf[t] = p /\ call[t].pc \in Compiling}
FlightOK(p) ==
  /\ cache[p].pending = {call[t].key : t \in Flying(p)}
  /\ \A t, u \in Flying(p) : call[t].key = call[u].key => t = u
  /\ KeysOf(cache[p].entries) \cap KeysOf(cache[p].rejections) = {}
  /\ cache[p].pending \cap (KeysOf(cache[p].entries) \cup KeysOf(cache[p].rejections)) = {}

ArtifactInv ==
  /\ Shape /\ LockOK /\ TablesOK /\ DiskOK /\ temps <= 1
  /\ \A p \in Procs : FlightOK(p)
  /\ \A t \in Threads : CallOK(t) /\ WriterOK(t)

(***************************************************************************)
(* Sequences with keys                                                     *)
(***************************************************************************)
\* q has elements of s in an order of its own.
Drawn(q, s) ==
  \E f \in [1 .. Len(q) -> 1 .. Len(s)] :
    /\ \A i, j \in 1 .. Len(q) : f[i] = f[j] => i = j
    /\ \A i \in 1 .. Len(q) : q[i] = s[f[i]]

\* What is drawn from a sequence holds no key twice and no other.
LEMMA DrawnKeeps ==
  ASSUME NEW T, NEW s \in Seq(T), NEW q \in Seq(T), Drawn(q, s)
  PROVE  /\ Unique(s) => Unique(q)
         /\ KeysOf(q) \subseteq KeysOf(s)
         /\ \A i \in 1 .. Len(q) : \E j \in 1 .. Len(s) : q[i] = s[j]
<1>1. PICK f \in [1 .. Len(q) -> 1 .. Len(s)] :
        /\ \A i, j \in 1 .. Len(q) : f[i] = f[j] => i = j
        /\ \A i \in 1 .. Len(q) : q[i] = s[f[i]]
  BY DEF Drawn
<1>2. \A i \in 1 .. Len(q) : f[i] \in 1 .. Len(s)
  BY <1>1
<1>3. \A i \in 1 .. Len(q) : \E j \in 1 .. Len(s) : q[i] = s[j]
  BY <1>1, <1>2
<1>4. Unique(s) => Unique(q)
  <2> SUFFICES ASSUME Unique(s), NEW i \in 1 .. Len(q), NEW j \in 1 .. Len(q),
                      q[i].key = q[j].key
               PROVE  i = j
    BY DEF Unique
  <2>1. s[f[i]].key = s[f[j]].key
    BY <1>1
  <2>2. f[i] = f[j]
    BY <1>2, <2>1 DEF Unique
  <2> QED BY <1>1, <2>2
<1>5. KeysOf(q) \subseteq KeysOf(s)
  BY <1>3 DEF KeysOf
<1> QED BY <1>3, <1>4, <1>5

\* The newest elements of a sequence.
LEMMA NewestDrawn ==
  ASSUME NEW T, NEW s \in Seq(T), NEW k \in 0 .. Len(s)
  PROVE  LET q == SubSeq(s, k + 1, Len(s))
         IN  q \in Seq(T) /\ Len(q) = Len(s) - k /\ Drawn(q, s)
<1> DEFINE q == SubSeq(s, k + 1, Len(s))
           f == [i \in 1 .. Len(q) |-> k + i]
<1>1. q \in Seq(T) /\ Len(q) = Len(s) - k
  OBVIOUS
<1>2. \A i \in 1 .. Len(s) - k : q[i] = s[k + i]
  OBVIOUS
<1> HIDE DEF q
<1>3. f \in [1 .. Len(q) -> 1 .. Len(s)]
  BY <1>1
<1>4. \A i, j \in 1 .. Len(q) : f[i] = f[j] => i = j
  BY <1>1
<1>5. \A i \in 1 .. Len(q) : q[i] = s[f[i]]
  BY <1>1, <1>2
<1> HIDE DEF f
<1>6. Drawn(q, s)
  BY <1>3, <1>4, <1>5 DEF Drawn
<1> QED BY <1>1, <1>6 DEF q

\* A sequence is drawn from itself.
LEMMA SelfDrawn ==
  ASSUME NEW T, NEW s \in Seq(T)
  PROVE  Drawn(s, s)
<1> DEFINE f == [i \in 1 .. Len(s) |-> i]
<1>1. f \in [1 .. Len(s) -> 1 .. Len(s)]
  OBVIOUS
<1>2. \A i, j \in 1 .. Len(s) : f[i] = f[j] => i = j
  OBVIOUS
<1>3. \A i \in 1 .. Len(s) : s[i] = s[f[i]]
  OBVIOUS
<1> QED BY <1>1, <1>2, <1>3 DEF Drawn

\* A set of numbers that has members has a least one.
LEMMA LeastExists ==
  ASSUME NEW S \in SUBSET Nat, S # {}
  PROVE  Min(S) \in S /\ \A x \in S : Min(S) <= x
<1> DEFINE before == {ss \in Nat \X Nat : ss[1] < ss[2]}
<1>1. IsWellFoundedOn(before, Nat)
  BY NatLessThanWellFounded DEF OpToRel
<1>2. \A x, y \in Nat : x < y => <<x, y>> \in before
  OBVIOUS
<1> HIDE DEF before
<1>3. PICK y \in S : \A x \in S : <<x, y>> \notin before
  BY <1>1, WFMin
<1>4. \A x \in S : y <= x
  <2> SUFFICES ASSUME NEW x \in S PROVE y <= x
    OBVIOUS
  <2>1. x \in Nat /\ y \in Nat /\ ~(x < y)
    BY <1>2, <1>3
  <2> QED BY <2>1
<1> QED BY <1>3, <1>4 DEF Min

\* Removing a position shifts what follows it by one.
LEMMA RemovedAt ==
  ASSUME NEW T, NEW s \in Seq(T), NEW k \in 1 .. Len(s)
  PROVE  /\ RemoveAt(s, k) \in Seq(T)
         /\ Len(RemoveAt(s, k)) = Len(s) - 1
         /\ \A i \in 1 .. Len(s) - 1 :
              RemoveAt(s, k)[i] = s[IF i < k THEN i ELSE i + 1]
<1> DEFINE left == SubSeq(s, 1, k - 1)
           right == SubSeq(s, k + 1, Len(s))
<1>1. left \in Seq(T) /\ Len(left) = k - 1 /\ \A i \in 1 .. k - 1 : left[i] = s[i]
  OBVIOUS
<1>2. /\ right \in Seq(T) /\ Len(right) = Len(s) - k
      /\ \A i \in 1 .. Len(s) - k : right[i] = s[k + i]
  OBVIOUS
<1>3. RemoveAt(s, k) = left \o right
  BY DEF RemoveAt
<1> HIDE DEF left, right
<1>4. /\ left \o right \in Seq(T) /\ Len(left \o right) = Len(left) + Len(right)
      /\ \A i \in 1 .. Len(left) + Len(right) :
           (left \o right)[i] = IF i <= Len(left) THEN left[i] ELSE right[i - Len(left)]
  BY <1>1, <1>2, ConcatProperties
<1>5. ASSUME NEW i \in 1 .. Len(s) - 1
      PROVE  (left \o right)[i] = s[IF i < k THEN i ELSE i + 1]
  <2>1. CASE i < k
    BY <1>1, <1>2, <1>4, <2>1
  <2>2. CASE ~(i < k)
    <3>1. Len(s) \in Nat /\ k \in Int /\ i \in Int
      OBVIOUS
    <3>2. i - (k - 1) \in 1 .. Len(s) - k /\ k + (i - (k - 1)) = i + 1
      BY <2>2, <3>1
    <3>3. (left \o right)[i] = right[i - (k - 1)]
      BY <1>1, <1>2, <1>4, <2>2, <3>1
    <3> QED BY <1>2, <2>2, <3>2, <3>3
  <2> QED BY <2>1, <2>2
<1> QED BY <1>1, <1>2, <1>3, <1>4, <1>5

\* The element of a key is taken out and the others stay.
LEMMA WithoutDrawn ==
  ASSUME NEW T, NEW s \in Seq(T), NEW key
  PROVE  /\ Without(s, key) \in Seq(T)
         /\ Drawn(Without(s, key), s)
         /\ Len(Without(s, key)) <= Len(s)
         /\ key \in KeysOf(s) => Len(Without(s, key)) = Len(s) - 1
         /\ Unique(s) => key \notin KeysOf(Without(s, key))
<1>1. CASE \E i \in 1 .. Len(s) : s[i].key = key
  <2> DEFINE I == {i \in 1 .. Len(s) : s[i].key = key}
             k == Min(I)
  <2>1. Without(s, key) = RemoveAt(s, k)
    BY <1>1 DEF Without, RemoveFirstMatch, SelectInSeq
  <2>2. I \in SUBSET Nat /\ I # {} /\ \A i \in I : i \in 1 .. Len(s) /\ s[i].key = key
    BY <1>1
  <2> HIDE DEF I
  <2>3. k \in 1 .. Len(s) /\ s[k].key = key
    BY <2>2, LeastExists
  <2> HIDE DEF k, I
  <2>4. /\ RemoveAt(s, k) \in Seq(T)
        /\ Len(RemoveAt(s, k)) = Len(s) - 1
        /\ \A i \in 1 .. Len(s) - 1 :
             RemoveAt(s, k)[i] = s[IF i < k THEN i ELSE i + 1]
    BY <2>3, RemovedAt
  <2> DEFINE q == RemoveAt(s, k)
             f == [i \in 1 .. Len(q) |-> IF i < k THEN i ELSE i + 1]
  <2> HIDE DEF q
  <2>5. q \in Seq(T) /\ Len(q) = Len(s) - 1 /\ Len(s) \in Nat
    BY <2>4 DEF q
  <2>6. f \in [1 .. Len(q) -> 1 .. Len(s)]
    BY <2>3, <2>5
  <2>7. \A i, j \in 1 .. Len(q) : f[i] = f[j] => i = j
    BY <2>3, <2>5
  <2>8. \A i \in 1 .. Len(q) : q[i] = s[f[i]] /\ f[i] \in 1 .. Len(s) /\ f[i] # k
    BY <2>3, <2>4, <2>5 DEF q
  <2> HIDE DEF f
  <2>9. Drawn(q, s)
    BY <2>6, <2>7, <2>8 DEF Drawn
  <2>10. Unique(s) => key \notin KeysOf(q)
    BY <2>3, <2>8 DEF Unique, KeysOf
  <2>11. Without(s, key) = q
    BY <2>1 DEF q
  <2> QED BY <2>5, <2>9, <2>10, <2>11
<1>2. CASE ~ \E i \in 1 .. Len(s) : s[i].key = key
  <2>1. Without(s, key) = s
    BY <1>2 DEF Without, RemoveFirstMatch
  <2> QED BY <1>2, <2>1, SelfDrawn DEF KeysOf
<1> QED BY <1>1, <1>2
\* An element with a new key at the end.
LEMMA AppendedKeys ==
  ASSUME NEW T, NEW s \in Seq(T), NEW e \in T
  PROVE  /\ Append(s, e) \in Seq(T) /\ Len(Append(s, e)) = Len(s) + 1
         /\ KeysOf(Append(s, e)) = KeysOf(s) \cup {e.key}
         /\ Unique(s) /\ e.key \notin KeysOf(s) => Unique(Append(s, e))
         /\ \A i \in 1 .. Len(s) + 1 :
              Append(s, e)[i] = e \/ \E j \in 1 .. Len(s) : Append(s, e)[i] = s[j]
<1> DEFINE q == Append(s, e)
<1>1. /\ q \in Seq(T) /\ Len(q) = Len(s) + 1 /\ Len(s) \in Nat
      /\ q[Len(s) + 1] = e /\ \A i \in 1 .. Len(s) : q[i] = s[i]
  BY AppendProperties
<1> HIDE DEF q
<1>2. \A i \in 1 .. Len(s) + 1 : i = Len(s) + 1 \/ i \in 1 .. Len(s)
  BY <1>1
<1>3. 1 .. Len(s) \subseteq 1 .. Len(q) /\ Len(s) + 1 \in 1 .. Len(q)
  BY <1>1
<1>4. KeysOf(q) = KeysOf(s) \cup {e.key}
  BY <1>1, <1>2, <1>3 DEF KeysOf
<1>5. ASSUME Unique(s), e.key \notin KeysOf(s) PROVE Unique(q)
  <2>1. \A i \in 1 .. Len(s) : s[i].key # e.key
    BY <1>5 DEF KeysOf
  <2> QED BY <1>1, <1>2, <1>5, <2>1 DEF Unique
<1> QED BY <1>1, <1>2, <1>4, <1>5 DEF q

\* A sequence has finitely many keys.
LEMMA KeysFinite ==
  ASSUME NEW T, NEW s \in Seq(T)
  PROVE  IsFiniteSet(KeysOf(s))
<1> DEFINE key == [i \in 1 .. Len(s) |-> s[i].key]
<1>1. IsFiniteSet(1 .. Len(s))
  BY FS_Interval
<1>2. key \in Surjection(1 .. Len(s), KeysOf(s))
  BY DEF Surjection, KeysOf
<1> HIDE DEF key
<1> QED BY <1>1, <1>2, FS_Surjection

(***************************************************************************)
(* The bytes of a directory                                                *)
(***************************************************************************)
Sizes == [k \in Keys |-> Size[k[1]]]

\* The bytes of a directory are the total of the sizes under its keys.
LEMMA BytesTotal ==
  ASSUME NEW s \in Seq(Files)
  PROVE  /\ Bytes(s) = Total(KeysOf(s), Sizes) /\ Bytes(s) \in Nat
         /\ KeysOf(s) \subseteq Keys /\ IsFiniteSet(KeysOf(s))
         /\ \A k \in KeysOf(s) : Sizes[k] \in Nat
<1>1. KeysOf(s) \subseteq Keys
  <2>1. \A i \in 1 .. Len(s) : s[i] \in Files
    OBVIOUS
  <2>2. \A f \in Files : f.key \in Keys
    BY DEF Files
  <2> QED BY <2>1, <2>2 DEF KeysOf
<1>2. \A k \in KeysOf(s) : Sizes[k] \in Nat
  BY <1>1, ArtifactConstants DEF Sizes, Keys
<1>3. IsFiniteSet(KeysOf(s))
  BY KeysFinite
<1>4. Bytes(s) = Total(KeysOf(s), Sizes)
  BY DEF Bytes, KeysOf, Sizes
<1> QED BY <1>1, <1>2, <1>3, <1>4, UnitsFinite

\* Fewer keys have no more bytes.
LEMMA BytesFewer ==
  ASSUME NEW s \in Seq(Files), NEW q \in Seq(Files), KeysOf(q) \subseteq KeysOf(s)
  PROVE  Bytes(q) <= Bytes(s)
BY BytesTotal, TotalMonotone

\* A file with a new key adds its size.
LEMMA BytesAppended ==
  ASSUME NEW s \in Seq(Files), NEW f \in Files, f.key \notin KeysOf(s)
  PROVE  Bytes(Append(s, f)) = Bytes(s) + Size[f.key[1]]
<1> DEFINE q == Append(s, f)
<1>1. q \in Seq(Files) /\ KeysOf(q) = KeysOf(s) \cup {f.key}
  BY AppendedKeys
<1> HIDE DEF q
<1>2. /\ Bytes(q) = Total(KeysOf(q), Sizes) /\ IsFiniteSet(KeysOf(q))
      /\ \A k \in KeysOf(q) : Sizes[k] \in Nat
      /\ Bytes(s) = Total(KeysOf(s), Sizes)
  BY <1>1, BytesTotal
<1>3. f.key \in KeysOf(q) /\ KeysOf(q) \ {f.key} = KeysOf(s)
  BY <1>1
<1>4. Total(KeysOf(q), Sizes) = Total(KeysOf(s), Sizes) + Sizes[f.key]
  BY <1>2, <1>3, TotalSplit
<1>5. Sizes[f.key] = Size[f.key[1]]
  BY DEF Sizes, Files
<1> QED BY <1>2, <1>4, <1>5 DEF q

\* _trim leaves the newest files, and leaves room if it is asked for any that
\* the empty directory has.
LEMMA TrimmedFits ==
  ASSUME disk \in Seq(Files), NEW incoming \in Nat, incoming <= MaxBytes, NEW slots \in {0, 1}
  PROVE  /\ TrimDisk(incoming, slots) \in Seq(Files)
         /\ Drawn(TrimDisk(incoming, slots), disk)
         /\ Fits(TrimDisk(incoming, slots), incoming, slots)
<1> DEFINE K == {k \in 0 .. Len(disk) : k = Len(disk) \/ Fits(NewerThan(k), incoming, slots)}
           k == Min(K)
<1>1. /\ K \in SUBSET Nat /\ K # {}
      /\ \A i \in K : /\ i \in 0 .. Len(disk)
                      /\ i = Len(disk) \/ Fits(NewerThan(i), incoming, slots)
  OBVIOUS
<1>2. TrimDisk(incoming, slots) = NewerThan(k)
  BY DEF TrimDisk
<1> HIDE DEF K
<1>3. k \in 0 .. Len(disk) /\ (k = Len(disk) \/ Fits(NewerThan(k), incoming, slots))
  BY <1>1, LeastExists
<1> HIDE DEF k
<1>4. /\ NewerThan(k) \in Seq(Files) /\ Len(NewerThan(k)) = Len(disk) - k
      /\ Drawn(NewerThan(k), disk)
  BY <1>3, NewestDrawn DEF NewerThan
<1>5. CASE k = Len(disk)
  <2>1. Len(NewerThan(k)) = 0
    BY <1>4, <1>5
  <2>2. KeysOf(NewerThan(k)) = {}
    BY <2>1 DEF KeysOf
  <2>3. Units({}, Sizes) = {}
    BY DEF Units
  <2>4. Bytes(NewerThan(k)) = 0
    BY <1>4, <2>2, <2>3, BytesTotal, FS_EmptySet DEF Total
  <2>5. Fits(NewerThan(k), incoming, slots)
    BY <2>1, <2>4, ArtifactConstants DEF Fits
  <2> QED BY <1>2, <1>4, <2>5
<1> QED BY <1>2, <1>3, <1>4, <1>5

(***************************************************************************)
(* The tables of an ArtifactCache                                          *)
(***************************************************************************)
\* What is drawn from a sound table is sound.
LEMMA DrawnSound ==
  ASSUME NEW s \in Seq(Row), NEW q \in Seq(Row), Drawn(q, s), Sound(s), Len(q) <= Capacity
  PROVE  Sound(q)
<1>1. /\ Unique(q)
      /\ \A i \in 1 .. Len(q) : \E j \in 1 .. Len(s) : q[i] = s[j]
  BY DrawnKeeps DEF Sound
<1> QED BY <1>1 DEF Sound

\* _trim bounds a table.
LEMMA TrimBounds ==
  ASSUME NEW s \in Seq(Row)
  PROVE  /\ Trim(s) \in Seq(Row) /\ Drawn(Trim(s), s) /\ Len(Trim(s)) <= Capacity
<1>1. Capacity \in Nat /\ Len(s) \in Nat
  BY ArtifactConstants
<1>2. CASE Len(s) > Capacity
  <2> DEFINE k == Len(s) - Capacity
  <2>1. k \in 0 .. Len(s) /\ Len(s) - k = Capacity
    BY <1>1, <1>2
  <2>2. Trim(s) = SubSeq(s, k + 1, Len(s))
    BY <1>2 DEF Trim
  <2> HIDE DEF k
  <2> QED BY <1>1, <2>1, <2>2, NewestDrawn
<1>3. CASE ~(Len(s) > Capacity)
  BY <1>1, <1>3, SelfDrawn DEF Trim
<1> QED BY <1>2, <1>3

\* A decision is put under its key.
LEMMA PutSound ==
  ASSUME NEW s \in Seq(Row), Sound(s), NEW key \in Keys, NEW out \in Outcomes, Answers(out, key)
  PROVE  /\ Put(s, key, out) \in Seq(Row) /\ Sound(Put(s, key, out))
         /\ KeysOf(Put(s, key, out)) \subseteq KeysOf(s) \cup {key}
<1> DEFINE e == [key |-> key, out |-> out]
           rest == Without(s, key)
           all == Append(rest, e)
<1>1. e \in Row /\ e.key = key /\ e.out = out
  BY DEF Row
<1>2. rest \in Seq(Row) /\ Drawn(rest, s) /\ Unique(s) => key \notin KeysOf(rest)
  BY WithoutDrawn
<1>3. Put(s, key, out) = Trim(all)
  BY DEF Put
<1> HIDE DEF e, rest
<1>4. rest \in Seq(Row) /\ Drawn(rest, s) /\ Unique(rest) /\ key \notin KeysOf(rest)
  BY WithoutDrawn, DrawnKeeps DEF Sound, rest
<1>5. KeysOf(rest) \subseteq KeysOf(s) /\ \A i \in 1 .. Len(rest) : \E j \in 1 .. Len(s) : rest[i] = s[j]
  BY <1>4, DrawnKeeps
<1>6. /\ all \in Seq(Row) /\ Len(all) = Len(rest) + 1
      /\ KeysOf(all) = KeysOf(rest) \cup {key} /\ Unique(all)
      /\ \A i \in 1 .. Len(rest) + 1 : all[i] = e \/ \E j \in 1 .. Len(rest) : all[i] = rest[j]
  BY <1>1, <1>4, AppendedKeys
<1> HIDE DEF all
<1>7. \A i \in 1 .. Len(all) : Answers(all[i].out, all[i].key)
  BY <1>1, <1>5, <1>6 DEF Sound
<1>8. /\ Trim(all) \in Seq(Row) /\ Len(Trim(all)) <= Capacity /\ Unique(Trim(all))
      /\ KeysOf(Trim(all)) \subseteq KeysOf(all)
      /\ \A i \in 1 .. Len(Trim(all)) : \E j \in 1 .. Len(all) : Trim(all)[i] = all[j]
  BY <1>6, TrimBounds, DrawnKeeps
<1>9. Sound(Trim(all))
  BY <1>7, <1>8 DEF Sound
<1> QED BY <1>3, <1>5, <1>6, <1>8, <1>9

\* What a table has under a key, and how a hit renews it.
LEMMA HitSound ==
  ASSUME NEW s \in Seq(Row), Sound(s), NEW key \in Keys, Has(s, key)
  PROVE  /\ Get(s, key) \in Outcomes /\ Answers(Get(s, key), key)
         /\ Touch(s, key) \in Seq(Row) /\ Sound(Touch(s, key))
         /\ KeysOf(Touch(s, key)) \subseteq KeysOf(s)
<1>1. \E i \in 1 .. Len(s) : s[i].key = key
  BY DEF Has
<1>2. PICK e \in Range(s) : e.key = key /\ Get(s, key) = e.out
  <2>1. \E e \in Range(s) : e.key = key
    BY <1>1 DEF Range
  <2>2. (CHOOSE e \in Range(s) : e.key = key) \in Range(s)
        /\ (CHOOSE e \in Range(s) : e.key = key).key = key
    BY <2>1
  <2> QED BY <2>2 DEF Get
<1>3. PICK i \in 1 .. Len(s) : s[i] = e
  BY <1>2 DEF Range
<1>4. e \in Row /\ Answers(e.out, key)
  BY <1>2, <1>3 DEF Sound
<1>5. Get(s, key) \in Outcomes /\ Answers(Get(s, key), key)
  BY <1>2, <1>4 DEF Row
<1>6. key \in KeysOf(s)
  BY <1>1 DEF KeysOf
<1> DEFINE rest == Without(s, key)
           r == [key |-> key, out |-> Get(s, key)]
           all == Append(rest, r)
<1>7. r \in Row /\ r.key = key /\ r.out = Get(s, key)
  BY <1>5 DEF Row
<1>8. Touch(s, key) = all
  BY DEF Touch
<1> HIDE DEF r
<1>9. /\ rest \in Seq(Row) /\ Drawn(rest, s) /\ Len(rest) = Len(s) - 1
      /\ key \notin KeysOf(rest)
  BY <1>6, WithoutDrawn DEF Sound
<1> HIDE DEF rest
<1>10. /\ Unique(rest) /\ KeysOf(rest) \subseteq KeysOf(s)
       /\ \A j \in 1 .. Len(rest) : \E m \in 1 .. Len(s) : rest[j] = s[m]
  BY <1>9, DrawnKeeps DEF Sound
<1>11. /\ all \in Seq(Row) /\ Len(all) = Len(rest) + 1
       /\ KeysOf(all) = KeysOf(rest) \cup {key} /\ Unique(all)
       /\ \A j \in 1 .. Len(rest) + 1 : all[j] = r \/ \E m \in 1 .. Len(rest) : all[j] = rest[m]
  BY <1>7, <1>9, <1>10, AppendedKeys
<1> HIDE DEF all
<1>12. \A j \in 1 .. Len(all) : Answers(all[j].out, all[j].key)
  BY <1>5, <1>7, <1>10, <1>11 DEF Sound
<1>13. Len(all) <= Capacity
  BY <1>9, <1>11 DEF Sound
<1> QED BY <1>5, <1>6, <1>8, <1>10, <1>11, <1>12, <1>13 DEF Sound

(***************************************************************************)
(* Steps of the artifact caches                                            *)
(***************************************************************************)
\* A process starts with empty tables.
LEMMA EmptyCacheSound ==
  /\ <<>> \in Seq(Row) /\ Sound(<<>>) /\ KeysOf(<<>>) = {} /\ EmptyCache \in Tables
<1>1. <<>> \in Seq(Row) /\ Len(<<>>) = 0
  OBVIOUS
<1>2. KeysOf(<<>>) = {}
  BY DEF KeysOf
<1>3. Sound(<<>>)
  BY ArtifactConstants DEF Sound, Unique
<1> QED BY <1>1, <1>2, <1>3 DEF EmptyCache, Tables

\* A thread that does nothing has the shape of a call.
LEMMA RestIsCall == Rest \in Call
BY ArtifactConstants DEF Rest, Call, PCs, NoOutcome, Outcomes

\* The caches start empty and every thread at rest.
LEMMA ArtifactsInit == Init => ArtifactInv
<1> SUFFICES ASSUME Init PROVE ArtifactInv
  OBVIOUS
<1>1. Shape
  BY EmptyCacheSound, RestIsCall, ArtifactConstants DEF Init, Clients, Shape, Versions
<1>2. LockOK
  BY ArtifactConstants DEF Init, LockOK, Rest, Locked
<1>3. TablesOK /\ \A p \in Procs : FlightOK(p)
  <2>1. \A p \in Procs : cache[p] = EmptyCache
    BY DEF Init
  <2>2. \A p \in Procs : Flying(p) = {}
    BY DEF Init, Flying, Rest, Compiling
  <2> QED BY <2>1, <2>2, EmptyCacheSound DEF TablesOK, FlightOK, EmptyCache
<1>4. DiskOK
  <2>1. disk = <<>> /\ Len(disk) = 0 /\ disk \in Seq(Files)
    BY DEF Init
  <2>2. Units({}, Sizes) = {} /\ KeysOf(disk) = {}
    BY <2>1 DEF Units, KeysOf
  <2>3. Bytes(disk) = 0
    BY <2>1, <2>2, BytesTotal, FS_EmptySet DEF Total
  <2> QED BY <2>1, <2>3, ArtifactConstants DEF DiskOK, Kept, Unique, Fits
<1>5. \A t \in Threads : CallOK(t) /\ WriterOK(t)
  BY DEF Init, Rest, CallOK, WriterOK, Locked
<1> QED BY <1>1, <1>2, <1>3, <1>4, <1>5 DEF ArtifactInv, Init

\* A thread that compiles moves on with its key; the caches stay, and nobody
\* else is in the directory if it changes.
LEMMA ThreadMoves ==
  ASSUME ArtifactInv, NEW t \in Threads, NEW c \in Call,
         call[t].pc \in Compiling, c.pc \in Compiling,
         c.key = call[t].key, c.since = call[t].since,
         call' = [call EXCEPT ![t] = c],
         UNCHANGED <<withStore, version, cache>>,
         disk' \in Seq(Files), temps' \in 0 .. 1,
         \/ lock' = lock /\ (c.pc \in Locked <=> call[t].pc \in Locked)
         \/ lock = None /\ lock' = t /\ c.pc \in Locked
         \/ lock = t /\ lock' = None /\ c.pc \notin Locked,
         lock \in {None, t} \/ UNCHANGED <<disk, temps>>,
         DiskOK', CallOK(t)', WriterOK(t)'
  PROVE  ArtifactInv'
<1>1. /\ \A u \in Threads \ {t} : call'[u] = call[u]
      /\ call'[t] = c
  BY DEF ArtifactInv, Shape
<1>2. Shape'
  BY DEF ArtifactInv, Shape
<1>3. None \notin Threads
  BY ArtifactConstants
<1>4. LockOK'
  BY <1>1, <1>3 DEF ArtifactInv, LockOK
<1>5. TablesOK'
  BY DEF ArtifactInv, TablesOK
<1>6. ASSUME NEW p \in Procs PROVE FlightOK(p)'
  <2>1. Flying(p)' = Flying(p)
    BY <1>1 DEF Flying
  <2>2. \A u \in Threads : call'[u].key = call[u].key
    BY <1>1
  <2>3. {call'[u].key : u \in Flying(p)} = {call[u].key : u \in Flying(p)}
    BY <2>2 DEF Flying
  <2> HIDE DEF Flying
  <2>4. FlightOK(p) /\ cache' = cache /\ Flying(p) \subseteq Threads
    BY DEF ArtifactInv, Flying
  <2>5. cache'[p].pending = {call'[u].key : u \in Flying(p)'}
    BY <2>1, <2>3, <2>4 DEF FlightOK
  <2>6. \A u, v \in Flying(p)' : call'[u].key = call'[v].key => u = v
    BY <2>1, <2>2, <2>4 DEF FlightOK
  <2> QED BY <2>4, <2>5, <2>6 DEF FlightOK
<1>7. ASSUME NEW u \in Threads PROVE CallOK(u)' /\ WriterOK(u)'
  <2>1. CASE u = t
    BY <2>1
  <2>2. CASE u # t
    <3>1. call'[u] = call[u] /\ CallOK(u) /\ WriterOK(u) /\ (call[u].pc \in Locked <=> lock = u)
      BY <1>1, <2>2 DEF ArtifactInv, LockOK
    <3>2. CallOK(u)'
      <4>1. version' = version
        OBVIOUS
      <4> QED BY <3>1, <4>1 DEF CallOK
    <3>3. CASE UNCHANGED <<disk, temps>>
      <4>1. RecipeOf(u)' = RecipeOf(u) /\ disk' = disk /\ temps' = temps
        BY <3>1, <3>3 DEF RecipeOf
      <4>2. Fits(disk, Size[RecipeOf(u)], 1)' = Fits(disk, Size[RecipeOf(u)], 1)
        BY <4>1 DEF Fits, Bytes
      <4> QED BY <3>1, <3>2, <4>1, <4>2 DEF WriterOK
    <3>4. CASE lock \in {None, t}
      BY <1>3, <2>2, <3>1, <3>2, <3>4 DEF WriterOK, Locked
    <3> QED BY <3>2, <3>3, <3>4
  <2> QED BY <2>1, <2>2
<1> QED BY <1>2, <1>4, <1>5, <1>6, <1>7 DEF ArtifactInv

\* CompileDirect: the exporter answers for the recipe of the key.
LEMMA ExportAnswers ==
  ASSUME Shape, NEW t \in Threads, call[t].key \in Keys, call[t].key[2] <= version
  PROVE  /\ Export(RecipeOf(t)) \in Outcomes
         /\ Export(RecipeOf(t)).kind \in {"artifact", "unsupported"}
         /\ Export(RecipeOf(t)).ver = version
         /\ Answers(Export(RecipeOf(t)), call[t].key)
<1>1. RecipeOf(t) \in Recipes /\ call[t].key[2] \in Versions /\ version \in 0 .. MaxVersion
  BY ArtifactConstants DEF RecipeOf, Keys, Shape, Versions
<1>2. Export(RecipeOf(t)) =
        [kind |-> Export(RecipeOf(t)).kind, recipe |-> RecipeOf(t), ver |-> version]
      /\ Export(RecipeOf(t)).kind \in {"artifact", "unsupported"}
  BY DEF Export
<1>3. Export(RecipeOf(t)) \in Outcomes
  BY <1>1, <1>2 DEF Outcomes
<1>4. Answers(Export(RecipeOf(t)), call[t].key)
  BY <1>1, <1>2 DEF Answers, RecipeOf, Versions, Shape
<1> QED BY <1>2, <1>3, <1>4

\* A failure decides nothing.
LEMMA FailedAnswers ==
  ASSUME NEW key
  PROVE  Failed \in Outcomes /\ Failed.kind = "error" /\ Answers(Failed, key)
BY DEF Failed, Outcomes, Answers

\* Without a cache_dir the exporter is run on the spot.
LEMMA CompileDirectKeeps ==
  ASSUME ArtifactInv, NEW t \in Threads, CompileDirect(t)
  PROVE  ArtifactInv'
<1>1. PICK out \in Outcomes :
        /\ call' = [call EXCEPT ![t].pc = "finish", ![t].out = out]
        /\ Answers(out, call[t].key)
  <2>1. call[t].pc = "direct" /\ Shape /\ call[t].key \in Keys /\ call[t].key[2] <= version
    BY DEF CompileDirect, ArtifactInv, CallOK
  <2>2. CASE Conclude(t, "finish", Export(RecipeOf(t)))
    BY <2>1, <2>2, ExportAnswers DEF Conclude
  <2>3. CASE Conclude(t, "finish", Failed)
    BY <2>3, FailedAnswers DEF Conclude
  <2> QED BY <2>2, <2>3 DEF CompileDirect
<1> DEFINE c == [call[t] EXCEPT !.pc = "finish", !.out = out]
<1>2. call[t] \in Call /\ call[t].pc = "direct"
  BY DEF CompileDirect, ArtifactInv, Shape
<1>3. /\ c \in Call /\ c.pc = "finish" /\ c.key = call[t].key /\ c.since = call[t].since
      /\ c.out = out
  BY <1>2 DEF Call, PCs, Compiling
<1>4. call' = [call EXCEPT ![t] = c]
  BY <1>1, <1>2 DEF ArtifactInv, Shape
<1> HIDE DEF c
<1>5. call'[t] = c
  BY <1>4 DEF ArtifactInv, Shape
<1>6. UNCHANGED <<withStore, version, disk, temps, lock, cache>>
  BY DEF CompileDirect
<1>7. DiskOK' /\ disk' \in Seq(Files) /\ temps' \in 0 .. 1
  BY <1>6 DEF ArtifactInv, Shape, DiskOK, Kept, Unique, Fits, Bytes
<1>8. CallOK(t)' /\ WriterOK(t)'
  BY <1>1, <1>2, <1>3, <1>5, <1>6 DEF ArtifactInv, CallOK, WriterOK, Locked
<1>9. call[t].pc \in Compiling /\ c.pc \in Compiling /\ (c.pc \in Locked <=> call[t].pc \in Locked)
  BY <1>2, <1>3 DEF Compiling, Locked
<1> QED BY <1>3, <1>4, <1>6, <1>7, <1>8, <1>9, ThreadMoves

\* Identify: the digest is that of the exporter now installed.
LEMMA IdentifyKeeps ==
  ASSUME ArtifactInv, NEW t \in Threads, Identify(t)
  PROVE  ArtifactInv'
<1> DEFINE c == [call[t] EXCEPT !.pc = "enter", !.identity = version]
<1>1. call[t] \in Call /\ call[t].pc = "identify" /\ version \in 0 .. MaxVersion
  BY ArtifactConstants DEF Identify, ArtifactInv, Shape, Versions
<1>2. /\ c \in Call /\ c.pc = "enter" /\ c.key = call[t].key /\ c.since = call[t].since
      /\ c.identity = version
  BY <1>1 DEF Call, PCs, Compiling
<1>3. call' = [call EXCEPT ![t] = c]
  BY <1>1 DEF Identify, ArtifactInv, Shape
<1> HIDE DEF c
<1>4. call'[t] = c
  BY <1>3 DEF ArtifactInv, Shape
<1>5. UNCHANGED <<withStore, version, disk, temps, lock, cache>>
  BY DEF Identify
<1>6. DiskOK' /\ disk' \in Seq(Files) /\ temps' \in 0 .. 1
  BY <1>5 DEF ArtifactInv, Shape, DiskOK, Kept, Unique, Fits, Bytes
<1>7. CallOK(t)' /\ WriterOK(t)'
  BY <1>1, <1>2, <1>4, <1>5 DEF ArtifactInv, CallOK, WriterOK, Locked
<1>8. call[t].pc \in Compiling /\ c.pc \in Compiling /\ (c.pc \in Locked <=> call[t].pc \in Locked)
  BY <1>1, <1>2 DEF Compiling, Locked
<1> QED BY <1>2, <1>3, <1>5, <1>6, <1>7, <1>8, ThreadMoves

\* The invariant of the directory is about the sequence of its files.
LEMMA KeptNext ==
  /\ DiskOK' <=> Kept(disk')
  /\ \A n, k \in Nat : Fits(disk, n, k)' <=> Fits(disk', n, k)
BY DEF DiskOK, Kept, Unique, Fits, Bytes

\* What is drawn from the directory is as good, and has as much room.
LEMMA DrawnKept ==
  ASSUME NEW s \in Seq(Files), NEW q \in Seq(Files), Drawn(q, s), Kept(s),
         NEW n \in Nat, NEW k \in Nat, Fits(q, n, k)
  PROVE  Kept(q)
<1>1. /\ Unique(q)
      /\ \A i \in 1 .. Len(q) : \E j \in 1 .. Len(s) : q[i] = s[j]
  BY DrawnKeeps DEF Kept
<1>2. Fits(q, 0, 0)
  BY BytesTotal, ArtifactConstants DEF Fits
<1> QED BY <1>1, <1>2 DEF Kept

\* A whole file at the end, where there is room for it.
LEMMA FileAdded ==
  ASSUME NEW s \in Seq(Files), Kept(s), NEW f \in Files, f.key \notin KeysOf(s),
         Fits(s, Size[f.key[1]], 1), f.state # "partial", f.ver = f.key[2]
  PROVE  Append(s, f) \in Seq(Files) /\ Kept(Append(s, f))
<1> DEFINE q == Append(s, f)
<1>1. /\ q \in Seq(Files) /\ Len(q) = Len(s) + 1 /\ Unique(q)
      /\ \A i \in 1 .. Len(s) + 1 : q[i] = f \/ \E j \in 1 .. Len(s) : q[i] = s[j]
  BY AppendedKeys DEF Kept
<1>2. Bytes(q) = Bytes(s) + Size[f.key[1]]
  BY BytesAppended
<1> HIDE DEF q
<1>3. Fits(q, 0, 0)
  <2>1. f.key[1] \in Recipes
    BY DEF Files, Keys
  <2>2. Bytes(s) \in Nat /\ Size[f.key[1]] \in Nat /\ Len(s) \in Nat
    BY <2>1, BytesTotal, ArtifactConstants
  <2> QED BY <1>1, <1>2, <2>2, ArtifactConstants DEF Fits
<1>4. \A i \in 1 .. Len(q) : q[i].state # "partial" /\ q[i].ver = q[i].key[2]
  BY <1>1 DEF Kept
<1> QED BY <1>1, <1>3, <1>4 DEF Kept, q

\* Who is before or inside the locked region names the file of its recipe.
LEMMA FileKeyIsKey ==
  ASSUME ArtifactInv, NEW t \in Threads, call[t].pc \in {"enter"} \cup Locked
  PROVE  /\ FileKey(t) \in Keys /\ FileKey(t)[1] = RecipeOf(t) /\ RecipeOf(t) \in Recipes
         /\ FileKey(t)[2] = call[t].identity /\ call[t].key \in Keys
         /\ RecipeOf(t) = call[t].key[1] /\ call[t].key[2] <= call[t].identity
         /\ call[t].identity \in Versions /\ call[t].key[2] \in Versions
<1>1. call[t].key \in Keys /\ call[t].key[2] <= call[t].identity /\ call[t].identity <= version
  BY DEF ArtifactInv, CallOK, Locked
<1>2. call[t].identity \in 0 .. MaxVersion /\ version \in Versions
  BY DEF ArtifactInv, Shape, Call
<1>3. call[t].key[1] \in Recipes /\ call[t].key[2] \in Versions
  BY <1>1 DEF Keys
<1>4. call[t].identity \in Versions
  BY <1>1, <1>2, <1>3, ArtifactConstants DEF Versions
<1> QED BY <1>1, <1>3, <1>4 DEF FileKey, RecipeOf, Keys

\* Enter and Probe: a file that is served becomes the newest; a miss keeps the
\* lock.
LEMMA EnterKeeps ==
  ASSUME ArtifactInv, NEW t \in Threads, Enter(t)
  PROVE  ArtifactInv'
<1> DEFINE files == TrimDisk(0, 0)
           rest == Without(files, FileKey(t))
<1>1. /\ call[t] \in Call /\ call[t].pc = "enter" /\ lock = None /\ Shape /\ Kept(disk)
      /\ call[t].pc \in Compiling /\ call[t].pc \notin Locked
  BY DEF Enter, ArtifactInv, Shape, DiskOK, Compiling, Locked
<1>2. /\ FileKey(t) \in Keys /\ FileKey(t)[1] = RecipeOf(t) /\ RecipeOf(t) \in Recipes
      /\ FileKey(t)[2] = call[t].identity /\ call[t].key \in Keys
      /\ RecipeOf(t) = call[t].key[1] /\ call[t].key[2] <= call[t].identity
      /\ call[t].identity \in Versions /\ call[t].key[2] \in Versions
  BY <1>1, FileKeyIsKey
<1>3. files \in Seq(Files) /\ Drawn(files, disk) /\ Fits(files, 0, 0)
  BY <1>1, TrimmedFits, ArtifactConstants DEF Shape
<1>4. UNCHANGED <<withStore, version, cache>> /\ temps' = 0 /\ Probe(t)
  BY DEF Enter
<1>5. Probe(t) <=>
        \/ \E f \in {f \in Range(files) : f.key = FileKey(t)} :
             /\ Valid(f) /\ disk' = Append(rest, f)
             /\ Conclude(t, "verify", [kind |-> "artifact", recipe |-> f.key[1],
                                       ver |-> IF f.state = "whole" THEN f.ver ELSE 0])
             /\ UNCHANGED lock
        \/ /\ \A f \in {f \in Range(files) : f.key = FileKey(t)} : ~Valid(f)
           /\ disk' = rest /\ Goto(t, "compile") /\ lock' = t
  BY DEF Probe
<1> HIDE DEF files
<1>6. Kept(files) /\ Unique(files)
  BY <1>1, <1>3, DrawnKept DEF Shape, Kept
<1>7. /\ rest \in Seq(Files) /\ Drawn(rest, files) /\ Len(rest) <= Len(files)
      /\ FileKey(t) \in KeysOf(files) => Len(rest) = Len(files) - 1
      /\ FileKey(t) \notin KeysOf(rest)
  BY <1>3, <1>6, WithoutDrawn
<1> HIDE DEF rest
<1>8. KeysOf(rest) \subseteq KeysOf(files) /\ Bytes(rest) <= Bytes(files)
  BY <1>3, <1>7, DrawnKeeps, BytesFewer
<1>9. Fits(rest, 0, 0)
  BY <1>3, <1>7, <1>8, BytesTotal, ArtifactConstants DEF Fits
<1>10. Kept(rest)
  BY <1>3, <1>6, <1>7, <1>9, DrawnKept
<1>11. CASE /\ \A f \in {f \in Range(files) : f.key = FileKey(t)} : ~Valid(f)
            /\ disk' = rest /\ Goto(t, "compile") /\ lock' = t
  <2> DEFINE c == [call[t] EXCEPT !.pc = "compile"]
  <2>1. /\ c \in Call /\ c.pc = "compile" /\ c.key = call[t].key /\ c.since = call[t].since
        /\ c.identity = call[t].identity
    BY <1>1 DEF Call, PCs, Compiling
  <2>2. call' = [call EXCEPT ![t] = c]
    BY <1>1, <1>11 DEF Goto, Shape
  <2> HIDE DEF c
  <2>3. call'[t] = c
    BY <1>1, <2>2 DEF Shape
  <2>4. CallOK(t)' /\ WriterOK(t)'
    BY <1>1, <1>2, <1>4, <2>1, <2>3 DEF ArtifactInv, CallOK, WriterOK, Locked
  <2>5. DiskOK' /\ disk' \in Seq(Files)
    BY <1>7, <1>10, <1>11, KeptNext
  <2>6. c.pc \in Compiling /\ c.pc \in Locked
    BY <2>1 DEF Compiling, Locked
  <2>7. temps' \in 0 .. 1 /\ lock = None /\ lock' = t
    BY <1>1, <1>4, <1>11
  <2> QED BY <1>1, <1>4, <2>1, <2>2, <2>4, <2>5, <2>6, <2>7, ThreadMoves
<1>12. ASSUME NEW f \in {f \in Range(files) : f.key = FileKey(t)},
              Valid(f), disk' = Append(rest, f), UNCHANGED lock,
              Conclude(t, "verify", [kind |-> "artifact", recipe |-> f.key[1],
                                     ver |-> IF f.state = "whole" THEN f.ver ELSE 0])
       PROVE  ArtifactInv'
  <2> DEFINE out == [kind |-> "artifact", recipe |-> f.key[1],
                     ver |-> IF f.state = "whole" THEN f.ver ELSE 0]
             c == [call[t] EXCEPT !.pc = "verify", !.out = out]
  <2>1. PICK i \in 1 .. Len(files) : files[i] = f
    BY <1>3 DEF Range
  <2>2. f \in Files /\ f.key = FileKey(t) /\ f.state = "whole" /\ f.ver = f.key[2] /\ f.key \in KeysOf(files)
    BY <1>3, <1>6, <1>12, <2>1 DEF Kept, Valid, KeysOf
  <2>3. out = [kind |-> "artifact", recipe |-> RecipeOf(t), ver |-> call[t].identity]
    BY <1>2, <2>2
  <2> HIDE DEF out
  <2>4. out \in Outcomes /\ Answers(out, call[t].key)
    BY <1>2, <2>3 DEF Outcomes, Answers, Versions
  <2>5. /\ c \in Call /\ c.pc = "verify" /\ c.key = call[t].key /\ c.since = call[t].since
        /\ c.out = out
    BY <1>1, <2>4 DEF Call, PCs, Compiling
  <2>6. call' = [call EXCEPT ![t] = c]
    BY <1>1, <1>12 DEF Conclude, Shape, out
  <2> HIDE DEF c
  <2>7. call'[t] = c
    BY <1>1, <2>6 DEF Shape
  <2>8. CallOK(t)' /\ WriterOK(t)'
    BY <1>1, <1>4, <2>4, <2>5, <2>7 DEF ArtifactInv, CallOK, WriterOK, Locked
  <2> DEFINE q == Append(rest, f)
  <2>9. /\ q \in Seq(Files) /\ Len(q) = Len(rest) + 1 /\ Unique(q)
        /\ KeysOf(q) = KeysOf(rest) \cup {f.key}
        /\ \A j \in 1 .. Len(rest) + 1 : q[j] = f \/ \E m \in 1 .. Len(rest) : q[j] = rest[m]
    BY <1>7, <1>10, <2>2, AppendedKeys DEF Kept
  <2> HIDE DEF q
  <2>10. KeysOf(q) \subseteq KeysOf(files) /\ Len(q) = Len(files)
    BY <1>3, <1>7, <1>8, <2>2, <2>9
  <2>11. Bytes(q) <= Bytes(files) /\ Bytes(q) \in Nat /\ Bytes(files) \in Nat
    BY <1>3, <2>9, <2>10, BytesFewer, BytesTotal
  <2>12. Fits(q, 0, 0)
    BY <1>3, <2>10, <2>11, ArtifactConstants DEF Fits
  <2>13. Kept(q)
    BY <1>10, <2>2, <2>9, <2>12 DEF Kept
  <2>14. DiskOK' /\ disk' \in Seq(Files)
    BY <1>12, <2>9, <2>13, KeptNext DEF q
  <2>15. c.pc \in Compiling /\ c.pc \notin Locked
    BY <2>5 DEF Compiling, Locked
  <2>16. temps' \in 0 .. 1 /\ lock' = lock /\ lock \in {None, t}
    BY <1>1, <1>4, <1>12
  <2> QED BY <1>1, <1>4, <2>5, <2>6, <2>8, <2>14, <2>15, <2>16, ThreadMoves
<1> QED BY <1>4, <1>5, <1>11, <1>12

\* An outcome ends the locked region.
LEMMA Leaves ==
  ASSUME ArtifactInv, NEW t \in Threads, call[t].pc \in Locked, lock = t,
         NEW pc \in {"verify", "finish"}, NEW out \in Outcomes, Answers(out, call[t].key),
         call' = [call EXCEPT ![t].pc = pc, ![t].out = out], lock' = None,
         UNCHANGED <<withStore, version, cache>>,
         disk' \in Seq(Files), DiskOK', temps' \in 0 .. 1
  PROVE  ArtifactInv'
<1> DEFINE c == [call[t] EXCEPT !.pc = pc, !.out = out]
<1>1. call[t] \in Call
  BY DEF ArtifactInv, Shape
<1>2. /\ c \in Call /\ c.pc = pc /\ c.key = call[t].key /\ c.since = call[t].since /\ c.out = out
  BY <1>1 DEF Call, PCs, Compiling
<1>3. call' = [call EXCEPT ![t] = c]
  BY <1>1 DEF ArtifactInv, Shape
<1> HIDE DEF c
<1>4. call'[t] = c
  BY <1>3 DEF ArtifactInv, Shape
<1>5. CallOK(t)' /\ WriterOK(t)'
  BY <1>1, <1>2, <1>4 DEF ArtifactInv, CallOK, WriterOK, Locked
<1>6. c.pc \in Compiling /\ c.pc \notin Locked /\ call[t].pc \in Compiling
  BY <1>2 DEF Compiling, Locked
<1> QED BY <1>2, <1>3, <1>5, <1>6, ThreadMoves

\* compile_stable: the exporter runs inside the flock.
LEMMA CompileKeeps ==
  ASSUME ArtifactInv, NEW t \in Threads, Compile(t)
  PROVE  ArtifactInv'
<1> DEFINE out == Export(RecipeOf(t))
<1>1. /\ call[t] \in Call /\ call[t].pc = "compile" /\ lock = t /\ Shape
      /\ call[t].pc \in Compiling /\ call[t].pc \in Locked
      /\ call[t].key \in Keys /\ call[t].key[2] <= version
      /\ call[t].key[2] <= call[t].identity /\ call[t].identity <= version
      /\ temps = 0
  BY DEF Compile, ArtifactInv, Shape, LockOK, CallOK, WriterOK, Compiling, Locked
<1>2. /\ out \in Outcomes /\ out.kind \in {"artifact", "unsupported"} /\ out.ver = version
      /\ Answers(out, call[t].key)
  BY <1>1, ExportAnswers
<1>3. UNCHANGED <<withStore, version, disk, temps, cache>>
  BY DEF Compile
<1>4. DiskOK' /\ disk' \in Seq(Files) /\ temps' \in 0 .. 1
  BY <1>1, <1>3, KeptNext DEF ArtifactInv, Shape, DiskOK
<1>5. \/ out.kind = "artifact" /\ Conclude(t, "publish", out) /\ UNCHANGED lock
      \/ Conclude(t, "finish", out) /\ Release(t)
      \/ Conclude(t, "finish", Failed) /\ Release(t)
  BY DEF Compile
<1> HIDE DEF out
<1>6. CASE out.kind = "artifact" /\ Conclude(t, "publish", out) /\ UNCHANGED lock
  <2> DEFINE c == [call[t] EXCEPT !.pc = "publish", !.out = out]
  <2>1. /\ c \in Call /\ c.pc = "publish" /\ c.key = call[t].key /\ c.since = call[t].since
        /\ c.identity = call[t].identity /\ c.out = out
    BY <1>1, <1>2 DEF Call, PCs, Compiling
  <2>2. call' = [call EXCEPT ![t] = c]
    BY <1>1, <1>6 DEF Conclude, Shape
  <2> HIDE DEF c
  <2>3. call'[t] = c
    BY <1>1, <2>2 DEF Shape
  <2>4. CallOK(t)' /\ WriterOK(t)'
    <3>1. version \in Nat /\ version' = version /\ temps' = 0
      BY <1>1, <1>3, ArtifactConstants DEF Shape, Versions
    <3>2. Answers(call'[t].out, call'[t].key) /\ call'[t].out.kind = "artifact"
      BY <1>2, <1>6, <2>1, <2>3
    <3>3. call'[t].identity <= call'[t].out.ver /\ call'[t].out.ver <= version
      BY <1>1, <1>2, <2>1, <2>3, <3>1
    <3>4. CallOK(t)'
      BY <1>1, <2>1, <2>3, <3>1, <3>2, <3>3 DEF ArtifactInv, CallOK, Locked
    <3> QED BY <2>1, <2>3, <3>1, <3>4 DEF WriterOK
  <2>5. c.pc \in Compiling /\ c.pc \in Locked
    BY <2>1 DEF Compiling, Locked
  <2> QED BY <1>1, <1>3, <1>4, <1>6, <2>1, <2>2, <2>4, <2>5, ThreadMoves
<1>7. CASE Conclude(t, "finish", out) /\ Release(t)
  BY <1>1, <1>2, <1>3, <1>4, <1>7, Leaves DEF Conclude, Release
<1>8. CASE Conclude(t, "finish", Failed) /\ Release(t)
  BY <1>1, <1>3, <1>4, <1>8, FailedAnswers, Leaves DEF Conclude, Release
<1> QED BY <1>5, <1>6, <1>7, <1>8

\* put: room is made under the flock and the temporary file is written.
LEMMA PublishKeeps ==
  ASSUME ArtifactInv, NEW t \in Threads, Publish(t)
  PROVE  ArtifactInv'
<1>1. /\ call[t] \in Call /\ call[t].pc = "publish" /\ lock = t /\ Shape
      /\ call[t].pc \in Compiling /\ call[t].pc \in Locked
      /\ call[t].out \in Outcomes /\ call[t].out.kind = "artifact"
      /\ call[t].identity <= call[t].out.ver /\ call[t].out.ver <= version
      /\ Answers(call[t].out, call[t].key) /\ temps = 0 /\ Kept(disk)
  BY DEF Publish, ArtifactInv, Shape, LockOK, CallOK, WriterOK, DiskOK, Call, Compiling, Locked
<1>2. /\ RecipeOf(t) \in Recipes /\ call[t].identity \in Versions
      /\ Size[RecipeOf(t)] \in Nat
  BY <1>1, FileKeyIsKey, ArtifactConstants
<1>3. UNCHANGED <<withStore, version, cache>>
  BY DEF Publish
<1>4. \/ Unkept(t, "finish", Failed)
      \/ Unkept(t, "verify", call[t].out)
      \/ /\ call[t].identity = version /\ Size[RecipeOf(t)] <= MaxBytes
         /\ WriteTemp(t, Room(t))
  BY DEF Publish
<1>5. CASE Unkept(t, "finish", Failed)
  <2>1. DiskOK' /\ disk' \in Seq(Files) /\ temps' \in 0 .. 1
    BY <1>1, <1>5, KeptNext DEF Unkept, Shape
  <2> QED BY <1>1, <1>3, <1>5, <2>1, FailedAnswers, Leaves DEF Unkept, Conclude, Release
<1>6. CASE Unkept(t, "verify", call[t].out)
  <2>1. DiskOK' /\ disk' \in Seq(Files) /\ temps' \in 0 .. 1
    BY <1>1, <1>6, KeptNext DEF Unkept, Shape
  <2> QED BY <1>1, <1>3, <1>6, <2>1, Leaves DEF Unkept, Conclude, Release
<1>7. CASE /\ call[t].identity = version /\ Size[RecipeOf(t)] <= MaxBytes
           /\ WriteTemp(t, Room(t))
  <2> DEFINE c == [call[t] EXCEPT !.pc = "replace"]
             q == Room(t)
  <2>1. q \in Seq(Files) /\ Drawn(q, disk) /\ Fits(q, Size[RecipeOf(t)], 1)
    BY <1>1, <1>2, <1>7, TrimmedFits DEF Room, Shape
  <2>2. disk' = q /\ temps' = 1 /\ lock' = lock
    BY <1>1, <1>7 DEF WriteTemp
  <2> HIDE DEF q
  <2>3. Kept(q)
    BY <1>1, <1>2, <2>1, DrawnKept DEF Shape
  <2>4. /\ c \in Call /\ c.pc = "replace" /\ c.key = call[t].key /\ c.since = call[t].since
        /\ c.identity = call[t].identity /\ c.out = call[t].out
    BY <1>1 DEF Call, PCs, Compiling
  <2>5. call' = [call EXCEPT ![t] = c]
    BY <1>1, <1>7 DEF WriteTemp, Goto, Shape
  <2> HIDE DEF c
  <2>6. call'[t] = c
    BY <1>1, <2>5 DEF Shape
  <2>7. CallOK(t)'
    <3>1. call[t].out.ver = call[t].identity
      BY <1>1, <1>2, <1>7 DEF Shape, Versions, Outcomes
    <3> QED BY <1>1, <1>3, <2>4, <2>6, <3>1 DEF ArtifactInv, CallOK, Locked
  <2>8. WriterOK(t)'
    <3>1. RecipeOf(t)' = RecipeOf(t) /\ Size[RecipeOf(t)] \in Nat
      BY <1>2, <2>4, <2>6 DEF RecipeOf
    <3>2. Fits(disk, Size[RecipeOf(t)], 1)'
      BY <2>1, <2>2, <3>1 DEF Fits, Bytes
    <3> QED BY <2>2, <2>4, <2>6, <3>2 DEF WriterOK
  <2>9. c.pc \in Compiling /\ c.pc \in Locked
    BY <2>4 DEF Compiling, Locked
  <2>10. DiskOK' /\ disk' \in Seq(Files) /\ temps' \in 0 .. 1
    BY <2>1, <2>2, <2>3, KeptNext
  <2> QED BY <1>1, <1>3, <2>2, <2>4, <2>5, <2>7, <2>8, <2>9, <2>10, ThreadMoves
<1> QED BY <1>4, <1>5, <1>6, <1>7

\* os.replace, or the temporary file is removed; either way the flock is dropped.
LEMMA ReplaceKeeps ==
  ASSUME ArtifactInv, NEW t \in Threads, Replace(t)
  PROVE  ArtifactInv'
<1>1. /\ call[t] \in Call /\ call[t].pc = "replace" /\ lock = t /\ Shape
      /\ call[t].pc \in Locked
      /\ call[t].out \in Outcomes /\ call[t].out.ver = call[t].identity
      /\ Answers(call[t].out, call[t].key) /\ temps = 1 /\ Kept(disk)
      /\ Fits(disk, Size[RecipeOf(t)], 1)
  BY DEF Replace, ArtifactInv, Shape, LockOK, CallOK, WriterOK, DiskOK, Call, Locked
<1>2. /\ FileKey(t) \in Keys /\ FileKey(t)[1] = RecipeOf(t) /\ RecipeOf(t) \in Recipes
      /\ FileKey(t)[2] = call[t].identity /\ Size[RecipeOf(t)] \in Nat
      /\ call[t].identity \in Versions
  BY <1>1, FileKeyIsKey, ArtifactConstants
<1>3. UNCHANGED <<withStore, version, cache>> /\ temps' = 0 /\ lock' = None
  BY <1>1 DEF Replace, Release
<1>4. \/ /\ disk' = Append(Without(disk, FileKey(t)), NewFile(t, "whole"))
         /\ Goto(t, "verify")
      \/ Conclude(t, "finish", Failed) /\ UNCHANGED disk
  BY DEF Replace
<1>5. CASE Conclude(t, "finish", Failed) /\ UNCHANGED disk
  <2>1. DiskOK' /\ disk' \in Seq(Files) /\ temps' \in 0 .. 1
    BY <1>1, <1>3, <1>5, KeptNext DEF Shape
  <2> QED BY <1>1, <1>3, <1>5, <2>1, FailedAnswers, Leaves DEF Conclude
<1>6. CASE /\ disk' = Append(Without(disk, FileKey(t)), NewFile(t, "whole"))
           /\ Goto(t, "verify")
  <2> DEFINE rest == Without(disk, FileKey(t))
             f == NewFile(t, "whole")
  <2>1. /\ f \in Files /\ f.key = FileKey(t) /\ f.state # "partial" /\ f.ver = f.key[2]
    BY <1>1, <1>2 DEF NewFile, Files
  <2>2. /\ rest \in Seq(Files) /\ Drawn(rest, disk) /\ Len(rest) <= Len(disk)
        /\ FileKey(t) \notin KeysOf(rest)
    BY <1>1, WithoutDrawn DEF Shape, Kept
  <2> HIDE DEF rest, f
  <2>3. KeysOf(rest) \subseteq KeysOf(disk) /\ Bytes(rest) <= Bytes(disk)
        /\ Bytes(rest) \in Nat /\ Bytes(disk) \in Nat
    BY <1>1, <2>2, DrawnKeeps, BytesFewer, BytesTotal DEF Shape
  <2>4. Len(rest) \in Nat /\ Len(disk) \in Nat
    BY <1>1, <2>2 DEF Shape
  <2>5. Fits(rest, Size[RecipeOf(t)], 1)
    BY <1>1, <1>2, <2>2, <2>3, <2>4, ArtifactConstants DEF Fits
  <2>6. Kept(rest)
    BY <1>1, <1>2, <2>2, <2>5, DrawnKept DEF Shape
  <2>7. Append(rest, f) \in Seq(Files) /\ Kept(Append(rest, f))
    BY <1>2, <2>1, <2>2, <2>5, <2>6, FileAdded
  <2>8. DiskOK' /\ disk' \in Seq(Files) /\ temps' \in 0 .. 1
    BY <1>3, <1>6, <2>7, KeptNext DEF rest, f
  <2>9. call' = [call EXCEPT ![t].pc = "verify", ![t].out = call[t].out]
    BY <1>1, <1>6 DEF Goto, Shape, Call
  <2> QED BY <1>1, <1>3, <2>8, <2>9, Leaves
<1> QED BY <1>4, <1>5, <1>6

(***************************************************************************)
(* Calls begin, look up and end                                            *)
(***************************************************************************)
\* A new call: its key names the exporter now installed.
LEMMA CompileRecipeKeeps ==
  ASSUME ArtifactInv, NEW t \in Threads, NEW r \in Recipes, CompileRecipe(t, r)
  PROVE  ArtifactInv'
<1> DEFINE c == [Rest EXCEPT !.pc = "lookup", !.key = artifact_key(r), !.since = version]
<1>1. /\ call[t].pc \notin Compiling /\ call[t].pc \notin Locked /\ Shape
      /\ version \in Versions /\ version \in 0 .. MaxVersion
  BY ArtifactConstants DEF CompileRecipe, ArtifactInv, Shape, Compiling, Locked, Versions
<1>2. /\ c \in Call /\ c.pc = "lookup" /\ c.since = version
      /\ c.key \in Keys /\ c.key[2] = version
  BY <1>1, RestIsCall DEF Call, PCs, artifact_key, Identity, Keys, Rest
<1>3. call' = [call EXCEPT ![t] = c]
  BY DEF CompileRecipe
<1> HIDE DEF c
<1>4. call'[t] = c /\ \A u \in Threads \ {t} : call'[u] = call[u]
  BY <1>1, <1>3 DEF Shape
<1>5. UNCHANGED <<withStore, version, disk, temps, lock, cache>>
  BY DEF CompileRecipe
<1>6. Shape'
  BY <1>1, <1>2, <1>3, <1>5 DEF Shape
<1>7. LockOK' /\ TablesOK' /\ DiskOK' /\ temps' <= 1
  <2>1. LockOK'
    BY <1>1, <1>2, <1>4, <1>5 DEF ArtifactInv, LockOK, Locked
  <2>2. TablesOK'
    BY <1>5 DEF ArtifactInv, TablesOK
  <2>3. DiskOK' /\ temps' <= 1
    BY <1>5, KeptNext DEF ArtifactInv, DiskOK
  <2> QED BY <2>1, <2>2, <2>3
<1>8. ASSUME NEW p \in Procs PROVE FlightOK(p)'
  <2>1. Flying(p)' = Flying(p)
    BY <1>1, <1>2, <1>4 DEF Flying, Compiling
  <2>2. \A u \in Flying(p) : u \in Threads /\ u # t /\ call'[u].key = call[u].key
    BY <1>1, <1>4 DEF Flying
  <2>3. FlightOK(p) /\ cache' = cache
    BY <1>5 DEF ArtifactInv
  <2>4. cache'[p].pending = {call'[u].key : u \in Flying(p)'}
    BY <2>1, <2>2, <2>3 DEF FlightOK
  <2>5. \A u, v \in Flying(p)' : call'[u].key = call'[v].key => u = v
    BY <2>1, <2>2, <2>3 DEF FlightOK
  <2> QED BY <2>3, <2>4, <2>5 DEF FlightOK
<1>9. ASSUME NEW u \in Threads PROVE CallOK(u)' /\ WriterOK(u)'
  <2>1. CASE u = t
    <3>1. call'[u].key \in Keys /\ call'[u].since = call'[u].key[2] /\ call'[u].key[2] <= version
      BY <1>1, <1>2, <1>4, <2>1, ArtifactConstants DEF Versions
    <3> QED BY <1>2, <1>4, <1>5, <2>1, <3>1 DEF CallOK, WriterOK, Locked
  <2>2. CASE u # t
    <3>1. call'[u] = call[u] /\ CallOK(u) /\ WriterOK(u)
      BY <1>4, <2>2 DEF ArtifactInv
    <3>2. CallOK(u)'
      BY <1>5, <3>1 DEF CallOK
    <3>3. RecipeOf(u)' = RecipeOf(u) /\ disk' = disk /\ temps' = temps
      BY <1>5, <3>1 DEF RecipeOf
    <3>4. Fits(disk, Size[RecipeOf(u)], 1)' = Fits(disk, Size[RecipeOf(u)], 1)
      BY <3>3 DEF Fits, Bytes
    <3> QED BY <3>1, <3>2, <3>3, <3>4 DEF WriterOK
  <2> QED BY <2>1, <2>2
<1> QED BY <1>6, <1>7, <1>8, <1>9 DEF ArtifactInv

\* The exporter is rebuilt.
LEMMA RebuildKeeps == ArtifactInv /\ Rebuild => ArtifactInv'
<1> SUFFICES ASSUME ArtifactInv, Rebuild PROVE ArtifactInv'
  OBVIOUS
<1>1. /\ version' = version + 1 /\ version \in Nat /\ version' \in Versions /\ Shape
      /\ UNCHANGED <<withStore, disk, temps, lock, cache, call>>
  BY ArtifactConstants DEF Rebuild, ArtifactInv, Shape, Versions
<1>2. Shape'
  BY <1>1 DEF Shape
<1>3. LockOK' /\ TablesOK' /\ temps' <= 1
  BY <1>1 DEF ArtifactInv, LockOK, TablesOK
<1>4. DiskOK'
  BY <1>1, KeptNext DEF ArtifactInv, DiskOK
<1>5. ASSUME NEW p \in Procs PROVE FlightOK(p)'
  <2>1. FlightOK(p) /\ Flying(p)' = Flying(p)
    BY <1>1 DEF ArtifactInv, Flying
  <2> QED BY <1>1, <2>1 DEF FlightOK
<1>6. ASSUME NEW t \in Threads PROVE CallOK(t)' /\ WriterOK(t)'
  <2>1. CallOK(t) /\ WriterOK(t) /\ call[t] \in Call
    BY <1>1 DEF ArtifactInv, Shape
  <2>2. call[t].pc # "idle" => call[t].key[2] \in Nat
    BY <2>1, ArtifactConstants DEF CallOK, Keys, Versions
  <2>3. call[t].identity \in Nat
    BY <2>1, ArtifactConstants DEF Call
  <2>4. call[t].pc \in {"publish", "replace"} => call[t].out.ver \in Nat
    BY <2>1, ArtifactConstants DEF CallOK, Call, Outcomes
  <2>5. CallOK(t)'
    BY <1>1, <2>1, <2>2, <2>3, <2>4 DEF CallOK
  <2>6. RecipeOf(t)' = RecipeOf(t) /\ disk' = disk /\ temps' = temps
    BY <1>1 DEF RecipeOf
  <2>7. Fits(disk, Size[RecipeOf(t)], 1)' = Fits(disk, Size[RecipeOf(t)], 1)
    BY <2>6 DEF Fits, Bytes
  <2> QED BY <1>1, <2>1, <2>5, <2>6, <2>7 DEF WriterOK
<1> QED BY <1>2, <1>3, <1>4, <1>5, <1>6 DEF ArtifactInv

\* A file is damaged: its name, size and origin stay.
LEMMA DamageKeeps == ArtifactInv /\ Damage => ArtifactInv'
<1> SUFFICES ASSUME ArtifactInv, Damage PROVE ArtifactInv'
  OBVIOUS
<1>1. PICK i \in DOMAIN disk : disk' = [disk EXCEPT ![i].state = "damaged"]
  BY DEF Damage
<1>2. UNCHANGED <<withStore, version, temps, lock, cache, call>> /\ Shape /\ Kept(disk)
  BY DEF Damage, ArtifactInv, DiskOK
<1>3. disk \in Seq(Files) /\ i \in 1 .. Len(disk) /\ disk[i] \in Files
  BY <1>1, <1>2 DEF Shape
<1> DEFINE f == [disk[i] EXCEPT !.state = "damaged"]
<1>4. f \in Files /\ f.key = disk[i].key /\ f.ver = disk[i].ver /\ f.state = "damaged"
  BY <1>3 DEF Files
<1>5. disk' = [disk EXCEPT ![i] = f]
  BY <1>1
<1> HIDE DEF f
<1>6. /\ disk' \in Seq(Files) /\ Len(disk') = Len(disk)
      /\ \A j \in 1 .. Len(disk) : disk'[j] = IF j = i THEN f ELSE disk[j]
  BY <1>3, <1>4, <1>5
<1>7. /\ \A j \in 1 .. Len(disk) : disk'[j].key = disk[j].key /\ disk'[j].ver = disk[j].ver
      /\ \A j \in 1 .. Len(disk) : disk[j].state # "partial" => disk'[j].state # "partial"
  BY <1>4, <1>6
<1>8. KeysOf(disk') = KeysOf(disk)
  BY <1>6, <1>7 DEF KeysOf
<1>9. Bytes(disk') = Bytes(disk)
  BY <1>3, <1>6, <1>8, BytesTotal
<1>10. Kept(disk')
  <2>1. Unique(disk')
    BY <1>2, <1>6, <1>7 DEF Kept, Unique
  <2>2. Fits(disk', 0, 0)
    BY <1>2, <1>6, <1>9 DEF Kept, Fits
  <2> QED BY <1>2, <1>6, <1>7, <2>1, <2>2 DEF Kept
<1>11. Shape'
  BY <1>2, <1>6 DEF Shape
<1>12. LockOK' /\ TablesOK' /\ temps' <= 1 /\ DiskOK'
  BY <1>2, <1>10, KeptNext DEF ArtifactInv, LockOK, TablesOK
<1>13. ASSUME NEW p \in Procs PROVE FlightOK(p)'
  <2>1. FlightOK(p) /\ Flying(p)' = Flying(p)
    BY <1>2 DEF ArtifactInv, Flying
  <2> QED BY <1>2, <2>1 DEF FlightOK
<1>14. ASSUME NEW t \in Threads PROVE CallOK(t)' /\ WriterOK(t)'
  <2>1. CallOK(t) /\ WriterOK(t) /\ RecipeOf(t)' = RecipeOf(t)
    BY <1>2 DEF ArtifactInv, RecipeOf
  <2>2. CallOK(t)'
    BY <1>2, <2>1 DEF CallOK
  <2>3. Fits(disk, Size[RecipeOf(t)], 1)' = Fits(disk, Size[RecipeOf(t)], 1)
    <3>1. Fits(disk, Size[RecipeOf(t)], 1)' = Fits(disk', Size[RecipeOf(t)], 1)
      BY <2>1 DEF Fits, Bytes
    <3> QED BY <1>6, <1>9, <3>1 DEF Fits
  <2> QED BY <1>2, <2>1, <2>2, <2>3 DEF WriterOK
<1> QED BY <1>11, <1>12, <1>13, <1>14 DEF ArtifactInv

\* A process is killed: its calls and its memory are gone, the directory stays.
LEMMA CrashKeeps ==
  ASSUME ArtifactInv, NEW p \in Procs, Crash(p)
  PROVE  ArtifactInv'
<1>1. /\ Shape /\ UNCHANGED <<withStore, version, disk, temps>>
      /\ cache' = [cache EXCEPT ![p] = EmptyCache]
      /\ call' = [t \in Threads |-> IF ProcOf[t] = p THEN Rest ELSE call[t]]
      /\ lock' = IF lock # None /\ ProcOf[lock] = p THEN None ELSE lock
  BY DEF Crash, ArtifactInv
<1>2. \A t \in Threads : call'[t] = IF ProcOf[t] = p THEN Rest ELSE call[t]
  BY <1>1
<1>3. /\ cache'[p] = EmptyCache /\ \A o \in Procs \ {p} : cache'[o] = cache[o]
      /\ cache' \in [Procs -> Tables]
  BY <1>1, EmptyCacheSound DEF Shape
<1>4. Rest.pc = "idle" /\ Rest.pc \notin Locked /\ Rest.pc \notin Compiling
  BY DEF Rest, Locked, Compiling
<1>5. Shape'
  BY <1>1, <1>3, RestIsCall DEF Shape
<1>6. LockOK'
  BY <1>1, <1>2, <1>4, ArtifactConstants DEF ArtifactInv, LockOK, Shape
<1>7. TablesOK'
  BY <1>3, EmptyCacheSound DEF ArtifactInv, TablesOK, EmptyCache
<1>8. DiskOK' /\ temps' <= 1
  BY <1>1, KeptNext DEF ArtifactInv, DiskOK
<1>9. ASSUME NEW o \in Procs PROVE FlightOK(o)'
  <2>1. CASE o = p
    <3>1. Flying(o)' = {}
      BY <1>2, <1>4, <2>1 DEF Flying
    <3> QED BY <1>3, <2>1, <3>1, EmptyCacheSound DEF FlightOK, EmptyCache
  <2>2. CASE o # p
    <3>1. Flying(o)' = Flying(o) /\ \A u \in Flying(o) : call'[u] = call[u]
      BY <1>2, <2>2 DEF Flying
    <3>2. FlightOK(o) /\ cache'[o] = cache[o]
      BY <1>3, <2>2 DEF ArtifactInv
    <3>3. cache'[o].pending = {call'[u].key : u \in Flying(o)'}
      BY <3>1, <3>2 DEF FlightOK
    <3>4. \A u, v \in Flying(o)' : call'[u].key = call'[v].key => u = v
      BY <3>1, <3>2 DEF FlightOK
    <3> QED BY <3>2, <3>3, <3>4 DEF FlightOK
  <2> QED BY <2>1, <2>2
<1>10. ASSUME NEW t \in Threads PROVE CallOK(t)' /\ WriterOK(t)'
  <2>1. CASE ProcOf[t] = p
    BY <1>2, <1>4, <2>1 DEF CallOK, WriterOK, Locked
  <2>2. CASE ProcOf[t] # p
    <3>1. call'[t] = call[t] /\ CallOK(t) /\ WriterOK(t)
      BY <1>2, <2>2 DEF ArtifactInv
    <3>2. CallOK(t)'
      BY <1>1, <3>1 DEF CallOK
    <3>3. RecipeOf(t)' = RecipeOf(t) /\ disk' = disk /\ temps' = temps
      BY <1>1, <3>1 DEF RecipeOf
    <3>4. Fits(disk, Size[RecipeOf(t)], 1)' = Fits(disk, Size[RecipeOf(t)], 1)
      BY <3>3 DEF Fits, Bytes
    <3> QED BY <3>1, <3>2, <3>3, <3>4 DEF WriterOK
  <2> QED BY <2>1, <2>2
<1> QED BY <1>5, <1>6, <1>7, <1>8, <1>9, <1>10 DEF ArtifactInv

\* A step inside one process, outside the directory.
LEMMA ProcMoves ==
  ASSUME ArtifactInv, NEW p \in Procs, NEW d \in Tables, cache' = [cache EXCEPT ![p] = d],
         call' \in [Threads -> Call], \A u \in Threads : ProcOf[u] # p => call'[u] = call[u],
         UNCHANGED <<withStore, version, disk, temps, lock>>,
         \A u \in Threads : ProcOf[u] = p =>
           /\ call'[u].pc \in Locked <=> call[u].pc \in Locked
           /\ CallOK(u)' /\ WriterOK(u)',
         Sound(d.entries), Sound(d.rejections), FlightOK(p)'
  PROVE  ArtifactInv'
<1>1. Shape /\ cache'[p] = d /\ \A o \in Procs \ {p} : cache'[o] = cache[o]
  BY DEF ArtifactInv, Shape
<1>2. Shape'
  BY DEF ArtifactInv, Shape
<1>3. LockOK'
  BY DEF ArtifactInv, LockOK
<1>4. TablesOK'
  BY <1>1 DEF ArtifactInv, TablesOK
<1>5. DiskOK' /\ temps' <= 1
  BY KeptNext DEF ArtifactInv, DiskOK
<1>6. ASSUME NEW o \in Procs, o # p PROVE FlightOK(o)'
  <2>1. Flying(o)' = Flying(o) /\ \A u \in Flying(o) : call'[u] = call[u]
    BY <1>6 DEF Flying
  <2>2. FlightOK(o) /\ cache'[o] = cache[o]
    BY <1>1, <1>6 DEF ArtifactInv
  <2>3. cache'[o].pending = {call'[u].key : u \in Flying(o)'}
    BY <2>1, <2>2 DEF FlightOK
  <2>4. \A u, v \in Flying(o)' : call'[u].key = call'[v].key => u = v
    BY <2>1, <2>2 DEF FlightOK
  <2> QED BY <2>2, <2>3, <2>4 DEF FlightOK
<1>7. ASSUME NEW u \in Threads, ProcOf[u] # p PROVE CallOK(u)' /\ WriterOK(u)'
  <2>1. call'[u] = call[u] /\ CallOK(u) /\ WriterOK(u)
    BY <1>7 DEF ArtifactInv
  <2>2. CallOK(u)'
    <3>1. version' = version
      OBVIOUS
    <3> QED BY <2>1, <3>1 DEF CallOK
  <2>3. RecipeOf(u)' = RecipeOf(u) /\ disk' = disk /\ temps' = temps
    BY <2>1 DEF RecipeOf
  <2>4. Fits(disk, Size[RecipeOf(u)], 1)' = Fits(disk, Size[RecipeOf(u)], 1)
    BY <2>3 DEF Fits, Bytes
  <2> QED BY <2>1, <2>2, <2>3, <2>4 DEF WriterOK
<1> QED BY <1>2, <1>3, <1>4, <1>5, <1>6, <1>7 DEF ArtifactInv

\* Who does not move, in a step that leaves the directory alone.
LEMMA CallStays ==
  ASSUME ArtifactInv, NEW u \in Threads, call'[u] = call[u], UNCHANGED <<version, disk, temps>>
  PROVE  CallOK(u)' /\ WriterOK(u)'
<1>1. CallOK(u) /\ WriterOK(u) /\ version' = version
  BY DEF ArtifactInv
<1>2. CallOK(u)'
  BY <1>1 DEF CallOK
<1>3. RecipeOf(u)' = RecipeOf(u) /\ disk' = disk /\ temps' = temps
  BY DEF RecipeOf
<1>4. Fits(disk, Size[RecipeOf(u)], 1)' = Fits(disk, Size[RecipeOf(u)], 1)
  BY <1>3 DEF Fits, Bytes
<1> QED BY <1>1, <1>2, <1>3, <1>4 DEF WriterOK

\* A hit, in either table.
LEMMA HitKeeps ==
  ASSUME ArtifactInv, NEW t \in Threads, call[t].pc = "lookup",
         NEW d \in Tables, cache' = [cache EXCEPT ![ProcOf[t]] = d],
         d.pending = cache[ProcOf[t]].pending,
         KeysOf(d.entries) \subseteq KeysOf(cache[ProcOf[t]].entries),
         KeysOf(d.rejections) \subseteq KeysOf(cache[ProcOf[t]].rejections),
         Sound(d.entries), Sound(d.rejections),
         NEW out \in Outcomes, Answers(out, call[t].key),
         call' = [call EXCEPT ![t].pc = "done", ![t].out = out],
         UNCHANGED <<withStore, version, disk, temps, lock>>
  PROVE  ArtifactInv'
<1> DEFINE c == [call[t] EXCEPT !.pc = "done", !.out = out]
           p == ProcOf[t]
<1>1. Shape /\ call[t] \in Call /\ p \in Procs /\ CallOK(t) /\ FlightOK(p)
  BY ArtifactConstants DEF ArtifactInv, Shape
<1>2. c \in Call /\ c.pc = "done" /\ c.key = call[t].key /\ c.since = call[t].since /\ c.out = out
  BY <1>1 DEF Call, PCs
<1>3. call' = [call EXCEPT ![t] = c]
  BY <1>1 DEF Shape
<1> HIDE DEF c
<1>4. call'[t] = c /\ \A u \in Threads \ {t} : call'[u] = call[u]
  BY <1>1, <1>3 DEF Shape
<1>5. call' \in [Threads -> Call]
  BY <1>1, <1>2, <1>3 DEF Shape
<1>6. \A u \in Threads : call'[u].pc \in Locked <=> call[u].pc \in Locked
  BY <1>2, <1>4 DEF Locked
<1>7. CallOK(t)' /\ WriterOK(t)'
  BY <1>1, <1>2, <1>4 DEF CallOK, WriterOK, Locked
<1>8. \A u \in Threads : CallOK(u)' /\ WriterOK(u)'
  BY <1>4, <1>7, CallStays
<1>9. FlightOK(p)'
  <2>1. Flying(p)' = Flying(p) /\ \A u \in Flying(p) : call'[u] = call[u]
    BY <1>2, <1>4 DEF Flying, Compiling
  <2>2. cache'[p] = d /\ d.pending = {call[u].key : u \in Flying(p)}
    BY <1>1 DEF Shape, FlightOK
  <2>3. {call'[u].key : u \in Flying(p)'} = {call[u].key : u \in Flying(p)}
    <3> HIDE DEF p
    <3> QED BY <2>1
  <2>5. cache'[p].pending = {call'[u].key : u \in Flying(p)'}
    BY <2>2, <2>3
  <2>4. \A u, v \in Flying(p)' : call'[u].key = call'[v].key => u = v
    BY <1>1, <2>1 DEF FlightOK
  <2>6. /\ KeysOf(cache'[p].entries) \subseteq KeysOf(cache[p].entries)
        /\ KeysOf(cache'[p].rejections) \subseteq KeysOf(cache[p].rejections)
        /\ cache'[p].pending = cache[p].pending
    BY <2>2
  <2> HIDE DEF p
  <2> QED BY <1>1, <2>4, <2>5, <2>6 DEF FlightOK
<1> QED BY <1>1, <1>4, <1>5, <1>6, <1>8, <1>9, ProcMoves

\* get_or_compile under the condition's lock: a hit, a wait, or a compilation.
LEMMA LookupKeeps ==
  ASSUME ArtifactInv, NEW t \in Threads, Lookup(t)
  PROVE  ArtifactInv'
<1> DEFINE p == ProcOf[t]
           key == call[t].key
<1>1. /\ Shape /\ call[t] \in Call /\ p \in Procs /\ FlightOK(p) /\ cache[p] \in Tables
      /\ call[t].pc = "lookup" /\ CallOK(t) /\ key \in Keys
      /\ Sound(cache[p].entries) /\ Sound(cache[p].rejections)
      /\ cache[p].entries \in Seq(Row) /\ cache[p].rejections \in Seq(Row)
      /\ cache[p].pending \in SUBSET Keys
  BY ArtifactConstants DEF Lookup, ArtifactInv, Shape, TablesOK, CallOK, Tables
<1>2. UNCHANGED <<withStore, version, disk, temps, lock>>
  BY DEF Lookup
<1>3. CASE Hit(t, "entries")
  <2> DEFINE q == Touch(cache[p].entries, key)
             out == Get(cache[p].entries, key)
             d == [cache[p] EXCEPT !.entries = q]
  <2>1. /\ Has(cache[p].entries, key)
        /\ cache' = [cache EXCEPT ![p].entries = q]
        /\ call' = [call EXCEPT ![t].pc = "done", ![t].out = out]
    BY <1>3 DEF Hit, Mine, Conclude
  <2>2. /\ out \in Outcomes /\ Answers(out, key) /\ q \in Seq(Row) /\ Sound(q)
        /\ KeysOf(q) \subseteq KeysOf(cache[p].entries)
    BY <1>1, <2>1, HitSound
  <2> HIDE DEF q, out
  <2>3. /\ d \in Tables /\ d.entries = q /\ d.rejections = cache[p].rejections
        /\ d.pending = cache[p].pending
    BY <1>1, <2>2 DEF Tables
  <2>4. cache' = [cache EXCEPT ![p] = d]
    BY <1>1, <2>1 DEF Shape
  <2> HIDE DEF d
  <2> QED BY <1>1, <1>2, <2>1, <2>2, <2>3, <2>4, HitKeeps
<1>4. CASE Hit(t, "rejections")
  <2> DEFINE q == Touch(cache[p].rejections, key)
             out == Get(cache[p].rejections, key)
             d == [cache[p] EXCEPT !.rejections = q]
  <2>1. /\ Has(cache[p].rejections, key)
        /\ cache' = [cache EXCEPT ![p].rejections = q]
        /\ call' = [call EXCEPT ![t].pc = "done", ![t].out = out]
    BY <1>4 DEF Hit, Mine, Conclude
  <2>2. /\ out \in Outcomes /\ Answers(out, key) /\ q \in Seq(Row) /\ Sound(q)
        /\ KeysOf(q) \subseteq KeysOf(cache[p].rejections)
    BY <1>1, <2>1, HitSound
  <2> HIDE DEF q, out
  <2>3. /\ d \in Tables /\ d.rejections = q /\ d.entries = cache[p].entries
        /\ d.pending = cache[p].pending
    BY <1>1, <2>2 DEF Tables
  <2>4. cache' = [cache EXCEPT ![p] = d]
    BY <1>1, <2>1 DEF Shape
  <2> HIDE DEF d
  <2> QED BY <1>1, <1>2, <2>1, <2>2, <2>3, <2>4, HitKeeps
<1>5. CASE /\ ~Has(cache[p].entries, key) /\ ~Has(cache[p].rejections, key)
           /\ Enlist(t) \/ Join(t)
  <2>1. PICK pc \in {"identify", "direct", "waiting"} : call' = [call EXCEPT ![t].pc = pc]
    BY <1>5 DEF Enlist, Join, Goto
  <2> DEFINE c == [call[t] EXCEPT !.pc = pc]
  <2>2. c \in Call /\ c.pc = pc /\ c.key = key /\ c.since = call[t].since
    BY <1>1 DEF Call, PCs, Compiling
  <2>3. call' = [call EXCEPT ![t] = c]
    BY <1>1, <2>1 DEF Shape
  <2> HIDE DEF c
  <2>4. call'[t] = c /\ \A u \in Threads \ {t} : call'[u] = call[u]
    BY <1>1, <2>3 DEF Shape
  <2>5. call' \in [Threads -> Call]
    BY <1>1, <2>2, <2>3 DEF Shape
  <2>6. \A u \in Threads : call'[u].pc \in Locked <=> call[u].pc \in Locked
    BY <1>1, <2>2, <2>4 DEF Locked
  <2>7. \A u \in Threads : CallOK(u)' /\ WriterOK(u)'
    <3>1. CallOK(t)' /\ WriterOK(t)'
      BY <1>1, <1>2, <2>2, <2>4 DEF CallOK, WriterOK, Locked
    <3> QED BY <1>2, <2>4, <3>1, CallStays
  <2>8. key \notin KeysOf(cache[p].entries) /\ key \notin KeysOf(cache[p].rejections)
    BY <1>1, <1>5 DEF Has, KeysOf
  <2>9. CASE Join(t)
    <3>1. cache' = cache /\ pc = "waiting" /\ cache' = [cache EXCEPT ![p] = cache[p]]
      <4>1. cache' = cache /\ call' = [call EXCEPT ![t].pc = "waiting"]
        BY <2>9 DEF Join, Goto
      <4>2. call'[t].pc = "waiting"
        BY <1>1, <4>1 DEF Shape, Call
      <4> QED BY <1>1, <2>2, <2>4, <4>1, <4>2 DEF Shape
    <3>2. Flying(p)' = Flying(p) /\ \A u \in Flying(p) : call'[u] = call[u]
      BY <1>1, <2>2, <2>4, <3>1 DEF Flying, Compiling
    <3>3. cache'[p].pending = {call'[u].key : u \in Flying(p)'}
      BY <1>1, <3>1, <3>2 DEF FlightOK
    <3>4. \A u, v \in Flying(p)' : call'[u].key = call'[v].key => u = v
      BY <1>1, <3>2 DEF FlightOK
    <3>5. FlightOK(p)'
      BY <1>1, <3>1, <3>3, <3>4 DEF FlightOK
    <3> QED BY <1>1, <1>2, <2>4, <2>5, <2>6, <2>7, <3>1, <3>5, ProcMoves
  <2>10. CASE Enlist(t)
    <3> DEFINE d == [cache[p] EXCEPT !.pending = @ \cup {key}]
    <3>1. /\ d \in Tables /\ d.entries = cache[p].entries /\ d.rejections = cache[p].rejections
          /\ d.pending = cache[p].pending \cup {key}
      BY <1>1 DEF Tables
    <3>2. cache' = [cache EXCEPT ![p] = d] /\ key \notin cache[p].pending
      BY <1>1, <2>10 DEF Enlist, Mine, Shape
    <3> HIDE DEF d
    <3>3. pc \in Compiling
      <4>1. call'[t].pc \in {"identify", "direct"}
        BY <1>1, <2>10 DEF Enlist, Goto, Shape, Call
      <4> QED BY <2>2, <2>4, <4>1 DEF Compiling
    <3>4. Flying(p)' = Flying(p) \cup {t} /\ t \notin Flying(p)
      BY <1>1, <2>2, <2>4, <3>3 DEF Flying, Compiling
    <3>5. call'[t].key = key /\ \A u \in Flying(p) : call'[u] = call[u]
      BY <2>2, <2>4, <3>4 DEF Flying
    <3>6. cache'[p] = d
      BY <1>1, <3>2 DEF Shape
    <3>7. \A u \in Flying(p) : call[u].key \in cache[p].pending
      BY <1>1 DEF FlightOK
    <3>8. cache'[p].pending = {call'[u].key : u \in Flying(p)'}
      BY <1>1, <3>1, <3>4, <3>5, <3>6 DEF FlightOK
    <3>9. \A u, v \in Flying(p)' : call'[u].key = call'[v].key => u = v
      BY <1>1, <3>2, <3>4, <3>5, <3>7 DEF FlightOK
    <3>10. FlightOK(p)'
      BY <1>1, <2>8, <3>1, <3>6, <3>8, <3>9 DEF FlightOK
    <3> QED BY <1>1, <1>2, <2>4, <2>5, <2>6, <2>7, <3>1, <3>2, <3>10, ProcMoves
  <2> QED BY <1>5, <2>9, <2>10
<1> QED BY <1>3, <1>4, <1>5 DEF Lookup, Mine

\* What get_or_compile is handed decides the key that the thread compiled.
LEMMA AnswerSound ==
  ASSUME ArtifactInv, NEW t \in Threads, call[t].pc \in {"verify", "finish"}
  PROVE  Answer(t) \in Outcomes /\ Answers(Answer(t), call[t].key)
<1>1. Answers(call[t].out, call[t].key) /\ call[t].out \in Outcomes
  BY DEF ArtifactInv, Shape, CallOK, Call
<1> QED BY <1>1, FailedAnswers DEF Answer

\* The decision goes into one table, or none, and the key is no longer pending.
LEMMA RecordedSound ==
  ASSUME ArtifactInv, NEW t \in Threads, call[t].key \in Keys,
         NEW out \in Outcomes, Answers(out, call[t].key)
  PROVE  LET c == cache[ProcOf[t]]
             d == Recorded(t, out)
             key == call[t].key
         IN  /\ d \in Tables /\ d.pending = c.pending \ {key}
             /\ Sound(d.entries) /\ Sound(d.rejections)
             /\ \/ /\ d.rejections = c.rejections
                   /\ KeysOf(d.entries) \subseteq KeysOf(c.entries) \cup {key}
                \/ /\ d.entries = c.entries
                   /\ KeysOf(d.rejections) \subseteq KeysOf(c.rejections) \cup {key}
<1> DEFINE c == cache[ProcOf[t]]
           d == Recorded(t, out)
           key == call[t].key
           e == [c EXCEPT !.pending = @ \ {key}]
<1>1. /\ c \in Tables /\ Sound(c.entries) /\ Sound(c.rejections)
      /\ c.entries \in Seq(Row) /\ c.rejections \in Seq(Row)
  BY ArtifactConstants DEF ArtifactInv, Shape, TablesOK, Tables
<1>2. /\ e \in Tables /\ e.pending = c.pending \ {key}
      /\ e.entries = c.entries /\ e.rejections = c.rejections
  BY <1>1 DEF Tables
<1>3. d = CASE out.kind = "artifact" -> [e EXCEPT !.entries = Put(@, key, out)]
            [] out.kind = "unsupported" -> [e EXCEPT !.rejections = Put(@, key, out)]
            [] OTHER -> e
  BY DEF Recorded, Mine
<1> HIDE DEF d, e, c
<1>4. CASE out.kind = "artifact"
  <2> DEFINE q == Put(c.entries, key, out)
  <2>1. q \in Seq(Row) /\ Sound(q) /\ KeysOf(q) \subseteq KeysOf(c.entries) \cup {key}
    BY <1>1, PutSound
  <2>2. d = [e EXCEPT !.entries = q]
    BY <1>2, <1>3, <1>4 DEF Tables
  <2> HIDE DEF q
  <2>3. d \in Tables /\ d.entries = q /\ d.rejections = c.rejections /\ d.pending = e.pending
    BY <1>2, <2>1, <2>2 DEF Tables
  <2> QED BY <1>1, <1>2, <2>1, <2>3 DEF c, d
<1>5. CASE out.kind = "unsupported"
  <2> DEFINE q == Put(c.rejections, key, out)
  <2>1. q \in Seq(Row) /\ Sound(q) /\ KeysOf(q) \subseteq KeysOf(c.rejections) \cup {key}
    BY <1>1, PutSound
  <2>2. d = [e EXCEPT !.rejections = q]
    BY <1>2, <1>3, <1>5 DEF Tables
  <2> HIDE DEF q
  <2>3. d \in Tables /\ d.rejections = q /\ d.entries = c.entries /\ d.pending = e.pending
    BY <1>2, <2>1, <2>2 DEF Tables
  <2> QED BY <1>1, <1>2, <2>1, <2>3 DEF c, d
<1>6. CASE out.kind # "artifact" /\ out.kind # "unsupported"
  <2>1. d = e
    BY <1>3, <1>6
  <2> QED BY <1>1, <1>2, <2>1 DEF c, d
<1> QED BY <1>4, <1>5, <1>6

\* Finish: the outcome is recorded and the waiters of the process look again.
LEMMA FinishKeeps ==
  ASSUME ArtifactInv, NEW t \in Threads, Finish(t)
  PROVE  ArtifactInv'
<1>0. PICK out : out = Answer(t)
  OBVIOUS
<1> DEFINE key == call[t].key
           n == [call[t] EXCEPT !.pc = "done", !.out = out, !.identity = 0]
<1>1. PICK p \in Procs : p = ProcOf[t]
  BY ArtifactConstants
<1>2. /\ Shape /\ call[t] \in Call /\ FlightOK(p) /\ CallOK(t) /\ key \in Keys
      /\ call[t].pc \in {"verify", "finish"}
      /\ UNCHANGED <<withStore, version, disk, temps, lock>>
  BY <1>1 DEF Finish, ArtifactInv, Shape, CallOK
<1>3. out \in Outcomes /\ Answers(out, key)
  BY <1>0, <1>2, AnswerSound
<1>4. PICK d : d = Recorded(t, out)
  OBVIOUS
<1>5. /\ d \in Tables /\ d.pending = cache[p].pending \ {key}
      /\ Sound(d.entries) /\ Sound(d.rejections)
      /\ \/ /\ d.rejections = cache[p].rejections
            /\ KeysOf(d.entries) \subseteq KeysOf(cache[p].entries) \cup {key}
         \/ /\ d.entries = cache[p].entries
            /\ KeysOf(d.rejections) \subseteq KeysOf(cache[p].rejections) \cup {key}
  BY <1>1, <1>2, <1>3, <1>4, RecordedSound
<1>6. /\ n \in Call /\ n.pc = "done" /\ n.key = key /\ n.since = call[t].since
      /\ n.out = out
  <2>1. 0 \in 0 .. MaxVersion
    BY ArtifactConstants
  <2> QED BY <1>2, <1>3, <2>1 DEF Call, PCs
<1>7. \A u \in Threads : u # t => call[u] \in Call /\ [call[u] EXCEPT !.pc = "lookup"] \in Call
  BY <1>2 DEF Shape, Call, PCs
<1>8. cache' = [cache EXCEPT ![p] = d] /\ call' = NotifyAll(t, out)
  BY <1>0, <1>1, <1>4 DEF Finish
<1>9. /\ call'[t] = n
      /\ \A u \in Threads : u # t =>
           IF ProcOf[u] = p /\ call[u].pc = "waiting"
           THEN call'[u] = [call[u] EXCEPT !.pc = "lookup"] ELSE call'[u] = call[u]
  <2>1. \A u \in Threads :
          call'[u] = CASE u = t -> n
                       [] ProcOf[u] = p /\ call[u].pc = "waiting" -> [call[u] EXCEPT !.pc = "lookup"]
                       [] OTHER -> call[u]
    BY <1>1, <1>8 DEF NotifyAll
  <2>2. call[t].pc # "waiting"
    BY <1>2
  <2> HIDE DEF n
  <2> QED BY <2>1, <2>2
<1> HIDE DEF n
<1>10. call' \in [Threads -> Call]
  <2>1. \A u \in Threads : call'[u] \in Call
    BY <1>2, <1>6, <1>7, <1>9 DEF Shape
  <2>2. call' = [u \in Threads |-> call'[u]]
    BY <1>8 DEF NotifyAll
  <2> QED BY <2>1, <2>2
<1>11. \A u \in Threads : u # t =>
         \/ call'[u] = call[u]
         \/ /\ call[u].pc = "waiting" /\ call'[u].pc = "lookup" /\ ProcOf[u] = p
            /\ call'[u].key = call[u].key /\ call'[u].since = call[u].since
  BY <1>2, <1>9 DEF Shape, Call
<1>12. \A u \in Threads : call'[u].pc \in Locked <=> call[u].pc \in Locked
  BY <1>2, <1>6, <1>9, <1>11 DEF Locked
<1>13. ASSUME NEW u \in Threads PROVE CallOK(u)' /\ WriterOK(u)'
  <2>1. CASE u = t
    BY <1>2, <1>3, <1>6, <1>9, <2>1 DEF CallOK, WriterOK, Locked
  <2>2. CASE call'[u] = call[u]
    BY <1>2, <2>2, CallStays
  <2>3. CASE /\ call[u].pc = "waiting" /\ call'[u].pc = "lookup"
             /\ call'[u].key = call[u].key /\ call'[u].since = call[u].since
    <3>1. CallOK(u) /\ version' = version
      BY <1>2 DEF ArtifactInv
    <3> QED BY <2>3, <3>1 DEF CallOK, WriterOK, Locked
  <2> QED BY <1>11, <2>1, <2>2, <2>3
<1>14. FlightOK(p)'
  <2>1. Flying(p)' = Flying(p) \ {t} /\ t \in Flying(p)
    BY <1>1, <1>2, <1>6, <1>9, <1>11 DEF Flying, Compiling
  <2>2. \A u \in Flying(p) \ {t} : call'[u] = call[u]
    BY <1>11 DEF Flying, Compiling
  <2>3. cache'[p] = d
    BY <1>2, <1>8 DEF Shape
  <2>4. \A u \in Flying(p) \ {t} : call[u].key # key
    BY <1>2, <2>1 DEF FlightOK
  <2>5. cache[p].pending = {call[u].key : u \in Flying(p)}
    BY <1>2 DEF FlightOK
  <2>6. {call'[u].key : u \in Flying(p)'} = {call[u].key : u \in Flying(p) \ {t}}
    BY <2>1, <2>2
  <2>7. cache'[p].pending = {call'[u].key : u \in Flying(p)'}
    BY <1>5, <2>1, <2>3, <2>4, <2>5, <2>6
  <2>8. \A u, v \in Flying(p)' : call'[u].key = call'[v].key => u = v
    BY <1>2, <2>1, <2>2 DEF FlightOK
  <2>9. key \in cache[p].pending
    BY <2>1, <2>5
  <2>10. /\ KeysOf(d.entries) \cap KeysOf(d.rejections) = {}
         /\ d.pending \cap (KeysOf(d.entries) \cup KeysOf(d.rejections)) = {}
    BY <1>2, <1>5, <2>9 DEF FlightOK
  <2> QED BY <2>3, <2>7, <2>8, <2>10 DEF FlightOK
<1> QED BY <1>1, <1>2, <1>5, <1>8, <1>10, <1>11, <1>12, <1>13, <1>14, ProcMoves

\* The invariant holds in every state.
LEMMA ArtifactsStep == ArtifactInv /\ [Next]_vars => ArtifactInv'
<1> SUFFICES ASSUME ArtifactInv, [Next]_vars PROVE ArtifactInv'
  OBVIOUS
<1>1. ASSUME NEW t \in Threads, Step(t) PROVE ArtifactInv'
  BY <1>1, LookupKeeps, CompileDirectKeeps, IdentifyKeeps, EnterKeeps, CompileKeeps,
     PublishKeeps, ReplaceKeeps, FinishKeeps DEF Step
<1>2. ASSUME NEW t \in Threads, NEW r \in Recipes, CompileRecipe(t, r) PROVE ArtifactInv'
  BY <1>2, CompileRecipeKeeps
<1>3. ASSUME NEW p \in Procs, Crash(p) PROVE ArtifactInv'
  BY <1>3, CrashKeeps
<1>4. CASE Rebuild
  BY <1>4, RebuildKeeps
<1>5. CASE Damage
  BY <1>5, DamageKeeps
<1>6. CASE UNCHANGED vars
  <2>1. /\ UNCHANGED <<withStore, version, disk, temps, lock, cache, call>>
    BY <1>6 DEF vars
  <2>2. Shape' /\ LockOK' /\ TablesOK' /\ temps' <= 1
    BY <2>1 DEF ArtifactInv, Shape, LockOK, TablesOK
  <2>3. DiskOK'
    BY <2>1, KeptNext DEF ArtifactInv, DiskOK
  <2>4. \A u \in Threads : CallOK(u)' /\ WriterOK(u)'
    BY <2>1, CallStays
  <2>5. \A p \in Procs : FlightOK(p)'
    BY <2>1 DEF ArtifactInv, FlightOK, Flying
  <2> QED BY <2>2, <2>3, <2>4, <2>5 DEF ArtifactInv
<1> QED BY <1>1, <1>2, <1>3, <1>4, <1>5, <1>6 DEF Next

\* The invariant holds in every state, for every number of threads and
\* processes and every limit, through rebuilds, damage and crashes.
THEOREM ArtifactsInvariant == Spec => []ArtifactInv
BY ArtifactsInit, ArtifactsStep, PTL DEF Spec

\* "Concurrent requests for one key compile once" (ArtifactCache.get_or_compile).
THEOREM KeysFlyOnce == Spec => []SingleFlight
<1>1. ArtifactInv => SingleFlight
  <2> SUFFICES ASSUME ArtifactInv, NEW p \in Procs
               PROVE  LET flying == {t \in Threads : ProcOf[t] = p /\ call[t].pc \in Compiling}
                          decided(table) ==
                            {cache[p][table][i].key : i \in DOMAIN cache[p][table]} IN
                      /\ cache[p].pending = {call[t].key : t \in flying}
                      /\ \A t, u \in flying : call[t].key = call[u].key => t = u
                      /\ decided("entries") \cap decided("rejections") = {}
                      /\ cache[p].pending \cap (decided("entries") \cup decided("rejections")) = {}
    BY DEF SingleFlight
  <2>1. FlightOK(p)
    BY DEF ArtifactInv
  <2>2. cache[p].entries \in Seq(Row) /\ cache[p].rejections \in Seq(Row)
    BY DEF ArtifactInv, Shape, Tables
  <2>3. {cache[p].entries[i].key : i \in DOMAIN cache[p].entries} = KeysOf(cache[p].entries)
    BY <2>2 DEF KeysOf
  <2>4. {cache[p].rejections[i].key : i \in DOMAIN cache[p].rejections} = KeysOf(cache[p].rejections)
    BY <2>2 DEF KeysOf
  <2>5. /\ cache[p]["entries"] = cache[p].entries
        /\ cache[p]["rejections"] = cache[p].rejections
    OBVIOUS
  <2> QED BY <2>1, <2>3, <2>4, <2>5 DEF FlightOK, Flying
<1> QED BY <1>1, ArtifactsInvariant, PTL

\* A rebuilt exporter's caller never gets what the previous binary decided
\* (CompilerClient.identity, compile).
THEOREM ResultsAreFresh == Spec => []FreshResult
<1>1. ArtifactInv => FreshResult
  <2> SUFFICES ASSUME ArtifactInv, NEW t \in Threads, call[t].pc = "done",
                      call[t].out.kind \in {"artifact", "unsupported"}
               PROVE  call[t].out.recipe = RecipeOf(t) /\ call[t].out.ver >= call[t].since
    BY DEF FreshResult
  <2>1. CallOK(t)
    BY DEF ArtifactInv
  <2> QED BY <2>1 DEF CallOK, Answers, RecipeOf
<1> QED BY <1>1, ArtifactsInvariant, PTL

\* A killed writer publishes no partial file, and neither the directory nor the
\* tables outgrow their limits (ArtifactStore.put, _trim, _locked).
THEOREM StoreIsSound == Spec => []StoreSound
<1>1. ArtifactInv => StoreSound
  <2> SUFFICES ASSUME ArtifactInv PROVE StoreSound
    OBVIOUS
  <2>1. disk \in Seq(Files) /\ Kept(disk) /\ temps <= 1 /\ TablesOK
    BY DEF ArtifactInv, Shape, DiskOK
  <2>2. StoredWhole
    BY <2>1 DEF StoredWhole, Kept
  <2>3. IsInjective([i \in DOMAIN disk |-> disk[i].key])
    BY <2>1 DEF IsInjective, Kept, Unique
  <2> QED BY <2>1, <2>2, <2>3 DEF StoreSound, StoreBounded, Kept, TablesOK, Sound
<1> QED BY <1>1, ArtifactsInvariant, PTL

(***************************************************************************)
(* Installer: the inductive invariant                                      *)
(***************************************************************************)
Unlinked == {"build", "validate", "record", "rollback link", "current link"}
Candidate == Unlinked \cup {"linked", "restore", "cleanup"}
Targets == Ids \cup {NoLink, UserFile}
Job == [pc : {"inspect"} \cup Candidate, manifest : Manifests, variant : Variants,
        upgrade : BOOLEAN, env : Ids \cup {NoLink}, previous : Targets, rollback : Targets]

Fields == {"wheel", "claims", "validated", "record"}

InstallShape ==
  /\ links \in [{"current", "previous"} -> Targets]
  /\ made \in 0 .. MaxEnvironments /\ DOMAIN environments \subseteq 1 .. made
  /\ \A e \in DOMAIN environments : DOMAIN environments[e] = Fields
  /\ job \in [Installers -> Job \cup {NoJob}]
  /\ disturbed \in BOOLEAN

\* One installer at a time: who has a job holds the lock.
PrefixLockOK == \A i \in Installers : job[i] # NoJob => prefixLock = i

\* A link to an environment leads to one that may be run.
Leads(target) == target \in Ids => Whole(target)
LinksOK == \A name \in {"current", "previous"} : Leads(links[name])

\* The candidate of a job: what is known of it at each step, and that no link
\* leads to it before `current` does.
CandidateOK(i) ==
  LET e == job[i].env
      c == environments[e]
  IN
  /\ e \in DOMAIN environments /\ links["previous"] # e
  /\ job[i].previous # e /\ job[i].previous # UserFile /\ job[i].rollback # e
  /\ job[i].pc \in Unlinked => links["current"] # e
  /\ job[i].pc \in {"validate", "record"} =>
       /\ c.wheel = Asset(i, "wheel").digest
       /\ c.claims = Asset(i, "wheel").claims
  /\ job[i].pc = "record" =>
       c.validated /\ c.claims.revision = job[i].manifest.revision
  /\ job[i].pc \in {"rollback link", "current link"} => Whole(e)

\* What a failed activation goes back to.
WayBack(i) ==
  /\ Leads(job[i].previous)
  /\ job[i].pc \in {"current link", "linked", "restore"} => Leads(job[i].rollback)
  /\ ~disturbed =>
       /\ job[i].pc \in Unlinked => links["current"] = job[i].previous
       /\ job[i].pc \in {"current link", "linked", "restore"} /\ job[i].rollback \in Ids =>
            job[i].rollback # links["current"]
       /\ job[i].pc = "restore" /\ job[i].previous = NoLink /\ links["previous"] \in Ids =>
            links["previous"] # links["current"]

JobInv(i) ==
  job[i] # NoJob =>
    /\ select_variant(job[i].manifest, job[i].variant)
    /\ job[i].pc = "inspect" => job[i].rollback = NoLink
    /\ job[i].pc # "inspect" => CandidateOK(i) /\ WayBack(i)

\* Outside an activation the two links lead to two releases.
Apart ==
  ~disturbed /\ links["previous"] \in Ids /\ links["current"] \in Ids
    /\ (\A i \in Installers : job[i].pc \notin {"current link", "restore"})
  => links["previous"] # links["current"]

InstallInv ==
  /\ InstallShape /\ PrefixLockOK /\ LinksOK /\ Apart
  /\ \A i \in Installers : JobInv(i)

\* An environment that nobody touches is as whole as it was.
LEMMA WholeStays ==
  ASSUME NEW e, e \in DOMAIN environments', environments'[e] = environments[e], Whole(e)
  PROVE  Whole(e)'
BY DEF Whole

\* The lock: nobody else has a job.
LEMMA Alone ==
  ASSUME InstallInv, NEW i \in Installers, job[i].pc # "idle"
  PROVE  /\ job[i] \in Job /\ prefixLock = i /\ JobInv(i)
         /\ \A j \in Installers \ {i} : job[j] = NoJob
<1>1. job[i] # NoJob /\ job[i] \in Job
  BY DEF InstallInv, InstallShape, NoJob
<1> QED BY <1>1 DEF InstallInv, PrefixLockOK

\* A step of the one installer that runs.
LEMMA InstallMoves ==
  ASSUME InstallInv, NEW i \in Installers, NEW n \in Job \cup {NoJob},
         \A j \in Installers \ {i} : job[j] = NoJob,
         job' = [job EXCEPT ![i] = n],
         n # NoJob => prefixLock' = i,
         links' \in [{"current", "previous"} -> Targets], made' \in 0 .. MaxEnvironments,
         DOMAIN environments' \subseteq 1 .. made', disturbed' \in BOOLEAN,
         \A e \in DOMAIN environments' : DOMAIN environments'[e] = Fields,
         LinksOK', Apart', JobInv(i)'
  PROVE  InstallInv'
<1>1. /\ job' \in [Installers -> Job \cup {NoJob}] /\ job'[i] = n
      /\ \A j \in Installers \ {i} : job'[j] = NoJob
  BY DEF InstallInv, InstallShape
<1>2. InstallShape' /\ PrefixLockOK'
  BY <1>1 DEF InstallShape, PrefixLockOK
<1>3. \A j \in Installers : JobInv(j)'
  BY <1>1 DEF JobInv
<1> QED BY <1>2, <1>3 DEF InstallInv

\* The call ends and the links stay; at most its candidate went.
LEMMA InstallEnds ==
  ASSUME InstallInv, NEW i \in Installers, job[i].pc # "idle", Ends(i),
         UNCHANGED <<links, made>>, disturbed' \in BOOLEAN, disturbed => disturbed',
         LinksOK', DOMAIN environments' \subseteq DOMAIN environments,
         \A e \in DOMAIN environments' : environments'[e] = environments[e],
         job[i].pc \in {"current link", "restore"} => disturbed'
  PROVE  InstallInv'
<1>1. /\ job[i] \in Job /\ \A j \in Installers \ {i} : job[j] = NoJob
      /\ job' = [job EXCEPT ![i] = NoJob] /\ InstallShape /\ Apart
  BY Alone DEF Ends, InstallInv
<1>2. job'[i] = NoJob
  BY <1>1 DEF InstallShape
<1>3. Apart'
  BY <1>1, <1>2 DEF Apart, NoJob
<1>4. JobInv(i)'
  BY <1>2 DEF JobInv
<1>5. /\ links' \in [{"current", "previous"} -> Targets] /\ made' \in 0 .. MaxEnvironments
      /\ DOMAIN environments' \subseteq 1 .. made'
      /\ \A e \in DOMAIN environments' : DOMAIN environments'[e] = Fields
  BY <1>1 DEF InstallShape
<1> QED BY <1>1, <1>3, <1>4, <1>5, InstallMoves

\* A job begins under the lock, with an admitted release.
LEMMA InstallBegins ==
  ASSUME InstallInv, NEW i \in Installers, NEW m \in Manifests, NEW v \in Variants,
         NEW u \in BOOLEAN, Install(i, m, v, u)
  PROVE  InstallInv'
<1> DEFINE n == [pc |-> "inspect", manifest |-> m, variant |-> v, upgrade |-> u,
                 env |-> NoLink, previous |-> NoLink, rollback |-> NoLink]
<1>1. /\ job' = [job EXCEPT ![i] = n] /\ prefixLock = Nobody /\ prefixLock' = i
      /\ select_variant(m, v) /\ UNCHANGED <<links, environments, made, disturbed>>
      /\ InstallShape /\ PrefixLockOK /\ LinksOK /\ Apart
  BY DEF Install, Does, InstallInv
<1>2. /\ n \in Job /\ n.pc = "inspect" /\ n.manifest = m /\ n.variant = v
      /\ n.rollback = NoLink
  BY DEF Job, Targets
<1> HIDE DEF n
<1>3. \A j \in Installers : job[j] = NoJob
  BY <1>1, InstallerConstants DEF PrefixLockOK
<1>4. job'[i] = n /\ \A j \in Installers : job[j].pc = "idle"
  BY <1>1, <1>3 DEF InstallShape, NoJob
<1>5. JobInv(i)'
  BY <1>1, <1>2, <1>4 DEF JobInv
<1>6. LinksOK' /\ Apart'
  <2>1. LinksOK'
    BY <1>1, WholeStays DEF LinksOK, Leads, Whole
  <2> QED BY <1>1, <1>4, <2>1 DEF Apart
<1> QED BY <1>1, <1>2, <1>3, <1>5, <1>6, InstallMoves DEF InstallShape

\* The candidate is worked on: no link leads to it, so that what the links and
\* the way back lead to is not touched.
LEMMA CandidateMoves ==
  ASSUME InstallInv, NEW i \in Installers, job[i].pc \in {"build", "validate", "record"},
         NEW pc \in {"validate", "record", "rollback link"},
         job' = [job EXCEPT ![i].pc = pc], UNCHANGED <<links, made, prefixLock, disturbed>>,
         NEW c, DOMAIN c = Fields, environments' = [environments EXCEPT ![job[i].env] = c],
         pc \in {"validate", "record"} =>
           c.wheel = Asset(i, "wheel").digest /\ c.claims = Asset(i, "wheel").claims,
         pc = "record" => c.validated /\ c.claims.revision = job[i].manifest.revision,
         pc = "rollback link" => Whole(job[i].env)'
  PROVE  InstallInv'
<1> DEFINE n == [job[i] EXCEPT !.pc = pc]
           e == job[i].env
<1>1. /\ job[i] \in Job /\ prefixLock = i /\ JobInv(i) /\ job[i] # NoJob
      /\ \A j \in Installers \ {i} : job[j] = NoJob
      /\ InstallShape /\ LinksOK /\ Apart
  <2>1. job[i].pc # "idle"
    OBVIOUS
  <2>2. job[i] # NoJob
    <3>1. NoJob.pc = "idle"
      BY DEF NoJob
    <3> QED BY <2>1, <3>1
  <2>3. /\ job[i] \in Job /\ prefixLock = i /\ JobInv(i)
        /\ \A j \in Installers \ {i} : job[j] = NoJob
    BY <2>1, Alone
  <2> QED BY <2>2, <2>3 DEF InstallInv
<1>2. /\ n \in Job /\ n.pc = pc /\ n.manifest = job[i].manifest /\ n.variant = job[i].variant
      /\ n.env = e /\ n.previous = job[i].previous /\ n.rollback = job[i].rollback
  BY <1>1 DEF Job, Candidate, Unlinked
<1>3. job' = [job EXCEPT ![i] = n]
  BY <1>1 DEF InstallShape
<1> HIDE DEF n
<1>4. job'[i] = n /\ \A j \in Installers \ {i} : job'[j] = job[j]
  BY <1>1, <1>3 DEF InstallShape
<1>5. /\ CandidateOK(i) /\ WayBack(i) /\ select_variant(job[i].manifest, job[i].variant)
      /\ e \in DOMAIN environments /\ links["current"] # e /\ links["previous"] # e
      /\ job[i].previous # e
  BY <1>1 DEF JobInv, CandidateOK, Unlinked
<1>6. /\ DOMAIN environments' = DOMAIN environments /\ environments'[e] = c
      /\ \A x \in DOMAIN environments : x # e => environments'[x] = environments[x]
  BY <1>5
<1>7. \A x : x # e /\ Leads(x) => Leads(x)'
  BY <1>6, WholeStays DEF Leads, Whole
<1>8. LinksOK'
  BY <1>1, <1>5, <1>7 DEF LinksOK
<1>9. Asset(i, "wheel")' = Asset(i, "wheel")
  BY <1>2, <1>4 DEF Asset
<1>10. CandidateOK(i)'
  <2>1. /\ e \in DOMAIN environments' /\ links'["previous"] # e
        /\ n.previous # e /\ n.previous # UserFile /\ n.rollback # e /\ links'["current"] # e
    BY <1>2, <1>5, <1>6 DEF CandidateOK
  <2>3. pc = "rollback link" => Whole(e)'
    OBVIOUS
  <2>4. job'[i].env = e /\ job'[i].pc = pc /\ job'[i].manifest = job[i].manifest
        /\ job'[i].previous = n.previous /\ job'[i].rollback = n.rollback
    BY <1>2, <1>4
  <2> QED BY <1>4, <1>6, <1>9, <2>1, <2>3, <2>4 DEF CandidateOK
<1>11. WayBack(i)'
  <2>1. PICK previous : previous = job[i].previous
    OBVIOUS
  <2>2. Leads(previous)'
    BY <1>5, <1>7, <2>1 DEF WayBack
  <2>3. job'[i].previous = previous /\ job'[i].pc = pc
    BY <1>2, <1>4, <2>1
  <2>4. ~disturbed => links["current"] = previous
    BY <1>5, <2>1 DEF WayBack, Unlinked
  <2> QED BY <2>2, <2>3, <2>4 DEF WayBack, Leads
<1>12. JobInv(i)'
  BY <1>2, <1>4, <1>5, <1>10, <1>11 DEF JobInv
<1>13. Apart'
  <2>1. n.pc \notin {"current link", "restore"} /\ job[i].pc \notin {"current link", "restore"}
    BY <1>2
  <2>2. (\A j \in Installers : job'[j].pc \notin {"current link", "restore"})
        => \A j \in Installers : job[j].pc \notin {"current link", "restore"}
    BY <1>4, <2>1
  <2> QED BY <1>1, <2>2 DEF Apart
<1>14. DOMAIN environments' \subseteq 1 .. made' /\ made' \in 0 .. MaxEnvironments /\ disturbed' \in BOOLEAN
       /\ links' \in [{"current", "previous"} -> Targets] /\ prefixLock' = i
       /\ \A x \in DOMAIN environments' : DOMAIN environments'[x] = Fields
  BY <1>1, <1>6 DEF InstallShape
<1> QED BY <1>1, <1>2, <1>3, <1>8, <1>12, <1>13, <1>14, InstallMoves

\* The candidate holds what was downloaded and verified.
LEMMA InstallEnvironmentKeeps ==
  ASSUME InstallInv, NEW i \in Installers, InstallEnvironment(i)
  PROVE  InstallInv'
<1>1. /\ job[i].pc = "build" /\ job' = [job EXCEPT ![i].pc = "validate"]
      /\ UNCHANGED <<links, made, prefixLock, disturbed>>
  BY DEF InstallEnvironment, Does, Goes
<1>2. job[i].env \in DOMAIN environments /\ InstallShape
  <2>1. JobInv(i) /\ job[i] # NoJob
    BY <1>1, Alone DEF NoJob
  <2> QED BY <1>1, <2>1 DEF JobInv, CandidateOK, InstallInv
<1>3. PICK wheel : /\ download_asset(Asset(i, "wheel"), wheel)
                   /\ environments' = [environments EXCEPT ![job[i].env] =
                        [@ EXCEPT !.wheel = wheel.digest, !.claims = Asset(i, "wheel").claims]]
  BY DEF InstallEnvironment
<1> DEFINE c == [environments[job[i].env] EXCEPT !.wheel = wheel.digest,
                                                 !.claims = Asset(i, "wheel").claims]
<1>4. environments' = [environments EXCEPT ![job[i].env] = c]
  BY <1>3
<1>5. /\ DOMAIN c = Fields
      /\ c.wheel = Asset(i, "wheel").digest /\ c.claims = Asset(i, "wheel").claims
  BY <1>2, <1>3 DEF download_asset, verify_asset, InstallShape, Fields
<1> HIDE DEF c
<1> QED BY <1>1, <1>4, <1>5, CandidateMoves

\* An installer past `inspect` has a candidate and a way back.
LEMMA Active ==
  ASSUME InstallInv, NEW i \in Installers, job[i].pc \in Candidate
  PROVE  /\ job[i] \in Job /\ job[i] # NoJob /\ prefixLock = i
         /\ CandidateOK(i) /\ WayBack(i)
         /\ select_variant(job[i].manifest, job[i].variant)
         /\ \A j \in Installers \ {i} : job[j] = NoJob
<1>1. job[i].pc # "idle" /\ job[i].pc # "inspect"
  BY DEF Candidate, Unlinked
<1>2. job[i] # NoJob
  <2>1. NoJob.pc = "idle"
    BY DEF NoJob
  <2> QED BY <1>1, <2>1
<1>3. /\ job[i] \in Job /\ prefixLock = i /\ JobInv(i)
      /\ \A j \in Installers \ {i} : job[j] = NoJob
  BY <1>1, Alone
<1> QED BY <1>1, <1>2, <1>3 DEF JobInv

\* doctor and demo accept the environment: it was built from the revision
\* that the manifest names.
LEMMA ValidateKeeps ==
  ASSUME InstallInv, NEW i \in Installers, ValidateEnvironment(i)
  PROVE  InstallInv'
<1> DEFINE e == job[i].env
           c == [environments[e] EXCEPT !.validated = TRUE]
<1>1. /\ job[i].pc = "validate" /\ job' = [job EXCEPT ![i].pc = "record"]
      /\ UNCHANGED <<links, made, prefixLock, disturbed>> /\ Validates(i, e)
      /\ environments' = [environments EXCEPT ![e].validated = TRUE]
  BY DEF ValidateEnvironment, Does, Goes
<1>2. /\ InstallShape /\ e \in DOMAIN environments
      /\ environments[e].wheel = Asset(i, "wheel").digest
      /\ environments[e].claims = Asset(i, "wheel").claims
  BY <1>1, Active DEF CandidateOK, InstallInv, Candidate, Unlinked
<1>3. DOMAIN environments[e] = Fields
  BY <1>2 DEF InstallShape
<1>4. /\ DOMAIN c = Fields /\ c.validated /\ c.wheel = Asset(i, "wheel").digest
      /\ c.claims = environments[e].claims
  BY <1>2, <1>3 DEF Fields
<1>5. environments[e].claims.revision = job[i].manifest.revision
  BY <1>1 DEF Validates
<1>6. environments' = [environments EXCEPT ![e] = c]
  BY <1>1, <1>2
<1> HIDE DEF c
<1>7. c.claims = Asset(i, "wheel").claims /\ c.claims.revision = job[i].manifest.revision
  BY <1>2, <1>4, <1>5
<1>8. job[i].pc \in {"build", "validate", "record"}
  BY <1>1
<1> QED BY <1>1, <1>4, <1>6, <1>7, <1>8, CandidateMoves

\* installation.json is written: in part, or whole.
LEMMA RecordKeeps ==
  ASSUME InstallInv, NEW i \in Installers, WriteRecord(i)
  PROVE  InstallInv'
<1> DEFINE e == job[i].env
<1>1. /\ job[i].pc = "record" /\ UNCHANGED <<links, made, prefixLock, disturbed>>
  BY DEF WriteRecord, Does
<1>2. /\ InstallShape /\ e \in DOMAIN environments /\ job[i] \in Job
      /\ select_variant(job[i].manifest, job[i].variant)
      /\ environments[e].wheel = Asset(i, "wheel").digest
      /\ environments[e].claims = Asset(i, "wheel").claims
      /\ environments[e].validated
      /\ environments[e].claims.revision = job[i].manifest.revision
  BY <1>1, Active DEF CandidateOK, InstallInv, Candidate, Unlinked
<1>3. DOMAIN environments[e] = Fields
  BY <1>2 DEF InstallShape
<1>4. CASE /\ environments' = [environments EXCEPT ![e].record = Partial]
           /\ UNCHANGED job
  <2> DEFINE c == [environments[e] EXCEPT !.record = Partial]
  <2>1. /\ DOMAIN c = Fields /\ c.validated = environments[e].validated
        /\ c.wheel = environments[e].wheel /\ c.claims = environments[e].claims
    BY <1>3 DEF Fields
  <2>2. environments' = [environments EXCEPT ![e] = c]
    BY <1>2, <1>4
  <2> HIDE DEF c
  <2>3. job' = [job EXCEPT ![i].pc = "record"]
    BY <1>1, <1>2, <1>4 DEF InstallShape, Job
  <2>4. job[i].pc \in {"build", "validate", "record"}
    BY <1>1
  <2> QED BY <1>1, <1>2, <2>1, <2>2, <2>3, <2>4, CandidateMoves
<1>5. CASE /\ environments' = [environments EXCEPT ![e].record = ReleaseIdentity(i)]
           /\ Goes(i, "rollback link")
  <2> DEFINE c == [environments[e] EXCEPT !.record = ReleaseIdentity(i)]
  <2>1. /\ DOMAIN c = Fields /\ c.validated = environments[e].validated
        /\ c.wheel = environments[e].wheel /\ c.claims = environments[e].claims
        /\ c.record = ReleaseIdentity(i)
    BY <1>3 DEF Fields
  <2>2. environments' = [environments EXCEPT ![e] = c]
    BY <1>2, <1>5
  <2> HIDE DEF c
  <2>3. job' = [job EXCEPT ![i].pc = "rollback link"]
    BY <1>5 DEF Goes
  <2>4. environments'[e] = c /\ e \in DOMAIN environments'
    BY <1>2, <2>2
  <2>5. ReleaseIdentity(i) \notin {Unwritten, Partial}
    <3>1. DOMAIN ReleaseIdentity(i) = {"release", "variant", "revision", "assets"}
      BY DEF ReleaseIdentity
    <3>2. DOMAIN Unwritten = {"file"} /\ DOMAIN Partial = {"file"}
      BY DEF Unwritten, Partial
    <3> QED BY <3>1, <3>2
  <2>6. /\ ReleaseIdentity(i).release = job[i].manifest.release
        /\ ReleaseIdentity(i).variant = job[i].variant
        /\ ReleaseIdentity(i).revision = job[i].manifest.revision
        /\ ReleaseIdentity(i).assets = job[i].manifest.variants[job[i].variant].assets
    BY DEF ReleaseIdentity
  <2>7. ReleaseIdentity(i).assets["wheel"].filename
          = <<"wheel", ReleaseIdentity(i).release, ReleaseIdentity(i).variant>>
    BY <1>2, <2>6 DEF select_variant, validate_manifest
  <2>8. ReleaseIdentity(i).assets["wheel"] = Asset(i, "wheel")
    BY <2>6 DEF Asset
  <2>9. Whole(e)'
    <3>1. PICK record : record = ReleaseIdentity(i)
      OBVIOUS
    <3>2. /\ c.validated /\ c.record = record /\ record \notin {Unwritten, Partial}
          /\ c.wheel = record.assets["wheel"].digest
          /\ record.assets["wheel"].filename = <<"wheel", record.release, record.variant>>
          /\ c.claims.revision = record.revision
      BY <1>2, <2>1, <2>5, <2>6, <2>7, <2>8, <3>1
    <3>3. job'[i].env = e
      BY <1>2, <2>3 DEF InstallShape, Job
    <3> QED BY <2>4, <3>2, <3>3 DEF Whole
  <2>10. job[i].pc \in {"build", "validate", "record"}
    BY <1>1
  <2> QED BY <1>1, <2>1, <2>2, <2>3, <2>9, <2>10, CandidateMoves
<1> QED BY <1>4, <1>5 DEF WriteRecord

\* The links move, or the job moves on past its environment: what must hold of
\* where they lead afterwards.
LEMMA LinkMoves ==
  ASSUME InstallInv, NEW i \in Installers, job[i].pc \in Candidate,
         NEW pc \in {"current link", "linked", "restore", "cleanup"}, NEW rollback \in Targets,
         job' = [job EXCEPT ![i] = [job[i] EXCEPT !.pc = pc, !.rollback = rollback]],
         NEW l \in [{"current", "previous"} -> Targets], links' = l,
         UNCHANGED <<environments, made, prefixLock>>, disturbed' \in BOOLEAN,
         Leads(l["current"]), Leads(l["previous"]), l["previous"] # job[i].env,
         rollback # job[i].env,
         pc = "current link" => Whole(job[i].env) /\ l["current"] # job[i].env,
         pc # "cleanup" => Leads(rollback),
         ~disturbed' =>
           /\ pc = "current link" => l["current"] = job[i].previous
           /\ pc # "cleanup" /\ rollback \in Ids => rollback # l["current"]
           /\ pc \in {"linked", "cleanup"} \/ (pc = "restore" /\ job[i].previous = NoLink) =>
                (l["previous"] \in Ids => l["previous"] # l["current"])
  PROVE  InstallInv'
<1> DEFINE n == [job[i] EXCEPT !.pc = pc, !.rollback = rollback]
<1>1. /\ job[i] \in Job /\ prefixLock = i /\ CandidateOK(i) /\ WayBack(i)
      /\ select_variant(job[i].manifest, job[i].variant)
      /\ \A j \in Installers \ {i} : job[j] = NoJob
      /\ InstallShape
  BY Active DEF InstallInv
<1>2. /\ n \in Job /\ n.pc = pc /\ n.manifest = job[i].manifest /\ n.variant = job[i].variant
      /\ n.env = job[i].env /\ n.previous = job[i].previous /\ n.rollback = rollback
  BY <1>1 DEF Job, Candidate, Unlinked
<1>3. job' = [job EXCEPT ![i] = n]
  OBVIOUS
<1> HIDE DEF n
<1>4. job'[i] = n
  BY <1>1, <1>3 DEF InstallShape
<1>5. \A x : Whole(x) => Whole(x)'
  BY DEF Whole
<1>6. \A x : Leads(x) => Leads(x)'
  BY <1>5 DEF Leads
<1>7. PICK env, previous : env = job[i].env /\ previous = job[i].previous
  OBVIOUS
<1>8. /\ job'[i].env = env /\ job'[i].previous = previous /\ job'[i].pc = pc
      /\ job'[i].rollback = rollback
      /\ job'[i].manifest = job[i].manifest /\ job'[i].variant = job[i].variant
  BY <1>2, <1>4, <1>7
<1>9. /\ env \in DOMAIN environments /\ previous # env /\ previous # UserFile /\ Leads(previous)
  BY <1>1, <1>7 DEF CandidateOK, WayBack
<1>10. LinksOK'
  BY <1>6 DEF LinksOK
<1>11. CandidateOK(i)'
  <2>1. pc = "current link" => Whole(env)' /\ l["current"] # env
    BY <1>5, <1>7
  <2>2. l["previous"] # env /\ rollback # env
    BY <1>7
  <2> QED BY <1>8, <1>9, <2>1, <2>2 DEF CandidateOK, Unlinked
<1>12. WayBack(i)'
  <2>1. Leads(previous)' /\ (pc # "cleanup" => Leads(rollback)')
    BY <1>6, <1>9
  <2>2. ~disturbed' =>
          /\ pc = "current link" => l["current"] = previous
          /\ pc # "cleanup" /\ rollback \in Ids => rollback # l["current"]
          /\ pc = "restore" /\ previous = NoLink /\ l["previous"] \in Ids =>
               l["previous"] # l["current"]
    BY <1>7
  <2> QED BY <1>8, <2>1, <2>2 DEF WayBack, Unlinked, Leads
<1>13. JobInv(i)'
  BY <1>1, <1>8, <1>11, <1>12 DEF JobInv
<1>14. Apart'
  BY <1>8 DEF Apart
<1>15. /\ DOMAIN environments' \subseteq 1 .. made' /\ made' \in 0 .. MaxEnvironments
       /\ links' \in [{"current", "previous"} -> Targets] /\ prefixLock' = i
       /\ \A x \in DOMAIN environments' : DOMAIN environments'[x] = Fields
  BY <1>1 DEF InstallShape
<1> QED BY <1>1, <1>2, <1>3, <1>10, <1>13, <1>14, <1>15, InstallMoves

\* activate_environment: `previous` first.
LEMMA LinkPreviousKeeps ==
  ASSUME InstallInv, NEW i \in Installers, LinkPrevious(i)
  PROVE  InstallInv'
<1> DEFINE rollback == IF links["previous"] = UserFile THEN NoLink ELSE links["previous"]
           l == IF job[i].previous = NoLink THEN links
                ELSE [links EXCEPT !["previous"] = job[i].previous]
<1>1. /\ job[i].pc = "rollback link" /\ links' = l /\ UNCHANGED <<environments, made, prefixLock>>
      /\ job' = [job EXCEPT ![i] = [job[i] EXCEPT !.pc = "current link", !.rollback = rollback]]
      /\ disturbed' = disturbed
  <2>1. job \in [Installers -> Job \cup {NoJob}]
    BY DEF InstallInv, InstallShape
  <2> QED BY <2>1 DEF LinkPrevious, Does
<1>2. /\ job[i] \in Job /\ CandidateOK(i) /\ WayBack(i) /\ InstallShape /\ LinksOK /\ Apart
      /\ \A j \in Installers \ {i} : job[j] = NoJob
  BY <1>1, Active DEF InstallInv, Candidate, Unlinked
<1>3. /\ links \in [{"current", "previous"} -> Targets] /\ disturbed \in BOOLEAN
      /\ job[i].previous \in Targets /\ job[i].env \in DOMAIN environments
      /\ DOMAIN environments \subseteq Ids /\ NoLink \notin Ids
  <2>1. DOMAIN environments \subseteq 1 .. made /\ made \in 0 .. MaxEnvironments
    BY <1>2 DEF InstallShape
  <2>2. DOMAIN environments \subseteq Ids
    BY <2>1, InstallerConstants DEF Ids
  <2>3. NoLink \notin Ids
    BY InstallerConstants DEF Ids
  <2> QED BY <1>2, <2>2, <2>3 DEF InstallShape, Job, CandidateOK
<1>4. rollback \in Targets /\ l \in [{"current", "previous"} -> Targets]
  BY <1>3 DEF Targets
<1>5. /\ l["current"] = links["current"]
      /\ l["previous"] \in {links["previous"], job[i].previous}
      /\ rollback \in {links["previous"], NoLink}
  BY <1>3
<1>6. Leads(NoLink)
  BY <1>3 DEF Leads
<1>7. Leads(l["current"]) /\ Leads(l["previous"]) /\ Leads(rollback)
  BY <1>2, <1>5, <1>6 DEF LinksOK, WayBack
<1>8. /\ l["previous"] # job[i].env /\ rollback # job[i].env /\ Whole(job[i].env)
      /\ l["current"] # job[i].env
  BY <1>1, <1>2, <1>3, <1>5 DEF CandidateOK, Unlinked
<1>9. ~disturbed => l["current"] = job[i].previous
  BY <1>1, <1>2, <1>5 DEF WayBack, Unlinked
<1>10. \A j \in Installers : job[j].pc \notin {"current link", "restore"}
  <2>1. NoJob.pc = "idle"
    BY DEF NoJob
  <2> QED BY <1>1, <1>2, <2>1
<1>11. ~disturbed /\ rollback \in Ids => rollback # l["current"]
  <2>1. rollback \in Ids => rollback = links["previous"]
    BY <1>3, <1>5
  <2>2. links["previous"] \in Ids /\ links["current"] = links["previous"] => links["current"] \in Ids
    OBVIOUS
  <2> QED BY <1>2, <1>5, <1>10, <2>1, <2>2 DEF Apart
<1> HIDE DEF l, rollback
<1>12. job[i].pc \in Candidate /\ disturbed' \in BOOLEAN
  BY <1>1, <1>3 DEF Candidate, Unlinked
<1> QED BY <1>1, <1>4, <1>7, <1>8, <1>9, <1>11, <1>12, LinkMoves

\* ... then `current`.
LEMMA LinkCurrentKeeps ==
  ASSUME InstallInv, NEW i \in Installers, LinkCurrent(i)
  PROVE  InstallInv'
<1> DEFINE l == [links EXCEPT !["current"] = job[i].env]
<1>1. /\ job[i].pc = "current link" /\ links' = l /\ UNCHANGED <<environments, made, prefixLock>>
      /\ job' = [job EXCEPT ![i].pc = "linked"] /\ disturbed' = disturbed
  BY DEF LinkCurrent, Does, Goes
<1>2. /\ job[i] \in Job /\ CandidateOK(i) /\ WayBack(i) /\ InstallShape /\ LinksOK
  BY <1>1, Active DEF InstallInv, Candidate, Unlinked
<1>3. /\ job' = [job EXCEPT ![i] = [job[i] EXCEPT !.pc = "linked", !.rollback = job[i].rollback]]
      /\ job[i].rollback \in Targets /\ disturbed' \in BOOLEAN
      /\ job[i].env \in Targets /\ links \in [{"current", "previous"} -> Targets]
  BY <1>1, <1>2 DEF InstallShape, Job, Targets
<1>4. /\ l \in [{"current", "previous"} -> Targets] /\ l["current"] = job[i].env
      /\ l["previous"] = links["previous"]
  BY <1>3
<1>5. /\ Whole(job[i].env) /\ l["previous"] # job[i].env /\ job[i].rollback # job[i].env
      /\ Leads(job[i].rollback) /\ Leads(links["previous"])
  BY <1>1, <1>2, <1>4 DEF CandidateOK, WayBack, LinksOK
<1>6. Leads(l["current"]) /\ Leads(l["previous"])
  BY <1>4, <1>5 DEF Leads
<1> HIDE DEF l
<1>7. job[i].pc \in Candidate
  BY <1>1 DEF Candidate, Unlinked
<1> QED BY <1>1, <1>3, <1>4, <1>5, <1>6, <1>7, LinkMoves

\* Only the job moves: an exception or a signal in the activation.
LEMMA ActivationFails ==
  ASSUME InstallInv, NEW i \in Installers, job[i].pc \in Candidate,
         NEW pc \in {"restore", "cleanup"}, job' = [job EXCEPT ![i].pc = pc],
         UNCHANGED <<links, environments, made, prefixLock>>,
         disturbed' \in BOOLEAN, disturbed => disturbed',
         pc = "restore" => job[i].pc \in {"current link", "linked"},
         pc = "cleanup" => disturbed' \/ job[i].pc \notin {"current link", "restore"}
  PROVE  InstallInv'
<1>1. /\ job[i] \in Job /\ CandidateOK(i) /\ WayBack(i) /\ InstallShape /\ LinksOK /\ Apart
      /\ \A j \in Installers \ {i} : job[j] = NoJob
  BY Active DEF InstallInv
<1>2. /\ job' = [job EXCEPT ![i] = [job[i] EXCEPT !.pc = pc, !.rollback = job[i].rollback]]
      /\ job[i].rollback \in Targets /\ links \in [{"current", "previous"} -> Targets]
      /\ NoLink \notin Ids
  BY <1>1, InstallerConstants DEF InstallShape, Job, Ids
<1>3. /\ links["previous"] # job[i].env /\ job[i].rollback # job[i].env
      /\ pc # "cleanup" => Leads(job[i].rollback)
      /\ Leads(links["previous"]) /\ Leads(links["current"])
  BY <1>1 DEF CandidateOK, WayBack, LinksOK
<1>4. ~disturbed' /\ job[i].pc \notin {"current link", "restore"} /\ links["previous"] \in Ids
        => links["previous"] # links["current"]
  <2>1. NoJob.pc = "idle"
    BY DEF NoJob
  <2> QED BY <1>1, <2>1 DEF Apart
<1>5. ~disturbed' /\ job[i].pc = "current link" =>
        /\ links["current"] = job[i].previous
        /\ job[i].rollback \in Ids => job[i].rollback # links["current"]
  BY <1>1 DEF WayBack, Unlinked
<1>6. ~disturbed' /\ job[i].pc = "linked" /\ job[i].rollback \in Ids =>
        job[i].rollback # links["current"]
  BY <1>1 DEF WayBack
<1>7. ~disturbed' =>
        /\ pc # "cleanup" /\ job[i].rollback \in Ids => job[i].rollback # links["current"]
        /\ pc = "cleanup" \/ (pc = "restore" /\ job[i].previous = NoLink) =>
             (links["previous"] \in Ids => links["previous"] # links["current"])
  <2>1. CASE pc = "restore"
    <3>1. job[i].pc \in {"current link", "linked"}
      BY <2>1
    <3> QED BY <1>2, <1>4, <1>5, <1>6, <2>1, <3>1
  <2>2. CASE pc = "cleanup"
    BY <1>4, <2>2
  <2> QED BY <2>1, <2>2
<1>8. PICK l, rollback : l = links /\ rollback = job[i].rollback
  OBVIOUS
<1>9. /\ Leads(l["current"]) /\ Leads(l["previous"]) /\ l["previous"] # job[i].env
      /\ rollback # job[i].env /\ (pc # "cleanup" => Leads(rollback))
      /\ rollback \in Targets /\ l \in [{"current", "previous"} -> Targets] /\ links' = l
      /\ job' = [job EXCEPT ![i] = [job[i] EXCEPT !.pc = pc, !.rollback = rollback]]
  BY <1>2, <1>3, <1>8
<1>10. pc # "current link" /\ pc # "linked" /\ pc \in {"current link", "linked", "restore", "cleanup"}
  OBVIOUS
<1>11. ~disturbed' =>
         /\ pc = "current link" => l["current"] = job[i].previous
         /\ pc # "cleanup" /\ rollback \in Ids => rollback # l["current"]
         /\ pc \in {"linked", "cleanup"} \/ (pc = "restore" /\ job[i].previous = NoLink) =>
              (l["previous"] \in Ids => l["previous"] # l["current"])
  BY <1>7, <1>8, <1>10
<1>12. pc = "current link" => Whole(job[i].env) /\ l["current"] # job[i].env
  BY <1>10
<1>13. UNCHANGED <<environments, made, prefixLock>> /\ disturbed' \in BOOLEAN
  OBVIOUS
<1>14. InstallInv /\ job[i].pc \in Candidate
  OBVIOUS
<1> QED BY ONLY <1>8, <1>9, <1>10, <1>11, <1>12, <1>13, <1>14, LinkMoves

\* The rollback link is put back.
LEMMA RestoreKeeps ==
  ASSUME InstallInv, NEW i \in Installers, Restore(i)
  PROVE  InstallInv'
<1> DEFINE l == IF job[i].previous = NoLink THEN links
                ELSE [links EXCEPT !["previous"] = job[i].rollback]
<1>1. /\ job[i].pc = "restore" /\ links' = l /\ UNCHANGED <<environments, made, prefixLock>>
      /\ job' = [job EXCEPT ![i].pc = "cleanup"] /\ disturbed' = disturbed
  BY DEF Restore, Does, Goes
<1>2. /\ job[i] \in Job /\ CandidateOK(i) /\ WayBack(i) /\ InstallShape /\ LinksOK
  BY <1>1, Active DEF InstallInv, Candidate, Unlinked
<1>3. /\ job' = [job EXCEPT ![i] = [job[i] EXCEPT !.pc = "cleanup", !.rollback = job[i].rollback]]
      /\ job[i].rollback \in Targets /\ disturbed' \in BOOLEAN
      /\ links \in [{"current", "previous"} -> Targets]
  BY <1>1, <1>2 DEF InstallShape, Job
<1>4. /\ l \in [{"current", "previous"} -> Targets] /\ l["current"] = links["current"]
      /\ l["previous"] = IF job[i].previous = NoLink THEN links["previous"] ELSE job[i].rollback
  BY <1>3
<1>5. /\ l["previous"] # job[i].env /\ job[i].rollback # job[i].env
      /\ Leads(l["current"]) /\ Leads(l["previous"])
  BY <1>1, <1>2, <1>4 DEF CandidateOK, WayBack, LinksOK
<1>6. ~disturbed' => (l["previous"] \in Ids => l["previous"] # l["current"])
  BY <1>1, <1>2, <1>4 DEF WayBack
<1> HIDE DEF l
<1>7. job[i].pc \in Candidate
  BY <1>1 DEF Candidate, Unlinked
<1> QED BY <1>1, <1>3, <1>4, <1>5, <1>6, <1>7, LinkMoves

\* The call ends where it is: it is done, refused or killed.
LEMMA EndsKeeps ==
  ASSUME InstallInv, NEW i \in Installers, job[i].pc # "idle", Ends(i),
         UNCHANGED <<links, environments, made>>, disturbed' \in BOOLEAN, disturbed => disturbed',
         job[i].pc \in {"current link", "restore"} => disturbed'
  PROVE  InstallInv'
<1>1. \A x : Leads(x) => Leads(x)'
  BY DEF Leads, Whole
<1>2. LinksOK'
  BY <1>1 DEF InstallInv, LinksOK
<1>3. /\ DOMAIN environments' \subseteq DOMAIN environments
      /\ \A e \in DOMAIN environments' : environments'[e] = environments[e]
  OBVIOUS
<1> QED BY <1>2, <1>3, InstallEnds

\* inspect: the active release is kept, or a new directory is made for another.
LEMMA InspectKeeps ==
  ASSUME InstallInv, NEW i \in Installers, Inspect(i)
  PROVE  InstallInv'
<1> DEFINE previous == links["current"]
<1>1. /\ job[i].pc = "inspect" /\ disturbed' = disturbed
      /\ \/ /\ managed_current /\ made < MaxEnvironments /\ made' = made + 1
            /\ environments' = [e \in DOMAIN environments \cup {made'} |->
                 IF e = made' THEN EmptyDirectory ELSE environments[e]]
            /\ job' = [job EXCEPT ![i] = [@ EXCEPT !.pc = "build", !.env = made',
                                                   !.previous = previous]]
            /\ UNCHANGED <<links, prefixLock>>
         \/ Ends(i) /\ UNCHANGED <<links, environments, made>>
  BY DEF Inspect, Does
<1>2. /\ job[i] \in Job /\ prefixLock = i /\ JobInv(i) /\ InstallShape /\ LinksOK /\ Apart
      /\ \A j \in Installers \ {i} : job[j] = NoJob
  BY <1>1, Alone DEF InstallInv
<1>3. /\ links \in [{"current", "previous"} -> Targets] /\ made \in 0 .. MaxEnvironments
      /\ DOMAIN environments \subseteq 1 .. made /\ disturbed \in BOOLEAN
      /\ job \in [Installers -> Job \cup {NoJob}]
      /\ \A e \in DOMAIN environments : DOMAIN environments[e] = Fields
  BY <1>2 DEF InstallShape
<1>4. CASE Ends(i) /\ UNCHANGED <<links, environments, made>>
  <2>1. job[i].pc = "inspect" /\ disturbed' = disturbed /\ disturbed' \in BOOLEAN
    BY <1>1, <1>3
  <2> QED BY <1>4, <2>1, EndsKeeps
<1>5. CASE /\ managed_current /\ made < MaxEnvironments /\ made' = made + 1
           /\ environments' = [e \in DOMAIN environments \cup {made'} |->
                IF e = made' THEN EmptyDirectory ELSE environments[e]]
           /\ job' = [job EXCEPT ![i] = [@ EXCEPT !.pc = "build", !.env = made',
                                                  !.previous = previous]]
           /\ UNCHANGED <<links, prefixLock>>
  <2>1. PICK e : e = made'
    OBVIOUS
  <2> DEFINE n == [job[i] EXCEPT !.pc = "build", !.env = e, !.previous = previous]
  <2>2. /\ e \in Ids /\ e = made + 1 /\ made' = e /\ e \in 0 .. MaxEnvironments
        /\ e \notin DOMAIN environments
    BY <1>3, <1>5, <2>1, InstallerConstants DEF Ids
  <2>3. /\ n \in Job /\ n.pc = "build" /\ n.manifest = job[i].manifest
        /\ n.variant = job[i].variant /\ n.env = e /\ n.previous = previous
        /\ n.rollback = job[i].rollback
    BY <1>2, <1>3, <2>2 DEF Job, Candidate, Unlinked, Targets
  <2>4. job' = [job EXCEPT ![i] = n]
    BY <1>3, <1>5, <2>1
  <2> HIDE DEF n
  <2>5. job'[i] = n /\ \A j \in Installers \ {i} : job'[j] = job[j]
    BY <1>3, <2>4
  <2>6. /\ environments' = [x \in DOMAIN environments \cup {e} |->
             IF x = e THEN EmptyDirectory ELSE environments[x]]
        /\ DOMAIN environments' = DOMAIN environments \cup {e}
        /\ \A x \in DOMAIN environments : environments'[x] = environments[x]
    BY <1>5, <2>1, <2>2
  <2>7. \A x : Leads(x) => Leads(x)'
    BY <2>6, WholeStays DEF Leads, Whole
  <2>8. LinksOK'
    BY <1>2, <1>5, <2>7 DEF LinksOK
  <2>9. links["current"] # e /\ links["previous"] # e
    <3>1. \A x : Leads(x) /\ x \in Ids => x \in DOMAIN environments
      BY DEF Leads, Whole
    <3> QED BY <1>2, <2>2, <3>1 DEF LinksOK
  <2>10. previous # UserFile
    <3>1. previous \in {NoLink} \cup DOMAIN environments
      BY <1>5 DEF managed_current
    <3>2. DOMAIN environments \subseteq 1 .. MaxEnvironments
      BY <1>3, InstallerConstants
    <3> QED BY <3>1, <3>2, InstallerConstants
  <2>11. CandidateOK(i)'
    <3>1. job[i].rollback # e
      <4>1. job[i] # NoJob
        <5>1. NoJob.pc = "idle"
          BY DEF NoJob
        <5> QED BY <1>1, <5>1
      <4>2. job[i].rollback = NoLink
        BY <1>1, <1>2, <4>1 DEF JobInv
      <4> QED BY <2>2, <4>2, InstallerConstants DEF Ids
    <3> QED BY <1>5, <2>3, <2>5, <2>6, <2>9, <2>10, <3>1 DEF CandidateOK, Unlinked
  <2>12. WayBack(i)'
    <3>1. PICK p : p = previous
      OBVIOUS
    <3>2. Leads(p)' /\ job'[i].previous = p /\ job'[i].pc = "build" /\ links'["current"] = p
      BY <1>2, <1>5, <2>3, <2>5, <2>7, <3>1 DEF LinksOK
    <3> QED BY <3>2 DEF WayBack, Leads
  <2>13. JobInv(i)'
    <3>1. job[i] # NoJob
      <4>1. NoJob.pc = "idle"
        BY DEF NoJob
      <4> QED BY <1>1, <4>1
    <3> QED BY <1>2, <2>3, <2>5, <2>11, <2>12, <3>1 DEF JobInv
  <2>14. Apart'
    <3>1. (\A j \in Installers : job'[j].pc \notin {"current link", "restore"})
          => \A j \in Installers : job[j].pc \notin {"current link", "restore"}
      BY <1>1, <2>5
    <3>2. links' = links /\ disturbed' = disturbed
      BY <1>1, <1>5
    <3> QED BY <1>2, <3>1, <3>2 DEF Apart
  <2>15. /\ DOMAIN environments' \subseteq 1 .. made' /\ made' \in 0 .. MaxEnvironments
         /\ disturbed' \in BOOLEAN /\ links' \in [{"current", "previous"} -> Targets]
         /\ \A x \in DOMAIN environments' : DOMAIN environments'[x] = Fields
    <3>1. DOMAIN EmptyDirectory = Fields
      BY DEF EmptyDirectory, Fields
    <3> QED BY <1>1, <1>3, <1>5, <2>2, <2>6, <3>1
  <2> QED BY <1>2, <1>5, <2>3, <2>4, <2>8, <2>13, <2>14, <2>15, InstallMoves
<1> QED BY <1>1, <1>4, <1>5

\* The candidate goes, unless it became the active release.
LEMMA CleanupKeeps ==
  ASSUME InstallInv, NEW i \in Installers, Cleanup(i)
  PROVE  InstallInv'
<1> DEFINE e == job[i].env
<1>1. /\ job[i].pc = "cleanup" /\ disturbed' = disturbed /\ Ends(i) /\ UNCHANGED <<links, made>>
      /\ environments' = IF links["current"] = e THEN environments ELSE Removed(e)
  BY DEF Cleanup, Does
<1>2. CandidateOK(i) /\ InstallShape /\ LinksOK /\ links["previous"] # e
  BY <1>1, Active DEF InstallInv, CandidateOK, Candidate
<1>3. /\ DOMAIN environments' \subseteq DOMAIN environments
      /\ \A x \in DOMAIN environments' : environments'[x] = environments[x]
      /\ links["current"] # e => DOMAIN environments' = DOMAIN environments \ {e}
      /\ links["current"] = e => environments' = environments
  BY <1>1 DEF Removed
<1>4. \A x : Leads(x) /\ x \in DOMAIN environments' => Leads(x)'
  BY <1>3, WholeStays DEF Leads, Whole
<1>5. \A name \in {"current", "previous"} : links[name] \in Ids => links[name] \in DOMAIN environments'
  <2>1. \A x : Leads(x) /\ x \in Ids => x \in DOMAIN environments
    BY DEF Leads, Whole
  <2> QED BY <1>2, <1>3, <2>1 DEF LinksOK
<1>6. PICK c, p : c = links["current"] /\ p = links["previous"]
  OBVIOUS
<1>7. LinksOK' /\ disturbed' \in BOOLEAN
  <2>1. \A x \in {c, p} : Leads(x) /\ (x \in Ids => x \in DOMAIN environments')
    BY <1>2, <1>5, <1>6 DEF LinksOK
  <2>2. Leads(c)' /\ Leads(p)'
    BY <1>4, <2>1 DEF Leads
  <2>3. links'["current"] = c /\ links'["previous"] = p
    BY <1>1, <1>6
  <2> QED BY <1>1, <1>2, <2>2, <2>3 DEF LinksOK, Leads, InstallShape
<1> QED BY <1>1, <1>3, <1>7, InstallEnds

\* An exception: the call ends, or its candidate is cleaned up.
LEMMA RaiseKeeps ==
  ASSUME InstallInv, NEW i \in Installers, Raise(i)
  PROVE  InstallInv'
<1>1. UNCHANGED <<links, environments, made, disturbed>> /\ disturbed \in BOOLEAN
  BY DEF Raise, InstallInv, InstallShape
<1>2. CASE job[i].pc = "inspect" /\ Ends(i)
  BY <1>1, <1>2, EndsKeeps
<1>3. CASE /\ job[i].pc \in {"build", "validate", "record", "rollback link"}
           /\ Goes(i, "cleanup") /\ UNCHANGED prefixLock
  <2>1. job[i].pc \in Candidate /\ job[i].pc \notin {"current link", "restore"}
    BY <1>3 DEF Candidate, Unlinked
  <2>2. job' = [job EXCEPT ![i].pc = "cleanup"]
    BY <1>3 DEF Goes
  <2> QED BY <1>1, <1>3, <2>1, <2>2, ActivationFails
<1>4. CASE job[i].pc = "current link" /\ Goes(i, "restore") /\ UNCHANGED prefixLock
  <2>1. job[i].pc \in Candidate
    BY <1>4 DEF Candidate, Unlinked
  <2>2. job' = [job EXCEPT ![i].pc = "restore"]
    BY <1>4 DEF Goes
  <2> QED BY <1>1, <1>4, <2>1, <2>2, ActivationFails
<1> QED BY <1>2, <1>3, <1>4 DEF Raise

\* A signal just after one of the renames.
LEMMA InterruptKeeps ==
  ASSUME InstallInv, NEW i \in Installers, Interrupt(i)
  PROVE  InstallInv'
<1>1. UNCHANGED <<links, environments, made, prefixLock>> /\ disturbed \in BOOLEAN
  BY DEF Interrupt, InstallInv, InstallShape
<1>2. CASE job[i].pc = "linked" /\ Goes(i, "restore") /\ UNCHANGED disturbed
  <2>1. job[i].pc \in Candidate
    BY <1>2 DEF Candidate
  <2>2. job' = [job EXCEPT ![i].pc = "restore"]
    BY <1>2 DEF Goes
  <2> QED BY <1>1, <1>2, <2>1, <2>2, ActivationFails
<1>3. CASE job[i].pc = "current link" /\ Goes(i, "cleanup") /\ disturbed' = TRUE
  <2>1. job[i].pc \in Candidate
    BY <1>3 DEF Candidate, Unlinked
  <2>2. job' = [job EXCEPT ![i].pc = "cleanup"]
    BY <1>3 DEF Goes
  <2> QED BY <1>1, <1>3, <2>1, <2>2, ActivationFails
<1> QED BY <1>2, <1>3 DEF Interrupt

\* `current` follows `previous`: no job's candidate is there.
LEMMA RollBackKeeps == InstallInv /\ RollBackByHand => InstallInv'
<1> SUFFICES ASSUME InstallInv, RollBackByHand PROVE InstallInv'
  OBVIOUS
<1>1. /\ links' = [links EXCEPT !["current"] = links["previous"]] /\ disturbed' = TRUE
      /\ UNCHANGED <<environments, made, prefixLock, job>>
      /\ InstallShape /\ LinksOK /\ PrefixLockOK
  BY DEF RollBackByHand, InstallInv
<1>2. /\ links' \in [{"current", "previous"} -> Targets]
      /\ links'["current"] = links["previous"] /\ links'["previous"] = links["previous"]
  BY <1>1 DEF InstallShape
<1>3. \A x : Whole(x) => Whole(x)'
  BY <1>1 DEF Whole
<1>4. \A x : Leads(x) => Leads(x)'
  BY <1>3 DEF Leads
<1>5. LinksOK' /\ Apart' /\ PrefixLockOK' /\ InstallShape'
  <2>1. LinksOK'
    <3>1. PICK p : p = links["previous"]
      OBVIOUS
    <3>2. Leads(p)'
      BY <1>1, <1>4, <3>1 DEF LinksOK
    <3>3. links'["current"] = p /\ links'["previous"] = p
      BY <1>2, <3>1
    <3> QED BY <3>2, <3>3 DEF LinksOK, Leads
  <2> QED BY <1>1, <1>2, <2>1 DEF Apart, PrefixLockOK, InstallShape
<1>6. ASSUME NEW j \in Installers, job[j] # NoJob, job[j].pc # "inspect"
      PROVE  CandidateOK(j)' /\ WayBack(j)'
  <2>1. CandidateOK(j) /\ WayBack(j)
    BY <1>6 DEF InstallInv, JobInv
  <2>2. Asset(j, "wheel")' = Asset(j, "wheel")
    BY <1>1 DEF Asset
  <2>3. CandidateOK(j)'
    BY <1>1, <1>2, <1>3, <2>1, <2>2 DEF CandidateOK
  <2>4. WayBack(j)'
    BY <1>1, <1>4, <2>1 DEF WayBack, Leads
  <2> QED BY <2>3, <2>4
<1>7. \A j \in Installers : JobInv(j)'
  BY <1>1, <1>6 DEF InstallInv, JobInv
<1> QED BY <1>5, <1>7 DEF InstallInv

\* Every step keeps the invariant.
LEMMA InstallStep == InstallInv /\ [InstallerNext]_installVars => InstallInv'
<1> SUFFICES ASSUME InstallInv, [InstallerNext]_installVars PROVE InstallInv'
  OBVIOUS
<1>1. ASSUME NEW i \in Installers, NEW m \in Manifests, NEW v \in Variants, NEW u \in BOOLEAN,
             Install(i, m, v, u)
      PROVE  InstallInv'
  BY <1>1, InstallBegins
<1>2. ASSUME NEW i \in Installers,
             \/ Inspect(i) \/ InstallEnvironment(i) \/ ValidateEnvironment(i) \/ WriteRecord(i)
             \/ LinkPrevious(i) \/ LinkCurrent(i) \/ Raise(i) \/ Interrupt(i)
             \/ Restore(i) \/ Cleanup(i)
      PROVE  InstallInv'
  BY <1>2, InspectKeeps, InstallEnvironmentKeeps, ValidateKeeps, RecordKeeps, LinkPreviousKeeps,
     LinkCurrentKeeps, RaiseKeeps, InterruptKeeps, RestoreKeeps, CleanupKeeps
<1>3. ASSUME NEW i \in Installers, Activated(i) \/ Kill(i) PROVE InstallInv'
  <2>1. disturbed \in BOOLEAN
    BY DEF InstallInv, InstallShape
  <2>2. CASE Activated(i)
    <3>1. /\ job[i].pc = "linked" /\ Ends(i) /\ UNCHANGED <<links, environments, made>>
          /\ disturbed' = disturbed
      BY <2>2 DEF Activated, Does
    <3> QED BY <2>1, <3>1, EndsKeeps
  <2>3. CASE Kill(i)
    <3>1. /\ job[i].pc # "idle" /\ Ends(i) /\ UNCHANGED <<links, environments, made>>
          /\ disturbed' = TRUE
      BY <2>3 DEF Kill
    <3> QED BY <3>1, EndsKeeps
  <2> QED BY <1>3, <2>2, <2>3
<1>4. CASE RollBackByHand
  BY <1>4, RollBackKeeps
<1>5. CASE UNCHANGED installVars
  <2>1. UNCHANGED <<links, environments, made, prefixLock, job, disturbed>>
    BY <1>5 DEF installVars
  <2>2. \A x : Leads(x)' = Leads(x) /\ Whole(x)' = Whole(x)
    BY <2>1 DEF Leads, Whole
  <2>3. InstallShape' /\ PrefixLockOK' /\ LinksOK' /\ Apart'
    BY <2>1, <2>2 DEF InstallInv, InstallShape, PrefixLockOK, LinksOK, Apart, Leads
  <2>4. ASSUME NEW j \in Installers PROVE JobInv(j)'
    <3>1. JobInv(j) /\ Asset(j, "wheel")' = Asset(j, "wheel")
      BY <2>1 DEF InstallInv, Asset
    <3>2. CandidateOK(j) => CandidateOK(j)'
      BY <2>1, <2>2, <3>1 DEF CandidateOK
    <3>3. WayBack(j) => WayBack(j)'
      BY <2>1, <2>2 DEF WayBack, Leads
    <3> QED BY <2>1, <3>1, <3>2, <3>3 DEF JobInv
  <2> QED BY <2>3, <2>4 DEF InstallInv
<1> QED BY <1>1, <1>2, <1>3, <1>4, <1>5 DEF InstallerNext

\* A prefix starts without environments of ours.
LEMMA InstallerStarts == InstallerInit => InstallInv
<1> SUFFICES ASSUME InstallerInit PROVE InstallInv
  OBVIOUS
<1>1. \A i \in Installers : job[i] = NoJob
  BY DEF InstallerInit
<1>2. links \in [{"current", "previous"} -> Targets] /\ \A name \in DOMAIN links : links[name] \notin Ids
  BY InstallerConstants DEF InstallerInit, Targets, Ids
<1>3. InstallShape
  <2>1. made = 0 /\ 0 \in 0 .. MaxEnvironments /\ disturbed \in BOOLEAN
    <3>1. 0 \in 0 .. MaxEnvironments
      BY InstallerConstants
    <3> QED BY <3>1 DEF InstallerInit
  <2>2. DOMAIN environments = {}
    BY DEF InstallerInit
  <2>3. job \in [Installers -> Job \cup {NoJob}]
    BY DEF InstallerInit
  <2> QED BY <1>2, <2>1, <2>2, <2>3 DEF InstallShape
<1>4. LinksOK /\ Apart
  BY <1>2 DEF LinksOK, Leads, Apart
<1> QED BY <1>1, <1>3, <1>4 DEF InstallInv, PrefixLockOK, JobInv

\* The invariant holds in every state, for every number of installers, every
\* set of manifests and every number of environments.
THEOREM InstallerInvariant == InstallerSpec => []InstallInv
BY InstallerStarts, InstallStep, PTL DEF InstallerSpec

\* No link ever leads to a release that is half built, half recorded, not
\* validated or removed, and a failed upgrade leaves two releases (install,
\* activate_environment).
THEOREM ReleaseStaysWhole == InstallerSpec => []ActiveReleaseWhole
<1>1. InstallInv => ActiveReleaseWhole
  <2> SUFFICES ASSUME InstallInv PROVE ActiveReleaseWhole
    OBVIOUS
  <2>1. DOMAIN links = {"current", "previous"}
    BY DEF InstallInv, InstallShape
  <2> QED BY <2>1 DEF InstallInv, LinksOK, Leads, Apart, ActiveReleaseWhole
<1> QED BY <1>1, InstallerInvariant, PTL
=============================================================================
