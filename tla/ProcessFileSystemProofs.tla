------------------------ MODULE ProcessFileSystemProofs ------------------------
(* Proofs about ProcessFileSystem, for any set of objects, paths and callers     *)
(* and for callers of any discipline.  A program is any of these, with whatever  *)
(* calls but an open on a FileHandle that is in use.                             *)
EXTENDS ProcessFileSystem, FiniteSetTheorems, SequenceTheorems, TLAPS

------------------------------------------------------------------------------
(* Keys and their prefixes *)

\* What a prefix of a sequence of names holds.
LEMMA PrefixProperties ==
  ASSUME NEW s \in Seq(Names), NEW n \in 0..Len(s)
  PROVE  /\ SubSeq(s, 1, n) \in Seq(Names)
         /\ Len(SubSeq(s, 1, n)) = n
         /\ \A i \in 1..n : SubSeq(s, 1, n)[i] = s[i]
<1>1. Len(s) \in Nat /\ \A i \in 1..n : s[i] \in Names
  BY ElementOfSeq, LenProperties
<1> QED
  BY <1>1, SubSeqProperties

\* A prefix of a prefix is a prefix of the whole.
LEMMA PrefixOfPrefix ==
  ASSUME NEW s \in Seq(Names), NEW n \in 0..Len(s), NEW m \in 0..n
  PROVE  SubSeq(SubSeq(s, 1, n), 1, m) = SubSeq(s, 1, m)
<1> DEFINE t == SubSeq(s, 1, n)
<1>1. Len(s) \in Nat /\ m \in 0..Len(s)
  BY LenProperties
<1>2. t \in Seq(Names) /\ Len(t) = n /\ \A i \in 1..n : t[i] = s[i]
  BY PrefixProperties
<1>3. /\ SubSeq(t, 1, m) \in Seq(Names)
      /\ Len(SubSeq(t, 1, m)) = m
      /\ \A i \in 1..m : SubSeq(t, 1, m)[i] = t[i]
  BY <1>2, PrefixProperties
<1>4. /\ SubSeq(s, 1, m) \in Seq(Names)
      /\ Len(SubSeq(s, 1, m)) = m
      /\ \A i \in 1..m : SubSeq(s, 1, m)[i] = s[i]
  BY <1>1, PrefixProperties
<1>5. \A i \in 1..Len(SubSeq(t, 1, m)) : SubSeq(t, 1, m)[i] = SubSeq(s, 1, m)[i]
  BY <1>1, <1>2, <1>3, <1>4
<1> QED
  BY <1>3, <1>4, <1>5, SeqEqual

\* The key of a path is a sequence of names.
LEMMA EntryKeyType ==
  ASSUME NEW p \in Paths
  PROVE  EntryKey(p) \in Seq(Names)
<1>1. p \in Seq(Names)
  BY PathsAssumption
<1>2. CASE p = <<>>
  BY <1>2, EmptySeq DEF EntryKey
<1>3. CASE p # <<>>
  BY <1>1, <1>3, HeadTailProperties DEF EntryKey
<1> QED
  BY <1>2, <1>3

\* Keys are sequences of names, closed under prefixes, and hold the root and the key of
\* every path.
LEMMA KeysProperties ==
  /\ Keys \subseteq Seq(Names)
  /\ \A k \in Keys : Len(k) \in Nat /\ Prefixes(k) \subseteq Keys
  /\ \A p \in Paths : EntryKey(p) \in Keys
<1>0. Root \in Seq(Names) /\ Len(Root) \in Nat /\ Prefixes(Root) \subseteq Keys
  <2>1. Root \in Seq(Names) /\ Len(Root) = 0
    BY EmptySeq DEF Root
  <2>2. \A n \in 0..Len(Root) : SubSeq(Root, 1, n) = Root
    BY <2>1, SubSeqEmpty DEF Root
  <2> QED
    BY <2>1, <2>2 DEF Prefixes, Keys
<1>1. ASSUME NEW k \in Keys, k # Root
      PROVE  /\ k \in Seq(Names)
             /\ Len(k) \in Nat
             /\ Prefixes(k) \subseteq Keys
  <2>0. PICK p \in Paths : k \in Prefixes(EntryKey(p))
    BY <1>1 DEF Keys
  <2>1. PICK n \in 0..Len(EntryKey(p)) : k = SubSeq(EntryKey(p), 1, n)
    BY <2>0 DEF Prefixes
  <2> DEFINE s == EntryKey(p)
  <2>2. s \in Seq(Names) /\ Len(s) \in Nat
    BY EntryKeyType, LenProperties
  <2> HIDE DEF s
  <2>3. k \in Seq(Names) /\ Len(k) = n
    BY <2>1, <2>2, PrefixProperties DEF s
  <2>4. ASSUME NEW m \in 0..Len(k)
        PROVE  SubSeq(k, 1, m) \in Keys
    <3>1. SubSeq(k, 1, m) = SubSeq(s, 1, m)
      BY <2>1, <2>2, <2>3, PrefixOfPrefix DEF s
    <3>2. m \in 0..Len(s)
      BY <2>1, <2>2, <2>3 DEF s
    <3> QED
      BY <3>1, <3>2 DEF Keys, Prefixes, s
  <2>5. Len(k) \in Nat
    BY <2>3, LenProperties
  <2> QED
    BY <2>3, <2>4, <2>5 DEF Prefixes
<1>2. ASSUME NEW p \in Paths
      PROVE  EntryKey(p) \in Keys
  <2> DEFINE s == EntryKey(p)
  <2>1. s \in Seq(Names) /\ Len(s) \in Nat
    BY EntryKeyType, LenProperties
  <2> HIDE DEF s
  <2>2. s = SubSeq(s, 1, Len(s)) /\ Len(s) \in 0..Len(s)
    BY <2>1, SubSeqFull, SMTT(40)
  <2>3. s \in Prefixes(s)
    BY <2>2 DEF Prefixes
  <2> QED
    BY <2>3 DEF Keys, s
<1> QED
  BY <1>0, <1>1, <1>2

\* The only key of length 0 is the root.
LEMMA RootLength == \A k \in Keys : k = Root <=> Len(k) = 0
<1> SUFFICES ASSUME NEW k \in Keys
             PROVE  k = Root <=> Len(k) = 0
  OBVIOUS
<1>1. k \in Seq(Names)
  BY KeysProperties
<1> QED
  BY <1>1, EmptySeq DEF Root

\* The parent of a key is the key one shorter; a key is its parent and its name.
LEMMA ParentProperties ==
  ASSUME NEW k \in Keys, k # Root
  PROVE  /\ ParentKey(k) \in Keys
         /\ ParentKey(k) # k
         /\ Len(ParentKey(k)) = Len(k) - 1
         /\ \A i \in 1..(Len(k) - 1) : ParentKey(k)[i] = k[i]
         /\ NameOf(k) \in Names
<1>1. k \in Seq(Names) /\ Len(k) \in Nat \ {0}
  BY KeysProperties, RootLength
<1>2. Len(k) - 1 \in 0..Len(k)
  BY <1>1
<1>3. ParentKey(k) \in Prefixes(k)
  BY <1>2 DEF ParentKey, Prefixes
<1>4. ParentKey(k) \in Keys
  BY <1>3, KeysProperties
<1>5. Len(ParentKey(k)) = Len(k) - 1 /\ \A i \in 1..(Len(k) - 1) : ParentKey(k)[i] = k[i]
  BY <1>1, <1>2, PrefixProperties DEF ParentKey
<1>6. NameOf(k) \in Names
  BY <1>1, ElementOfSeq DEF NameOf
<1> QED
  BY <1>1, <1>4, <1>5, <1>6

\* Two keys with the same parent and the same name are one key.
LEMMA ParentAndNameDetermine ==
  ASSUME NEW k \in Keys, NEW q \in Keys, k # Root, q # Root,
         ParentKey(k) = ParentKey(q), NameOf(k) = NameOf(q)
  PROVE  k = q
<1>1. k \in Seq(Names) /\ Len(k) \in Nat \ {0} /\ q \in Seq(Names) /\ Len(q) \in Nat \ {0}
  BY KeysProperties, RootLength
<1>2. /\ Len(ParentKey(k)) = Len(k) - 1 /\ \A i \in 1..(Len(k) - 1) : ParentKey(k)[i] = k[i]
      /\ Len(ParentKey(q)) = Len(q) - 1 /\ \A i \in 1..(Len(q) - 1) : ParentKey(q)[i] = q[i]
  BY ParentProperties
<1>3. Len(k) = Len(q)
  BY <1>1, <1>2
<1>4. \A i \in 1..Len(k) : k[i] = q[i]
  BY <1>1, <1>2, <1>3 DEF NameOf
<1> QED
  BY <1>1, <1>3, <1>4, SeqEqual

\* On the way down to k: each prefix but the root has its parent and its name on that way.
LEMMA PrefixDescends ==
  ASSUME NEW k \in Keys, NEW p \in Prefixes(k)
  PROVE  /\ p \in Keys
         /\ Len(p) \in 0..Len(k)
         /\ p = SubSeq(k, 1, Len(p))
         /\ p # k => Len(p) < Len(k)
         /\ p # Root => /\ ParentKey(p) \in Prefixes(k)
                        /\ NameOf(p) = k[Len(p)]
                        /\ ParentKey(p) # k
<1>1. k \in Seq(Names) /\ Len(k) \in Nat /\ p \in Keys
  BY KeysProperties
<1>2. PICK n \in 0..Len(k) : p = SubSeq(k, 1, n)
  BY DEF Prefixes
<1>3. Len(p) = n /\ \A i \in 1..n : p[i] = k[i]
  BY <1>1, <1>2, PrefixProperties
<1>4. p # k => Len(p) < Len(k)
  <2>1. k = SubSeq(k, 1, Len(k))
    BY <1>1, SubSeqFull
  <2>2. n = Len(k) => p = k
    BY <1>2, <2>1
  <2> QED
    BY <1>1, <1>3, <2>2
<1>5. ASSUME p # Root
      PROVE  /\ ParentKey(p) \in Prefixes(k)
             /\ NameOf(p) = k[Len(p)]
             /\ ParentKey(p) # k
  <2>1. Len(p) \in Nat \ {0}
    BY <1>1, <1>5, KeysProperties, RootLength
  <2>2. ParentKey(p) = SubSeq(k, 1, n - 1)
    BY <1>1, <1>2, <1>3, <2>1, PrefixOfPrefix DEF ParentKey
  <2>3. n - 1 \in 0..Len(k) /\ n - 1 < Len(k)
    BY <1>1, <1>3, <2>1
  <2>4. Len(ParentKey(p)) = n - 1
    BY <1>1, <1>3, <1>5, ParentProperties, SMTT(40)
  <2> QED
    BY <1>1, <1>3, <2>1, <2>2, <2>3, <2>4, SMTT(40) DEF Prefixes, NameOf
<1> QED
  BY <1>1, <1>2, <1>3, <1>4, <1>5

\* A key whose parent is on the way down to k, and whose name is the next one there, is
\* itself on that way.
LEMMA ChildOnTheWay ==
  ASSUME NEW k \in Keys, NEW q \in Keys, q # Root,
         ParentKey(q) \in Prefixes(k), ParentKey(q) # k,
         NameOf(q) = k[Len(ParentKey(q)) + 1]
  PROVE  q \in Prefixes(k)
<1>1. /\ k \in Seq(Names) /\ Len(k) \in Nat
      /\ q \in Seq(Names) /\ Len(q) \in Nat \ {0}
  BY KeysProperties, RootLength
<1>2. /\ Len(ParentKey(q)) = Len(q) - 1
      /\ Len(ParentKey(q)) < Len(k)
      /\ ParentKey(q) = SubSeq(k, 1, Len(q) - 1)
  BY ParentProperties, PrefixDescends
<1>3. Len(q) \in 0..Len(k) /\ Len(q) - 1 \in 0..Len(k)
  BY <1>1, <1>2
<1>4. /\ SubSeq(k, 1, Len(q)) \in Seq(Names)
      /\ Len(SubSeq(k, 1, Len(q))) = Len(q)
      /\ \A i \in 1..Len(q) : SubSeq(k, 1, Len(q))[i] = k[i]
  BY <1>1, <1>3, PrefixProperties
<1>5. \A i \in 1..(Len(q) - 1) : q[i] = k[i]
  <2>1. \A i \in 1..(Len(q) - 1) : ParentKey(q)[i] = q[i]
    BY ParentProperties
  <2>2. \A i \in 1..(Len(q) - 1) : SubSeq(k, 1, Len(q) - 1)[i] = k[i]
    BY <1>1, <1>3, PrefixProperties
  <2> QED
    BY <1>2, <2>1, <2>2
<1>6. q[Len(q)] = k[Len(q)]
  BY <1>1, <1>2 DEF NameOf
<1>7. \A i \in 1..Len(q) : q[i] = SubSeq(k, 1, Len(q))[i]
  BY <1>1, <1>4, <1>5, <1>6
<1>8. q = SubSeq(k, 1, Len(q))
  BY <1>1, <1>4, <1>7, SeqEqual
<1> QED
  BY <1>3, <1>8 DEF Prefixes
------------------------------------------------------------------------------
(* The operators the actions are built from *)

\* What a free slot, or the slot after the last, becomes.
LEMMA WithSlotProperties ==
  ASSUME TypeOK, NEW fid \in 0..Len(handles_), NEW v \in Keys \cup {None}
  PROVE  /\ WithSlot(fid, v) \in Seq(Keys \cup {None})
         /\ Len(WithSlot(fid, v)) = IF fid = Len(handles_) THEN Len(handles_) + 1
                                                           ELSE Len(handles_)
         /\ \A i \in 1..Len(WithSlot(fid, v)) :
              WithSlot(fid, v)[i] = IF i = fid + 1 THEN v ELSE handles_[i]
<1>1. handles_ \in Seq(Keys \cup {None}) /\ Len(handles_) \in Nat
  BY LenProperties DEF TypeOK
<1>2. CASE fid = Len(handles_)
  BY <1>1, <1>2, AppendProperties DEF WithSlot
<1>3. CASE fid # Len(handles_)
  <2>1. fid + 1 \in 1..Len(handles_)
    BY <1>1, <1>3
  <2> QED
    BY <1>1, <1>3, <2>1, ExceptSeq DEF WithSlot
<1> QED
  BY <1>2, <1>3

\* Handing out a slot that was free adds its handle to those in use, and no other changes.
LEMMA SlotTaken ==
  ASSUME TypeOK, NEW fid \in 0..Len(handles_), NEW k \in Keys,
         NextFid(fid), handles_' = WithSlot(fid, k)
  PROVE  /\ OpenFids' = OpenFids \cup {fid}
         /\ fid \notin OpenFids
         /\ handles_'[fid + 1] = k
         /\ \A i \in OpenFids : handles_'[i + 1] = handles_[i + 1]
<1>1. Len(handles_) \in Nat /\ None \notin Keys
  BY LenProperties, NoneAssumption DEF TypeOK
<1>2. /\ Len(handles_') = IF fid = Len(handles_) THEN Len(handles_) + 1 ELSE Len(handles_)
      /\ \A i \in 1..Len(handles_') : handles_'[i] = IF i = fid + 1 THEN k ELSE handles_[i]
  BY WithSlotProperties
<1>3. ASSUME NEW i \in Int
      PROVE  /\ i \in OpenFids' <=> i \in OpenFids \/ i = fid
             /\ i \in OpenFids => handles_'[i + 1] = handles_[i + 1]
  BY <1>1, <1>2 DEF OpenFids, NextFid
<1>4. OpenFids \subseteq Int /\ OpenFids' \subseteq Int
  BY DEF OpenFids
<1>5. handles_'[fid + 1] = k
  BY <1>1, <1>2
<1>6. fid \in Int /\ fid \notin OpenFids
  BY <1>1 DEF NextFid
<1>7. OpenFids' = OpenFids \cup {fid}
  BY <1>3, <1>4, <1>6
<1>8. \A i \in OpenFids : handles_'[i + 1] = handles_[i + 1]
  BY <1>3, <1>4
<1> QED
  BY <1>5, <1>6, <1>7, <1>8

\* Taking a slot and releasing it at once leaves the handles in use as they were.
LEMMA SlotTakenAndFreed ==
  ASSUME TypeOK, NEW fid \in 0..Len(handles_),
         NextFid(fid), handles_' = WithSlot(fid, None)
  PROVE  /\ OpenFids' = OpenFids
         /\ \A i \in OpenFids : handles_'[i + 1] = handles_[i + 1]
<1>1. Len(handles_) \in Nat
  BY LenProperties DEF TypeOK
<1>2. /\ Len(handles_') = IF fid = Len(handles_) THEN Len(handles_) + 1 ELSE Len(handles_)
      /\ \A i \in 1..Len(handles_') : handles_'[i] = IF i = fid + 1 THEN None ELSE handles_[i]
  BY WithSlotProperties
<1>3. ASSUME NEW i \in Int
      PROVE  /\ i \in OpenFids' <=> i \in OpenFids
             /\ i \in OpenFids => handles_'[i + 1] = handles_[i + 1]
  BY <1>1, <1>2 DEF OpenFids, NextFid
<1>4. OpenFids \subseteq Int /\ OpenFids' \subseteq Int
  BY DEF OpenFids
<1> QED
  BY <1>3, <1>4

\* Releasing a handle takes it, and it alone, out of use.
LEMMA SlotFreed ==
  ASSUME TypeOK, NEW fid \in OpenFids, handles_' = [handles_ EXCEPT ![fid + 1] = None]
  PROVE  /\ handles_' \in Seq(Keys \cup {None})
         /\ OpenFids' = OpenFids \ {fid}
         /\ \A i \in OpenFids' : handles_'[i + 1] = handles_[i + 1]
<1>1. handles_ \in Seq(Keys \cup {None}) /\ Len(handles_) \in Nat
  BY LenProperties DEF TypeOK
<1>2. fid \in Int /\ fid + 1 \in 1..Len(handles_)
  BY <1>1 DEF OpenFids
<1>3. /\ handles_' \in Seq(Keys \cup {None})
      /\ Len(handles_') = Len(handles_)
      /\ \A i \in 1..Len(handles_) : handles_'[i] = IF i = fid + 1 THEN None ELSE handles_[i]
  BY <1>1, <1>2, ExceptSeq
<1>4. ASSUME NEW i \in Int
      PROVE  /\ i \in OpenFids' <=> i \in OpenFids /\ i # fid
             /\ i \in OpenFids' => handles_'[i + 1] = handles_[i + 1]
  BY <1>1, <1>2, <1>3 DEF OpenFids
<1>5. OpenFids \subseteq Int /\ OpenFids' \subseteq Int
  BY DEF OpenFids
<1> QED
  BY <1>3, <1>4, <1>5

\* A handle in use is a natural number and its slot holds a key.
LEMMA OpenFidsProperties ==
  ASSUME TypeOK, NEW fid \in OpenFids
  PROVE  fid \in Nat /\ fid + 1 \in 1..Len(handles_) /\ handles_[fid + 1] \in Keys
<1>1. handles_ \in Seq(Keys \cup {None}) /\ Len(handles_) \in Nat
  BY LenProperties DEF TypeOK
<1>2. fid \in Nat /\ fid + 1 \in 1..Len(handles_)
  BY <1>1 DEF OpenFids
<1>3. handles_[fid + 1] \in Keys \cup {None}
  BY <1>1, <1>2, ElementOfSeq
<1> QED
  BY <1>2, <1>3 DEF OpenFids

\* Creating the entries on the way to k keeps what each entry holds but its children.
LEMMA ForcedProperties ==
  ASSUME TypeOK, NEW k \in Keys
  PROVE  /\ Forced(k) \in [Keys -> Entry \cup {None}]
         /\ \A p \in Keys \ Prefixes(k) : Forced(k)[p] = tree[p]
         /\ \A p \in Prefixes(k) :
              LET e == IF tree[p] = None THEN NewEntry ELSE tree[p] IN
              /\ Forced(k)[p] \in Entry
              /\ Forced(k)[p].file = e.file
              /\ Forced(k)[p].dir = e.dir
              /\ Forced(k)[p].handles = e.handles
              /\ Forced(k)[p].children = e.children \cup (IF p = k THEN {} ELSE {k[Len(p) + 1]})
<1> DEFINE old(p) == IF tree[p] = None THEN NewEntry ELSE tree[p]
           more(p) == IF p = k THEN {} ELSE {k[Len(p) + 1]}
           new(p) == [old(p) EXCEPT !.children = @ \cup more(p)]
<1>1. k \in Seq(Names) /\ Len(k) \in Nat /\ Prefixes(k) \subseteq Keys
  BY KeysProperties
<1>2. ASSUME NEW p \in Prefixes(k)
      PROVE  /\ old(p) \in Entry
             /\ more(p) \subseteq Names
             /\ new(p) \in Entry
             /\ new(p).file = old(p).file
             /\ new(p).dir = old(p).dir
             /\ new(p).handles = old(p).handles
             /\ new(p).children = old(p).children \cup more(p)
  <2>1. old(p) \in Entry
    BY <1>1 DEF TypeOK, Entry, NewEntry
  <2>2. more(p) \subseteq Names
    <3>1. p # k => Len(p) + 1 \in 1..Len(k)
      BY <1>1, PrefixDescends
    <3>2. p # k => k[Len(p) + 1] \in Names
      BY <1>1, <3>1, ElementOfSeq
    <3> QED
      BY <3>2
  <2> HIDE DEF old, more
  <2>3. new(p) \in Entry
    BY <2>1, <2>2 DEF Entry
  <2> QED
    BY <2>1, <2>2, <2>3 DEF Entry
<1>3. /\ \A p \in Keys \ Prefixes(k) : Forced(k)[p] = tree[p]
      /\ \A p \in Prefixes(k) : Forced(k)[p] = new(p)
  BY <1>1 DEF Forced
<1>4. Forced(k) \in [Keys -> Entry \cup {None}]
  <2> HIDE DEF new, old, more
  <2>1. \A p \in Keys : Forced(k)[p] \in Entry \cup {None}
    BY <1>1, <1>2, <1>3 DEF TypeOK
  <2>2. Forced(k) = [p \in Keys |-> Forced(k)[p]]
    BY DEF Forced
  <2> QED
    BY <2>1, <2>2
<1>5. \A p \in Prefixes(k) :
        /\ Forced(k)[p] \in Entry
        /\ Forced(k)[p].file = old(p).file
        /\ Forced(k)[p].dir = old(p).dir
        /\ Forced(k)[p].handles = old(p).handles
        /\ Forced(k)[p].children = old(p).children \cup more(p)
  <2> HIDE DEF new, old, more
  <2> QED
    BY <1>2, <1>3
<1> QED
  BY <1>3, <1>4, <1>5, Zenon
------------------------------------------------------------------------------
(* The inductive invariant *)

IInv == /\ TypeOK
        /\ TreeLinked
        /\ HandlesAgree
        /\ FilesInPlace
        /\ HandleUse = "once" => FdFaithful

\* What the calls that only report something leave alone.
core == <<tree, handles_, life, sessions, fds>>

\* Entries that stay keep their file.
KeepsFiles == \A q \in Keys : tree[q] # None /\ tree'[q] # None => tree'[q].file = tree[q].file

\* getEntry never returns an entry that was removed.
LEMMA FoundIsPresent ==
  ASSUME TreeLinked, NEW k \in Keys, Found(k)
  PROVE  tree[k] # None
<1>1. CASE k = Root
  BY <1>1 DEF TreeLinked
<1>2. CASE k # Root
  <2>1. Len(k) \in Nat \ {0}
    BY <1>2, KeysProperties, RootLength
  <2>2. tree[ParentKey(k)] # None /\ NameOf(k) \in tree[ParentKey(k)].children
    BY <2>1 DEF Found, ParentKey, NameOf
  <2> QED
    BY <1>2, <2>2 DEF TreeLinked
<1> QED
  BY <1>1, <1>2

\* A step that changes no children and neither creates nor removes entries keeps the tree
\* linked.
LEMMA TreeStaysLinked ==
  ASSUME TreeLinked,
         \A k \in Keys : /\ tree'[k] = None <=> tree[k] = None
                         /\ tree[k] # None => tree'[k].children = tree[k].children
  PROVE  TreeLinked'
<1>1. \A k \in Keys \ {Root} : ParentKey(k) \in Keys
  BY ParentProperties
<1>2. Root \in Keys
  BY DEF Keys
<1> QED
  BY <1>1, <1>2 DEF TreeLinked
------------------------------------------------------------------------------
(* The initial state, and one lemma per action *)

\* The invariant holds of an empty file system.
LEMMA InitIInv == Init => IInv
<1> SUFFICES ASSUME Init PROVE IInv
  OBVIOUS
<1> USE DEF Init
<1>1. OpenFids = {}
  BY EmptySeq DEF OpenFids
<1>2. TypeOK
  <2>1. handles_ \in Seq(Keys \cup {None})
    BY EmptySeq
  <2>2. tree \in [Keys -> Entry \cup {None}]
    BY DEF NewEntry, Entry
  <2>3. fds \in [Clients -> [fid : Nat, path : Paths \cup {None}, open : BOOLEAN]]
    BY DEF NoHandle
  <2> QED
    BY <2>1, <2>2, <2>3 DEF TypeOK
<1>3. NewEntry # None
  BY NoneAssumption DEF NewEntry, Entry
<1>4. \A k \in Keys : tree[k] # None => k = Root /\ tree[k] = NewEntry
  OBVIOUS
<1>5. TreeLinked
  <2>1. tree[Root] # None
    BY <1>3 DEF Keys
  <2>2. ASSUME NEW k \in Keys \ {Root}
        PROVE  ~(tree[ParentKey(k)] # None /\ NameOf(k) \in tree[ParentKey(k)].children)
    <3>1. ParentKey(k) \in Keys
      BY ParentProperties
    <3> QED
      BY <1>4, <3>1 DEF NewEntry
  <2> QED
    BY <1>4, <2>1, <2>2 DEF TreeLinked
<1>6. HandlesAgree /\ FilesInPlace
  BY <1>1, <1>4 DEF HandlesAgree, FilesInPlace, NewEntry
<1>7. FdFaithful
  BY DEF FdFaithful, NoHandle
<1> QED
  BY <1>2, <1>5, <1>6, <1>7 DEF IInv

\* A step that changes what a caller holds to nothing, or nothing at all, is harmless.
LEMMA FdsStep ==
  ASSUME IInv, UNCHANGED <<tree, handles_, life, sessions>>,
         status' \in {"up", "aborted", "undefined", "down"},
         \/ UNCHANGED fds
         \/ \E c \in Clients : fds' = [fds EXCEPT ![c].open = FALSE]
  PROVE  IInv'
<1> USE DEF IInv
<1>1. /\ fds' \in [Clients -> [fid : Nat, path : Paths \cup {None}, open : BOOLEAN]]
      /\ \A c \in Clients : fds'[c].open => fds[c].open /\ fds'[c] = fds[c]
  BY ZenonT(60) DEF TypeOK
<1>2. TypeOK'
  BY <1>1 DEF TypeOK
<1>3. OpenFids' = OpenFids
  BY DEF OpenFids
<1>4. TreeLinked' /\ HandlesAgree' /\ FilesInPlace'
  BY <1>3 DEF TreeLinked, HandlesAgree, FilesInPlace
<1>5. FdFaithful => FdFaithful'
  BY <1>1, <1>3 DEF FdFaithful, SlotOf
<1> QED
  BY <1>2, <1>4, <1>5

\* An entry whose handles change keeps the rest.
LEMMA HandlesUpdate ==
  ASSUME NEW e \in Entry, NEW hs \in SUBSET (Nat \cup {-1})
  PROVE  LET n == [e EXCEPT !.handles = hs] IN
         n \in Entry /\ n # None
         /\ n.handles = hs /\ n.children = e.children /\ n.file = e.file /\ n.dir = e.dir
<1>1. [e EXCEPT !.handles = hs] \in Entry
  BY DEF Entry
<1> QED
  BY <1>1, NoneAssumption DEF Entry

\* An open adds one slot to the table and the same fid to the entry.
LEMMA OpenFileIInv ==
  ASSUME IInv, NEW c \in Clients, NEW path \in Paths, OpenFile(c, path)
  PROVE  IInv' /\ KeepsFiles
<1> DEFINE k == EntryKey(path)
<1>1. k \in Keys
  BY KeysProperties
<1> HIDE DEF k
<1> USE DEF IInv
<1>2. PICK fid \in 0..Len(handles_) :
        /\ NextFid(fid)
        /\ handles_' = WithSlot(fid, k)
        /\ tree' = [tree EXCEPT ![k].handles = @ \cup {fid}]
        /\ sessions' = [sessions EXCEPT ![tree[k].file] = @ \cup {fid}]
        /\ fds' = [fds EXCEPT ![c] = [fid |-> fid, path |-> path, open |-> TRUE]]
  BY DEF OpenFile, k
<1>3. Len(handles_) \in Nat /\ fid \in Nat
  BY LenProperties DEF TypeOK
<1>4. tree[k] \in Entry /\ tree[k] # None /\ tree[k].file \in Files
  <2>1. tree[k] # None
    BY <1>1, FoundIsPresent DEF OpenFile, k
  <2> QED
    BY <1>1, <2>1 DEF OpenFile, k, Usable, TypeOK, Entry
<1>5. /\ OpenFids' = OpenFids \cup {fid}
      /\ fid \notin OpenFids
      /\ handles_'[fid + 1] = k
      /\ \A i \in OpenFids : handles_'[i + 1] = handles_[i + 1]
  BY <1>1, <1>2, SlotTaken
<1>6. /\ tree'[k] \in Entry
      /\ tree'[k].handles = tree[k].handles \cup {fid}
      /\ tree'[k].children = tree[k].children
      /\ tree'[k].file = tree[k].file
      /\ tree'[k] # None
      /\ \A q \in Keys \ {k} : tree'[q] = tree[q]
  <2> DEFINE hs == tree[k].handles \cup {fid}
  <2>1. hs \in SUBSET (Nat \cup {-1})
    BY <1>3, <1>4 DEF Entry
  <2>2. tree'[k] = [tree[k] EXCEPT !.handles = hs]
    BY <1>1, <1>2 DEF TypeOK
  <2>3. \A q \in Keys \ {k} : tree'[q] = tree[q]
    BY <1>2 DEF TypeOK
  <2>4. hs = tree[k].handles \cup {fid}
    OBVIOUS
  <2> HIDE DEF hs
  <2>5. LET n == [tree[k] EXCEPT !.handles = hs] IN
        n \in Entry /\ n # None
        /\ n.handles = hs /\ n.children = tree[k].children
        /\ n.file = tree[k].file /\ n.dir = tree[k].dir
    BY <1>4, <2>1, HandlesUpdate
  <2> QED
    BY <2>2, <2>3, <2>4, <2>5
<1>7. TypeOK'
  <2>1. tree' \in [Keys -> Entry \cup {None}]
    BY <1>1, <1>2, <1>6 DEF TypeOK
  <2>2. handles_' \in Seq(Keys \cup {None})
    BY <1>1, <1>2, WithSlotProperties
  <2>3. sessions' \in [Files -> SUBSET Nat]
    BY <1>2, <1>3, <1>4 DEF TypeOK
  <2>4. fds' \in [Clients -> [fid : Nat, path : Paths \cup {None}, open : BOOLEAN]]
    BY <1>2, <1>3 DEF TypeOK
  <2> QED
    BY <2>1, <2>2, <2>3, <2>4 DEF TypeOK, OpenFile
<1>8. TreeLinked'
  BY <1>4, <1>6, TreeStaysLinked
<1>9. HandlesAgree'
  <2>1. \A i \in OpenFids' : tree'[handles_'[i + 1]] # None
    BY <1>4, <1>5, <1>6, OpenFidsProperties DEF HandlesAgree
  <2>2. tree'[k].handles \ {-1} = {i \in OpenFids' : handles_'[i + 1] = k}
    BY <1>1, <1>3, <1>4, <1>5, <1>6 DEF HandlesAgree
  <2>3. ASSUME NEW q \in Keys \ {k}, tree'[q] # None
        PROVE  tree'[q].handles \ {-1} = {i \in OpenFids' : handles_'[i + 1] = q}
    BY <1>5, <1>6, <2>3 DEF HandlesAgree
  <2> QED
    BY <2>1, <2>2, <2>3 DEF HandlesAgree
<1>10. FilesInPlace'
  <2>1. life' = life
    BY DEF OpenFile
  <2>2. \A q \in Keys : tree'[q] # None => tree[q] # None /\ tree'[q].file = tree[q].file
    BY <1>4, <1>6
  <2>3. ASSUME NEW i \in OpenFids'
        PROVE  tree'[handles_'[i + 1]].file # None
    <3>1. CASE i = fid
      BY <1>4, <1>5, <1>6, <3>1, ObjectsAssumption DEF Objects
    <3>2. CASE i # fid
      BY <1>5, <1>6, <3>2, OpenFidsProperties DEF FilesInPlace
    <3> QED
      BY <3>1, <3>2
  <2> QED
    BY <2>1, <2>2, <2>3 DEF FilesInPlace
<1>11. FdFaithful => FdFaithful'
  <2> SUFFICES ASSUME FdFaithful PROVE FdFaithful'
    OBVIOUS
  <2>1. fds'[c] = [fid |-> fid, path |-> path, open |-> TRUE]
    BY <1>2 DEF TypeOK
  <2>2. \A d \in Clients \ {c} : fds'[d] = fds[d]
    BY <1>2 DEF TypeOK
  <2>3. ASSUME NEW d \in Clients, fds'[d].open
        PROVE  /\ fds'[d].fid \in OpenFids'
               /\ handles_'[fds'[d].fid + 1] = EntryKey(fds'[d].path)
               /\ d # c => fds'[d].fid # fid
    BY <1>5, <2>1, <2>2, <2>3 DEF FdFaithful, SlotOf, k
  <2> QED
    BY <2>1, <2>2, <2>3 DEF FdFaithful, SlotOf
<1> QED
  BY <1>7, <1>8, <1>9, <1>10, <1>11, <1>6 DEF KeepsFiles

\* An open that fails leaves the slot free and -1 in the entry.
LEMMA OpenFailsIInv ==
  ASSUME IInv, NEW c \in Clients, NEW path \in Paths, OpenFails(c, path)
  PROVE  IInv' /\ KeepsFiles
<1> DEFINE k == EntryKey(path)
<1>1. k \in Keys
  BY KeysProperties
<1> HIDE DEF k
<1> USE DEF IInv
<1>2. /\ tree' = [tree EXCEPT ![k].handles = @ \cup {-1}]
      /\ fds' = [fds EXCEPT ![c] = NoHandle]
      /\ UNCHANGED <<life, sessions, status>>
  BY DEF OpenFails, k
<1>3. PICK fid \in 0..Len(handles_) : NextFid(fid) /\ handles_' = WithSlot(fid, None)
  BY DEF OpenFails
<1>4. tree[k] # None /\ tree[k] \in Entry
  BY <1>1, FoundIsPresent DEF OpenFails, k, TypeOK
<1>5. OpenFids' = OpenFids /\ \A i \in OpenFids : handles_'[i + 1] = handles_[i + 1]
  BY <1>3, SlotTakenAndFreed
<1>6. /\ tree'[k] \in Entry
      /\ tree'[k].handles = tree[k].handles \cup {-1}
      /\ tree'[k].children = tree[k].children
      /\ tree'[k].file = tree[k].file
      /\ tree'[k] # None
      /\ \A q \in Keys \ {k} : tree'[q] = tree[q]
  <2> DEFINE hs == tree[k].handles \cup {-1}
  <2>1. hs \in SUBSET (Nat \cup {-1})
    BY <1>4 DEF Entry
  <2>2. tree'[k] = [tree[k] EXCEPT !.handles = hs]
    BY <1>1, <1>2 DEF TypeOK
  <2>3. \A q \in Keys \ {k} : tree'[q] = tree[q]
    BY <1>2 DEF TypeOK
  <2>4. hs = tree[k].handles \cup {-1}
    OBVIOUS
  <2> HIDE DEF hs
  <2>5. LET n == [tree[k] EXCEPT !.handles = hs] IN
        n \in Entry /\ n # None
        /\ n.handles = hs /\ n.children = tree[k].children
        /\ n.file = tree[k].file /\ n.dir = tree[k].dir
    BY <1>4, <2>1, HandlesUpdate
  <2> QED
    BY <2>2, <2>3, <2>4, <2>5
<1>7. TypeOK'
  <2>1. tree' \in [Keys -> Entry \cup {None}]
    BY <1>1, <1>2, <1>6 DEF TypeOK
  <2>2. handles_' \in Seq(Keys \cup {None})
    BY <1>3, WithSlotProperties
  <2>3. fds' \in [Clients -> [fid : Nat, path : Paths \cup {None}, open : BOOLEAN]]
    BY <1>2 DEF TypeOK, NoHandle
  <2> QED
    BY <1>2, <2>1, <2>2, <2>3 DEF TypeOK
<1>8. TreeLinked'
  BY <1>4, <1>6, TreeStaysLinked
<1>9. HandlesAgree'
  <2>1. \A i \in OpenFids' : tree'[handles_'[i + 1]] # None
    BY <1>4, <1>5, <1>6, OpenFidsProperties DEF HandlesAgree
  <2>2. tree'[k].handles \ {-1} = {i \in OpenFids' : handles_'[i + 1] = k}
    BY <1>1, <1>4, <1>5, <1>6 DEF HandlesAgree
  <2>3. ASSUME NEW q \in Keys \ {k}, tree'[q] # None
        PROVE  tree'[q].handles \ {-1} = {i \in OpenFids' : handles_'[i + 1] = q}
    BY <1>5, <1>6, <2>3 DEF HandlesAgree
  <2> QED
    BY <2>1, <2>2, <2>3 DEF HandlesAgree
<1>10. FilesInPlace'
  <2>1. \A q \in Keys : tree'[q] # None => tree[q] # None /\ tree'[q].file = tree[q].file
    BY <1>4, <1>6
  <2>2. \A i \in OpenFids' : tree'[handles_'[i + 1]].file # None
    BY <1>5, <1>6, OpenFidsProperties DEF FilesInPlace
  <2> QED
    BY <1>2, <2>1, <2>2 DEF FilesInPlace
<1>11. FdFaithful => FdFaithful'
  <2>1. \A d \in Clients : fds'[d].open => fds[d].open /\ fds'[d] = fds[d]
    BY <1>2 DEF TypeOK, NoHandle
  <2> QED
    BY <1>5, <2>1 DEF FdFaithful, SlotOf
<1> QED
  BY <1>7, <1>8, <1>9, <1>10, <1>11, <1>6 DEF KeepsFiles

\* A close frees the slot its handle leads to, in the table and in the entry.
LEMMA CloseFileIInv ==
  ASSUME IInv, NEW c \in Clients, CloseFile(c)
  PROVE  IInv' /\ KeepsFiles
<1> DEFINE fid == fds[c].fid
           k == handles_[fid + 1]
<1> USE DEF IInv
<1>1. /\ fid \in OpenFids
      /\ tree' = [tree EXCEPT ![k].handles = ReleasedFrom(@, fid)]
      /\ sessions' = [sessions EXCEPT ![tree[k].file] = @ \ {fid}]
      /\ handles_' = [handles_ EXCEPT ![fid + 1] = None]
      /\ fds' = [fds EXCEPT ![c].open = FALSE]
      /\ UNCHANGED <<life, status>>
      /\ tree[k].file # None
  BY SMTT(40) DEF CloseFile, Leads, SlotOf, Usable
<1>2. fid \in Nat /\ k \in Keys
  BY <1>1, OpenFidsProperties
<1> HIDE DEF fid, k
<1>3. tree[k] # None /\ tree[k] \in Entry /\ tree[k].file \in Files
  BY <1>1, <1>2 DEF HandlesAgree, TypeOK, Entry, k
<1>4. /\ handles_' \in Seq(Keys \cup {None})
      /\ OpenFids' = OpenFids \ {fid}
      /\ \A i \in OpenFids' : handles_'[i + 1] = handles_[i + 1]
  BY <1>1, SlotFreed
<1>5. /\ tree'[k] \in Entry
      /\ tree'[k].handles = ReleasedFrom(tree[k].handles, fid)
      /\ tree'[k].children = tree[k].children
      /\ tree'[k].file = tree[k].file
      /\ tree'[k] # None
      /\ \A q \in Keys \ {k} : tree'[q] = tree[q]
  <2>1. ReleasedFrom(tree[k].handles, fid) \in SUBSET (Nat \cup {-1})
    BY <1>3 DEF Entry, ReleasedFrom
  <2>2. tree'[k] = [tree[k] EXCEPT !.handles = ReleasedFrom(tree[k].handles, fid)]
    BY <1>1, <1>2 DEF TypeOK
  <2>3. \A q \in Keys \ {k} : tree'[q] = tree[q]
    BY <1>1 DEF TypeOK
  <2> QED
    BY <1>3, <2>1, <2>2, <2>3, HandlesUpdate
<1>6. TypeOK'
  <2>1. tree' \in [Keys -> Entry \cup {None}]
    BY <1>1, <1>2, <1>5 DEF TypeOK
  <2>2. sessions' \in [Files -> SUBSET Nat]
    BY <1>1, <1>3 DEF TypeOK
  <2>3. fds' \in [Clients -> [fid : Nat, path : Paths \cup {None}, open : BOOLEAN]]
    BY <1>1 DEF TypeOK
  <2> QED
    BY <1>1, <1>4, <2>1, <2>2, <2>3 DEF TypeOK
<1>7. TreeLinked'
  BY <1>3, <1>5, TreeStaysLinked
<1>8. HandlesAgree'
  <2>1. \A i \in OpenFids' : tree'[handles_'[i + 1]] # None
    BY <1>3, <1>4, <1>5, OpenFidsProperties DEF HandlesAgree
  <2>2. tree'[k].handles \ {-1} = {i \in OpenFids' : handles_'[i + 1] = k}
    <3>1. tree[k].handles \ {-1} = {i \in OpenFids : handles_[i + 1] = k}
      BY <1>2, <1>3 DEF HandlesAgree
    <3>2. tree'[k].handles \ {-1} = (tree[k].handles \ {-1}) \ {fid}
      BY <1>2, <1>5 DEF ReleasedFrom
    <3> QED
      BY <1>4, <3>1, <3>2
  <2>3. ASSUME NEW q \in Keys \ {k}, tree'[q] # None
        PROVE  tree'[q].handles \ {-1} = {i \in OpenFids' : handles_'[i + 1] = q}
    <3>1. tree[q].handles \ {-1} = {i \in OpenFids : handles_[i + 1] = q}
      BY <1>5, <2>3 DEF HandlesAgree
    <3>2. handles_[fid + 1] # q
      BY DEF k
    <3> QED
      BY <1>4, <1>5, <3>1, <3>2
  <2> QED
    BY <2>1, <2>2, <2>3 DEF HandlesAgree
<1>9. FilesInPlace'
  <2>1. \A q \in Keys : tree'[q] # None => tree[q] # None /\ tree'[q].file = tree[q].file
    BY <1>3, <1>5
  <2>2. \A i \in OpenFids' : tree'[handles_'[i + 1]].file # None
    BY <1>4, <1>5, OpenFidsProperties DEF FilesInPlace
  <2> QED
    BY <1>1, <2>1, <2>2 DEF FilesInPlace
<1>10. HandleUse = "once" => FdFaithful'
  <2> SUFFICES ASSUME HandleUse = "once" PROVE FdFaithful'
    OBVIOUS
  <2>1. fds[c].open
    BY DEF CloseFile, HoldsHandle
  <2>2. \A d \in Clients : fds'[d].open => d # c /\ fds[d].open /\ fds'[d] = fds[d]
    BY <1>1 DEF TypeOK
  <2>3. \A d \in Clients : fds'[d].open => fds[d].fid # fid
    BY <2>1, <2>2 DEF FdFaithful, fid
  <2> QED
    BY <1>4, <2>2, <2>3 DEF FdFaithful, SlotOf
<1> QED
  BY <1>6, <1>7, <1>8, <1>9, <1>10, <1>5, SMTT(40) DEF KeepsFiles

\* What creating the entries on the way to k does to the invariants: the tree is linked,
\* the entry at k exists, and no entry that was there loses its file or its handles.
LEMMA ForcedTree ==
  ASSUME IInv, NEW k \in Keys,
         tree' \in [Keys -> Entry \cup {None}],
         \A q \in Keys : /\ tree'[q] = None <=> Forced(k)[q] = None
                         /\ tree'[q] # None => /\ tree'[q].children = Forced(k)[q].children
                                               /\ tree'[q].handles = Forced(k)[q].handles
                         /\ q # k => tree'[q] = Forced(k)[q]
  PROVE  /\ TreeLinked'
         /\ \A q \in Keys :
              /\ tree[q] # None => tree'[q] # None /\ tree'[q].handles = tree[q].handles
              /\ tree[q] = None /\ tree'[q] # None => tree'[q].handles = {}
              /\ q # k /\ tree'[q] # None /\ tree'[q].file # None =>
                   tree[q] # None /\ tree'[q].file = tree[q].file
              /\ q # k /\ tree[q] # None => tree'[q].file = tree[q].file
<1> USE DEF IInv
<1> DEFINE more(p) == IF p = k THEN {} ELSE {k[Len(p) + 1]}
<1>1. Prefixes(k) \subseteq Keys /\ None \notin Names
  BY KeysProperties, ObjectsAssumption
<1>2. \A q \in Keys \ Prefixes(k) : Forced(k)[q] = tree[q]
  BY ForcedProperties
<1>3. \A q \in Prefixes(k) :
        /\ Forced(k)[q] # None
        /\ Forced(k)[q].file = (IF tree[q] = None THEN None ELSE tree[q].file)
        /\ Forced(k)[q].handles = (IF tree[q] = None THEN {} ELSE tree[q].handles)
        /\ Forced(k)[q].children =
             (IF tree[q] = None THEN {} ELSE tree[q].children) \cup more(q)
  BY ForcedProperties, NoneAssumption DEF NewEntry
<1>4. TreeLinked'
  <2>1. tree'[Root] # None
    <3>1. tree[Root] # None /\ Root \in Keys
      BY DEF TreeLinked, Keys
    <3> QED
      BY <1>2, <1>3, <3>1
  <2>2. ASSUME NEW q \in Keys \ {Root}
        PROVE  tree'[q] # None <=> /\ tree'[ParentKey(q)] # None
                                   /\ NameOf(q) \in tree'[ParentKey(q)].children
    <3> DEFINE p == ParentKey(q)
    <3>1. p \in Keys
      BY ParentProperties
    <3>2. tree[q] # None <=> tree[p] # None /\ NameOf(q) \in tree[p].children
      BY DEF TreeLinked
    <3>3. CASE q \in Prefixes(k)
      <4>1. p \in Prefixes(k) /\ p # k /\ NameOf(q) = k[Len(q)]
        BY <3>3, PrefixDescends
      <4>2. Len(p) + 1 = Len(q)
        BY ParentProperties, KeysProperties
      <4>3. NameOf(q) \in Forced(k)[p].children
        BY <1>3, <4>1, <4>2
      <4>4. Forced(k)[p] # None /\ Forced(k)[q] # None
        BY <1>3, <3>3, <4>1
      <4> HIDE DEF p
      <4> QED
        BY <3>1, <4>3, <4>4 DEF p
    <3>4. CASE q \notin Prefixes(k)
      <4>1. Forced(k)[q] = tree[q]
        BY <1>2, <3>4
      <4>2. CASE p \notin Prefixes(k)
        <5>1. Forced(k)[p] = tree[p]
          BY <1>2, <3>1, <4>2
        <5> HIDE DEF p
        <5> QED
          BY <3>1, <3>2, <4>1, <5>1 DEF p
      <4>3. CASE p \in Prefixes(k)
        <5>1. NameOf(q) \notin more(p)
          BY <3>4, <4>3, ChildOnTheWay
        <5>2. Forced(k)[p] # None
              /\ Forced(k)[p].children =
                   (IF tree[p] = None THEN {} ELSE tree[p].children) \cup more(p)
          BY <1>3, <4>3
        <5> HIDE DEF p, more
        <5> QED
          BY <3>1, <3>2, <4>1, <5>1, <5>2 DEF p
      <4> QED
        BY <4>2, <4>3
    <3> QED
      BY <3>3, <3>4
  <2> QED
    BY <2>1, <2>2 DEF TreeLinked
<1>5. ASSUME NEW q \in Keys
      PROVE  /\ tree[q] # None => tree'[q] # None /\ tree'[q].handles = tree[q].handles
             /\ tree[q] = None /\ tree'[q] # None => tree'[q].handles = {}
             /\ q # k /\ tree'[q] # None /\ tree'[q].file # None =>
                  tree[q] # None /\ tree'[q].file = tree[q].file
             /\ q # k /\ tree[q] # None => tree'[q].file = tree[q].file
  BY <1>2, <1>3
<1> QED
  BY <1>4, <1>5

\* Registering an object, whatever it does to the entry at its own key.
LEMMA RegisterIInv ==
  ASSUME IInv, NEW o \in Objects, NEW k \in Keys, k = EntryKey(PathOf[o]),
         life[o] = "unborn", life' = [life EXCEPT ![o] = "live"],
         tree' \in [Keys -> Entry \cup {None}],
         \A q \in Keys : /\ tree'[q] = None <=> Forced(k)[q] = None
                         /\ tree'[q] # None => tree'[q].children = Forced(k)[q].children
                                               /\ tree'[q].handles = Forced(k)[q].handles
                         /\ q # k => tree'[q] = Forced(k)[q],
         tree'[k].file = Forced(k)[k].file \/ (o \in Files /\ tree'[k].file = o),
         UNCHANGED <<handles_, sessions, fds, status>>
  PROVE  /\ IInv'
         /\ \A q \in Keys : tree[q] # None =>
              tree'[q].file = tree[q].file \/ (o \in Files /\ q = k /\ tree'[q].file = o)
<1>1. k \in Keys
  BY KeysProperties, PathsAssumption
<1>2. tree'[k].file = Forced(k)[k].file \/ (o \in Files /\ tree'[k].file = o)
  OBVIOUS
<1>3. k \in Prefixes(k)
  <2>1. k \in Seq(Names) /\ Len(k) \in Nat
    BY <1>1, KeysProperties
  <2>2. k = SubSeq(k, 1, Len(k)) /\ Len(k) \in 0..Len(k)
    BY <2>1, SubSeqFull
  <2> QED
    BY <2>2 DEF Prefixes
<1>4. /\ TreeLinked'
      /\ \A q \in Keys :
           /\ tree[q] # None => tree'[q] # None /\ tree'[q].handles = tree[q].handles
           /\ tree[q] = None /\ tree'[q] # None => tree'[q].handles = {}
           /\ q # k /\ tree'[q] # None /\ tree'[q].file # None =>
                tree[q] # None /\ tree'[q].file = tree[q].file
           /\ q # k /\ tree[q] # None => tree'[q].file = tree[q].file
  <2> QED
    BY <1>1, ForcedTree
<1>5. Forced(k)[k].file = (IF tree[k] = None THEN None ELSE tree[k].file)
  BY <1>1, <1>3, ForcedProperties DEF IInv, NewEntry
<1>6. o # None /\ None \notin Objects
  BY ObjectsAssumption
<1> USE DEF IInv
<1>7. OpenFids' = OpenFids /\ handles_' = handles_
  BY DEF OpenFids
<1>8. TypeOK'
  <2>1. life' \in [Objects -> {"unborn", "live", "dead"}]
    BY DEF TypeOK
  <2> QED
    BY <2>1 DEF TypeOK
<1>9. HandlesAgree'
  <2>1. \A i \in OpenFids' : tree'[handles_'[i + 1]] # None
    BY <1>4, <1>7, OpenFidsProperties DEF HandlesAgree
  <2>2. ASSUME NEW q \in Keys, tree'[q] # None
        PROVE  tree'[q].handles \ {-1} = {i \in OpenFids' : handles_'[i + 1] = q}
    <3>1. CASE tree[q] # None
      BY <1>4, <1>7, <3>1 DEF HandlesAgree
    <3>2. CASE tree[q] = None
      BY <1>4, <1>7, <2>2, <3>2 DEF HandlesAgree
    <3> QED
      BY <3>1, <3>2
  <2> QED
    BY <2>1, <2>2 DEF HandlesAgree
<1>10. FilesInPlace'
  <2>1. ASSUME NEW q \in Keys, tree'[q] # None, tree'[q].file # None
        PROVE  EntryKey(PathOf[tree'[q].file]) = q /\ life'[tree'[q].file] # "unborn"
    <3>1. CASE tree[q] # None /\ tree'[q].file = tree[q].file
      <4>1. tree[q].file \in Objects
        BY <2>1, <3>1 DEF TypeOK, Entry, Objects
      <4>2. EntryKey(PathOf[tree[q].file]) = q /\ life[tree[q].file] # "unborn"
        BY <2>1, <3>1 DEF FilesInPlace
      <4> QED
        BY <3>1, <4>1, <4>2 DEF TypeOK
    <3>2. CASE q = k /\ tree'[q].file = o
      BY <3>2 DEF TypeOK
    <3> QED
      BY <1>2, <1>4, <1>5, <2>1, <3>1, <3>2
  <2>2. ASSUME NEW i \in OpenFids'
        PROVE  tree'[handles_'[i + 1]].file # None
    <3> DEFINE q == handles_[i + 1]
    <3>1. q \in Keys /\ tree[q] # None /\ tree[q].file # None
      BY <1>7, OpenFidsProperties DEF HandlesAgree, FilesInPlace
    <3> HIDE DEF q
    <3>2. tree'[q].file # None
      BY <1>2, <1>4, <1>5, <1>6, <3>1
    <3> QED
      BY <1>7, <3>2 DEF q
  <2> QED
    BY <2>1, <2>2 DEF FilesInPlace
<1>11. FdFaithful => FdFaithful'
  BY <1>7 DEF FdFaithful, SlotOf
<1>12. \A q \in Keys : tree[q] # None =>
         tree'[q].file = tree[q].file \/ (o \in Files /\ q = k /\ tree'[q].file = o)
  BY <1>2, <1>4, <1>5
<1> QED
  BY <1>4, <1>8, <1>9, <1>10, <1>11, <1>12

\* A new file's entry, and those on the way to it, come without handles.
LEMMA NewFileIInv ==
  ASSUME IInv, NEW f \in Files, NewFile(f)
  PROVE  /\ IInv'
         /\ \A q \in Keys : tree[q] # None =>
              tree'[q].file = tree[q].file \/ (q = EntryKey(PathOf[f]) /\ tree'[q].file = f)
<1> DEFINE k == EntryKey(PathOf[f])
           F == Forced(k)
           refused == F[k].children # {} \/ F[k].dir # None
           t == IF refused THEN F ELSE [F EXCEPT ![k].file = f]
<1>1. k \in Keys /\ f \in Objects
  BY KeysProperties, PathsAssumption DEF Objects
<1>2. k \in Prefixes(k)
  <2>1. k \in Seq(Names) /\ Len(k) \in Nat
    BY <1>1, KeysProperties
  <2>2. k = SubSeq(k, 1, Len(k)) /\ Len(k) \in 0..Len(k)
    BY <2>1, SubSeqFull
  <2> QED
    BY <2>2 DEF Prefixes
<1>3. F \in [Keys -> Entry \cup {None}] /\ F[k] \in Entry
  BY <1>1, <1>2, ForcedProperties DEF IInv
<1>4. /\ life[f] = "unborn"
      /\ life' = [life EXCEPT ![f] = "live"]
      /\ tree' = t
      /\ UNCHANGED <<handles_, sessions, fds, status>>
  BY DEF NewFile
<1>0. k = EntryKey(PathOf[f])
  OBVIOUS
<1> HIDE DEF F, k
<1>5. [F[k] EXCEPT !.file = f] \in Entry
  BY <1>3 DEF Entry
<1>6. [F[k] EXCEPT !.file = f].children = F[k].children
      /\ [F[k] EXCEPT !.file = f].handles = F[k].handles
      /\ [F[k] EXCEPT !.file = f].file = f
      /\ [F[k] EXCEPT !.file = f] # None
      /\ F[k] # None
  BY <1>3, <1>5, NoneAssumption DEF Entry
<1>7. t \in [Keys -> Entry \cup {None}]
  BY <1>1, <1>3, <1>5
<1>8. /\ \A q \in Keys : /\ t[q] = None <=> F[q] = None
                         /\ t[q] # None => t[q].children = F[q].children
                                           /\ t[q].handles = F[q].handles
                         /\ q # k => t[q] = F[q]
      /\ t[k].file = F[k].file \/ (f \in Files /\ t[k].file = f)
  <2>1. CASE refused
    BY <2>1
  <2>2. CASE ~refused
    <3>1. t = [F EXCEPT ![k] = [F[k] EXCEPT !.file = f]]
      BY <2>2
    <3> QED
      BY <1>1, <1>3, <1>6, <3>1
  <2> QED
    BY <2>1, <2>2
<1> HIDE DEF t
<1>9. /\ \A q \in Keys : /\ t[q] = None <=> Forced(k)[q] = None
                         /\ t[q] # None => t[q].children = Forced(k)[q].children
                                           /\ t[q].handles = Forced(k)[q].handles
                         /\ q # k => t[q] = Forced(k)[q]
      /\ t[k].file = Forced(k)[k].file \/ (f \in Files /\ t[k].file = f)
  BY <1>8 DEF F
<1>10. /\ IInv'
       /\ \A q \in Keys : tree[q] # None =>
            tree'[q].file = tree[q].file \/ (f \in Files /\ q = k /\ tree'[q].file = f)
  <2>1. /\ tree' \in [Keys -> Entry \cup {None}]
        /\ \A q \in Keys : /\ tree'[q] = None <=> Forced(k)[q] = None
                           /\ tree'[q] # None => tree'[q].children = Forced(k)[q].children
                                                 /\ tree'[q].handles = Forced(k)[q].handles
                           /\ q # k => tree'[q] = Forced(k)[q]
        /\ tree'[k].file = Forced(k)[k].file \/ (f \in Files /\ tree'[k].file = f)
    BY <1>4, <1>7, <1>9
  <2> QED
    BY <1>0, <1>1, <1>4, <2>1, RegisterIInv
<1> QED
  BY <1>0, <1>10

\* A new directory's entry, and those on the way to it, come without handles.
LEMMA NewDirectoryIInv ==
  ASSUME IInv, NEW d \in Dirs, NewDirectory(d)
  PROVE  IInv' /\ KeepsFiles
<1> DEFINE k == EntryKey(PathOf[d])
           F == Forced(k)
           t == [F EXCEPT ![k].dir = d]
<1>1. k \in Keys /\ d \in Objects
  BY KeysProperties, PathsAssumption DEF Objects
<1>2. k \in Prefixes(k)
  <2>1. k \in Seq(Names) /\ Len(k) \in Nat
    BY <1>1, KeysProperties
  <2>2. k = SubSeq(k, 1, Len(k)) /\ Len(k) \in 0..Len(k)
    BY <2>1, SubSeqFull
  <2> QED
    BY <2>2 DEF Prefixes
<1>3. F \in [Keys -> Entry \cup {None}] /\ F[k] \in Entry
  BY <1>1, <1>2, ForcedProperties DEF IInv
<1>4. /\ life[d] = "unborn"
      /\ life' = [life EXCEPT ![d] = "live"]
      /\ tree' = t
      /\ UNCHANGED <<handles_, sessions, fds, status>>
  BY DEF NewDirectory
<1>0. k = EntryKey(PathOf[d])
  OBVIOUS
<1> HIDE DEF F, k
<1>5. [F[k] EXCEPT !.dir = d] \in Entry
  BY <1>3 DEF Entry
<1>6. [F[k] EXCEPT !.dir = d].children = F[k].children
      /\ [F[k] EXCEPT !.dir = d].handles = F[k].handles
      /\ [F[k] EXCEPT !.dir = d].file = F[k].file
      /\ [F[k] EXCEPT !.dir = d] # None
      /\ F[k] # None
  BY <1>3, <1>5, NoneAssumption DEF Entry
<1>7. t = [F EXCEPT ![k] = [F[k] EXCEPT !.dir = d]]
  OBVIOUS
<1>8. t \in [Keys -> Entry \cup {None}]
  BY <1>1, <1>3, <1>5, <1>7
<1>9. \A q \in Keys : /\ t[q] = None <=> F[q] = None
                      /\ t[q] # None => t[q].children = F[q].children
                                        /\ t[q].handles = F[q].handles
                      /\ q # k => t[q] = F[q]
  BY <1>1, <1>3, <1>6, <1>7
<1>10. t[k].file = F[k].file
  <2>1. t[k] = [F[k] EXCEPT !.dir = d]
    BY <1>1, <1>3, <1>7
  <2> HIDE DEF t
  <2> QED
    BY <1>6, <2>1
<1> HIDE DEF t
<1> QED
  <2>1. /\ tree' \in [Keys -> Entry \cup {None}]
        /\ \A q \in Keys : /\ tree'[q] = None <=> Forced(k)[q] = None
                           /\ tree'[q] # None => tree'[q].children = Forced(k)[q].children
                                                 /\ tree'[q].handles = Forced(k)[q].handles
                           /\ q # k => tree'[q] = Forced(k)[q]
        /\ tree'[k].file = Forced(k)[k].file \/ (d \in Files /\ tree'[k].file = d)
    BY <1>4, <1>8, <1>9, <1>10 DEF F
  <2>2. /\ IInv'
        /\ \A q \in Keys : tree[q] # None =>
             tree'[q].file = tree[q].file \/ (d \in Files /\ q = k /\ tree'[q].file = d)
    BY <1>0, <1>1, <1>4, <2>1, RegisterIInv, ZenonT(60)
  <2>3. d \notin Files
    BY ObjectsAssumption
  <2> QED
    BY <2>2, <2>3 DEF KeepsFiles

\* Taking out an entry that has neither children nor handles leaves the rest linked.
LEMMA WithoutTree ==
  ASSUME IInv, NEW k \in Keys, Removable(k), tree' = Without(k)
  PROVE  /\ tree' \in [Keys -> Entry \cup {None}]
         /\ TreeLinked'
         /\ tree[k] # None
         /\ tree'[k] = None
         /\ \A q \in Keys \ {k} : /\ tree'[q] = None <=> tree[q] = None
                                  /\ tree[q] # None =>
                                       /\ tree'[q].file = tree[q].file
                                       /\ tree'[q].dir = tree[q].dir
                                       /\ tree'[q].handles = tree[q].handles
                                       /\ tree'[q].children = {} => tree[q].children = {}
<1> USE DEF IInv
<1> DEFINE p == ParentKey(k)
           n == NameOf(k)
           e == [tree[p] EXCEPT !.children = (@ \ {n}) \cup {None}]
<1>1. k # Root /\ tree[k].children = {} /\ tree[k].handles = {} /\ tree[k] # None
  BY FoundIsPresent DEF Removable
<1>2. p \in Keys /\ p # k /\ n \in Names /\ None \notin Names
  BY <1>1, ParentProperties, ObjectsAssumption
<1>3. tree[p] # None /\ tree[p] \in Entry
  BY <1>1, <1>2 DEF TreeLinked, TypeOK
<1>4. e \in Entry
  BY <1>2, <1>3 DEF Entry
<1>5. /\ e # None
      /\ e.file = tree[p].file
      /\ e.dir = tree[p].dir
      /\ e.handles = tree[p].handles
      /\ e.children = (tree[p].children \ {n}) \cup {None}
  BY <1>3, <1>4, NoneAssumption DEF Entry
<1>6. /\ tree'[k] = None
      /\ tree'[p] = e
      /\ \A q \in Keys \ {k, p} : tree'[q] = tree[q]
  BY <1>2 DEF Without, TypeOK
<1>7. tree' \in [Keys -> Entry \cup {None}]
  <2>1. \A q \in Keys : tree'[q] \in Entry \cup {None}
    BY <1>4, <1>6 DEF TypeOK
  <2>2. tree' = [q \in Keys |-> tree'[q]]
    BY DEF Without, TypeOK
  <2> QED
    BY <2>1, <2>2
<1> HIDE DEF e
<1>8. TreeLinked'
  <2>1. tree'[Root] # None
    BY <1>1, <1>5, <1>6 DEF TreeLinked, Keys
  <2>2. ASSUME NEW q \in Keys \ {Root}
        PROVE  tree'[q] # None <=> /\ tree'[ParentKey(q)] # None
                                   /\ NameOf(q) \in tree'[ParentKey(q)].children
    <3>1. /\ tree[q] # None <=> /\ tree[ParentKey(q)] # None
                                /\ NameOf(q) \in tree[ParentKey(q)].children
          /\ ParentKey(q) \in Keys
          /\ NameOf(q) \in Names
      BY ParentProperties DEF TreeLinked
    <3>2. CASE q = k
      BY <1>2, <1>5, <1>6, <3>2
    <3>3. CASE ParentKey(q) = k
      <4>1. q # k /\ tree[q] = None
        BY <1>1, <1>2, <3>1, <3>3
      <4> QED
        BY <1>3, <1>6, <3>3, <4>1
    <3>4. CASE q # k /\ ParentKey(q) = p
      <4>1. NameOf(q) # n
        BY <1>1, <3>4, ParentAndNameDetermine
      <4>2. tree'[q] # None <=> tree[q] # None
        BY <1>3, <1>5, <1>6, <3>4
      <4> QED
        BY <1>2, <1>3, <1>5, <1>6, <3>1, <3>4, <4>1, <4>2
    <3>5. CASE q # k /\ ParentKey(q) # k /\ ParentKey(q) # p
      BY <1>3, <1>5, <1>6, <3>1, <3>5
    <3> QED
      BY <3>2, <3>3, <3>4, <3>5
  <2> QED
    BY <2>1, <2>2 DEF TreeLinked
<1> QED
  BY <1>1, <1>3, <1>5, <1>6, <1>7, <1>8

\* An entry is removed only if no slot leads to it and nothing is below it.
LEMMA DestroyObjectIInv ==
  ASSUME IInv, NEW o \in Objects, DestroyObject(o)
  PROVE  IInv' /\ KeepsFiles
<1> DEFINE k == EntryKey(PathOf[o])
<1>1. k \in Keys
  BY KeysProperties, PathsAssumption
<1>2. /\ life' = [life EXCEPT ![o] = "dead"]
      /\ tree' = IF Removable(k) THEN Without(k) ELSE tree
      /\ sessions' = [f \in Files |-> IF f = o THEN {} ELSE sessions[f]]
      /\ UNCHANGED <<handles_, fds, status>>
  BY DEF DestroyObject
<1> HIDE DEF k
<1>3. /\ tree' \in [Keys -> Entry \cup {None}]
      /\ TreeLinked'
      /\ \A q \in Keys : tree'[q] # None => /\ tree[q] # None
                                            /\ tree'[q].file = tree[q].file
                                            /\ tree'[q].handles = tree[q].handles
      /\ \A q \in Keys : tree[q] # None /\ tree'[q] = None => tree[q].handles = {}
  <2>1. CASE Removable(k)
    <3>1. tree' = Without(k) /\ tree[k].handles = {}
      BY <1>2, <2>1 DEF Removable
    <3> QED
      BY <1>1, <2>1, <3>1, WithoutTree
  <2>2. CASE ~Removable(k)
    <3>1. tree' = tree
      BY <1>2, <2>2
    <3> QED
      BY <3>1, TreeStaysLinked DEF IInv, TypeOK
  <2> QED
    BY <2>1, <2>2
<1> USE DEF IInv
<1>4. OpenFids' = OpenFids /\ handles_' = handles_
  BY <1>2 DEF OpenFids
<1>5. TypeOK'
  BY <1>2, <1>3 DEF TypeOK
<1>6. \A i \in OpenFids : tree'[handles_[i + 1]] # None
  <2>1. ASSUME NEW i \in OpenFids
        PROVE  tree'[handles_[i + 1]] # None
    <3> DEFINE q == handles_[i + 1]
    <3>1. q \in Keys /\ tree[q] # None /\ i # -1
      BY OpenFidsProperties DEF HandlesAgree
    <3>2. i \in tree[q].handles
      BY <3>1 DEF HandlesAgree
    <3> QED
      BY <1>3, <3>1, <3>2
  <2> QED
    BY <2>1
<1>7. HandlesAgree'
  <2>1. \A q \in Keys : tree'[q] # None =>
          tree'[q].handles \ {-1} = {i \in OpenFids' : handles_'[i + 1] = q}
    BY <1>3, <1>4 DEF HandlesAgree
  <2> QED
    BY <1>4, <1>6, <2>1 DEF HandlesAgree
<1>8. FilesInPlace'
  <2>1. ASSUME NEW q \in Keys, tree'[q] # None, tree'[q].file # None
        PROVE  EntryKey(PathOf[tree'[q].file]) = q /\ life'[tree'[q].file] # "unborn"
    <3>1. tree[q] # None /\ tree'[q].file = tree[q].file
      BY <1>3, <2>1
    <3>2. tree[q].file \in Objects
      BY <2>1, <3>1 DEF TypeOK, Entry, Objects
    <3>3. EntryKey(PathOf[tree[q].file]) = q /\ life[tree[q].file] # "unborn"
      BY <2>1, <3>1 DEF FilesInPlace
    <3> QED
      BY <1>2, <3>1, <3>2, <3>3 DEF TypeOK
  <2>2. \A i \in OpenFids' : tree'[handles_'[i + 1]].file # None
    BY <1>3, <1>4, <1>6, OpenFidsProperties DEF FilesInPlace
  <2> QED
    BY <2>1, <2>2 DEF FilesInPlace
<1>9. FdFaithful => FdFaithful'
  BY <1>2, <1>4 DEF FdFaithful, SlotOf
<1> QED
  BY <1>3, <1>5, <1>7, <1>8, <1>9, <1>3 DEF KeepsFiles
------------------------------------------------------------------------------
(* The theorems *)

\* Every step of the file system is one that changes what it says it changes.
LEMMA StepIInv == IInv /\ [Next]_vars => IInv'
<1> SUFFICES ASSUME IInv, [Next]_vars PROVE IInv'
  OBVIOUS
<1>0. status \in {"up", "aborted", "undefined", "down"}
  BY DEF IInv, TypeOK
<1> DEFINE quiet == /\ UNCHANGED core
                    /\ status' \in {"up", "aborted", "undefined", "down"}
<1>1. ASSUME quiet PROVE IInv'
  BY <1>1, FdsStep DEF core
<1> HIDE DEF quiet
<1>2. ASSUME NEW p \in Paths,
             OpenRefused(p) \/ OpenFaults(p) \/ ReadDirectory(p) \/ ReadMetadata(p)
      PROVE  quiet
  BY <1>0, <1>2
     DEF OpenRefused, OpenFaults, ReadDirectory, ReadMetadata, Return, Stop, core, quiet
<1>3. ASSUME NEW c \in Clients, CloseFaults(c) \/ AccessFile(c)
      PROVE  quiet
  BY <1>0, <1>3 DEF CloseFaults, AccessFile, Return, Stop, core, quiet
<1>4. ASSUME DestroyFileSystem \/ Stopped \/ UNCHANGED vars
      PROVE  quiet
  BY <1>0, <1>4 DEF DestroyFileSystem, Stopped, Stop, core, vars, quiet
<1>5. ASSUME NEW c \in Clients, CloseUnknown(c)
      PROVE  IInv'
  BY <1>0, <1>5, FdsStep DEF CloseUnknown
<1> QED
  BY <1>1, <1>2, <1>3, <1>4, <1>5, OpenFileIInv, OpenFailsIInv, CloseFileIInv,
     NewFileIInv, NewDirectoryIInv, DestroyObjectIInv
     DEF Next

\* The invariant holds in every state, for every program and every use of handles.
THEOREM Invariance == Spec => []IInv
<1> QED
  BY InitIInv, StepIInv, PTL DEF Spec

\* Every variable keeps its type, for any program and any callers.
THEOREM TypeCorrect == Spec => []TypeOK
<1>1. IInv => TypeOK
  BY DEF IInv
<1> QED
  BY <1>1, Invariance, PTL

\* Every entry is among the children of its parent and every child has its entry: the
\* assert of ~Entry holds, and nothing is ever stranded below a removed entry.
THEOREM TreeStaysWhole == Spec => []TreeLinked
<1>1. IInv => TreeLinked
  BY DEF IInv
<1> QED
  BY <1>1, Invariance, PTL

\* No slot of the handle table points to a removed entry, and table and entries list the
\* same handles, even for callers that close twice or never opened.
THEOREM HandlesStayInAgreement == Spec => []HandlesAgree
<1>1. IInv => HandlesAgree
  BY DEF IInv
<1> QED
  BY <1>1, Invariance, PTL

\* For callers that close each handle once, no two hold the same handle and each leads to
\* the entry it was opened on.
THEOREM HandlesStayFaithful ==
  ASSUME HandleUse = "once"
  PROVE  Spec => []FdFaithful
<1>1. IInv => FdFaithful
  BY DEF IInv
<1> QED
  BY <1>1, Invariance, PTL
------------------------------------------------------------------------------
(* What each step does to the tree *)

\* A step that sets the handles of the entry at k and nothing else.
Relists(k, hs) ==
  \A q \in Keys :
    /\ tree'[q] = None <=> tree[q] = None
    /\ tree[q] # None => /\ tree'[q].file = tree[q].file
                         /\ tree'[q].dir = tree[q].dir
                         /\ tree'[q].children = tree[q].children
                         /\ tree'[q].handles = IF q = k THEN hs ELSE tree[q].handles

\* What writing an entry's vector of handles does to the tree.
LEMMA HandlesSet ==
  ASSUME TypeOK, NEW k \in Keys, tree[k] # None, NEW hs \in SUBSET (Nat \cup {-1}),
         tree' = [tree EXCEPT ![k].handles = hs]
  PROVE  Relists(k, hs)
<1>1. tree[k] \in Entry
  BY DEF TypeOK
<1>2. tree'[k] = [tree[k] EXCEPT !.handles = hs] /\ \A q \in Keys \ {k} : tree'[q] = tree[q]
  BY DEF TypeOK
<1>3. /\ tree'[k] # None /\ tree'[k].handles = hs /\ tree'[k].children = tree[k].children
      /\ tree'[k].file = tree[k].file /\ tree'[k].dir = tree[k].dir
  <2> DEFINE n == [tree[k] EXCEPT !.handles = hs]
  <2>1. n \in Entry /\ n # None /\ n.handles = hs /\ n.children = tree[k].children
        /\ n.file = tree[k].file /\ n.dir = tree[k].dir
    BY <1>1, HandlesUpdate
  <2> HIDE DEF n
  <2>2. tree'[k] = n
    BY <1>2 DEF n
  <2> QED
    BY <2>1, <2>2
<1> QED
  BY <1>2, <1>3 DEF Relists

\* What an entry that may not be there yet is.
OldFile(q) == IF tree[q] = None THEN None ELSE tree[q].file
OldDir(q) == IF tree[q] = None THEN None ELSE tree[q].dir

\* A step that creates what is missing on the way to k and may set what is at k.
Grows(k) ==
  \A q \in Keys :
    /\ tree'[q] # None <=> tree[q] # None \/ q \in Prefixes(k)
    /\ tree[q] # None => /\ tree'[q].handles = tree[q].handles
                         /\ tree[q].children \subseteq tree'[q].children
    /\ tree'[q] # None /\ q # k => tree'[q].file = OldFile(q) /\ tree'[q].dir = OldDir(q)

\* What a forced search adds: the entries on its way, and no handle, file or directory.
LEMMA ForcedGrows ==
  ASSUME TypeOK, NEW k \in Keys
  PROVE  \A q \in Keys :
           /\ Forced(k)[q] # None <=> tree[q] # None \/ q \in Prefixes(k)
           /\ tree[q] # None => /\ Forced(k)[q].handles = tree[q].handles
                                /\ tree[q].children \subseteq Forced(k)[q].children
           /\ Forced(k)[q] # None => /\ Forced(k)[q].file = OldFile(q)
                                     /\ Forced(k)[q].dir = OldDir(q)
<1>1. \A q \in Keys \ Prefixes(k) : Forced(k)[q] = tree[q]
  BY ForcedProperties
<1>2. \A q \in Prefixes(k) :
        /\ Forced(k)[q] # None
        /\ Forced(k)[q].file = OldFile(q)
        /\ Forced(k)[q].dir = OldDir(q)
        /\ tree[q] # None => /\ Forced(k)[q].handles = tree[q].handles
                             /\ tree[q].children \subseteq Forced(k)[q].children
  BY ForcedProperties, NoneAssumption, SMTT(40) DEF NewEntry, OldFile, OldDir
<1> QED
  BY <1>1, <1>2 DEF OldFile, OldDir

\* The way to an entry ends at the entry.
LEMMA KeyIsItsPrefix ==
  ASSUME NEW k \in Keys
  PROVE  k \in Prefixes(k)
<1>1. k \in Seq(Names) /\ Len(k) \in Nat
  BY KeysProperties
<1>2. k = SubSeq(k, 1, Len(k)) /\ Len(k) \in 0..Len(k)
  BY <1>1, SubSeqFull
<1> QED
  BY <1>2 DEF Prefixes

\* A registration that is refused keeps the entries made on the way to it.
LEMMA NewFileGrows ==
  ASSUME TypeOK, NEW f \in Files, NewFile(f)
  PROVE  LET k == EntryKey(PathOf[f]) IN
         k \in Keys /\ Grows(k) /\ tree'[k].file \in {OldFile(k), f} /\ tree'[k].dir = OldDir(k)
<1> DEFINE k == EntryKey(PathOf[f])
           F == Forced(k)
           refused == F[k].children # {} \/ F[k].dir # None
<1>1. k \in Keys /\ k \in Prefixes(k)
  BY KeysProperties, PathsAssumption, KeyIsItsPrefix DEF Objects
<1>2. F \in [Keys -> Entry \cup {None}] /\ F[k] \in Entry
  BY <1>1, ForcedProperties
<1>3. tree' = IF refused THEN F ELSE [F EXCEPT ![k].file = f]
  BY DEF NewFile
<1>4. \A q \in Keys :
        /\ F[q] # None <=> tree[q] # None \/ q \in Prefixes(k)
        /\ tree[q] # None => /\ F[q].handles = tree[q].handles
                             /\ tree[q].children \subseteq F[q].children
        /\ F[q] # None => F[q].file = OldFile(q) /\ F[q].dir = OldDir(q)
  BY <1>1, ForcedGrows
<1> HIDE DEF F, k, refused
<1> DEFINE goal == Grows(k) /\ tree'[k].file \in {OldFile(k), f} /\ tree'[k].dir = OldDir(k)
<1>5. CASE refused
  <2>1. goal
    BY <1>1, <1>3, <1>4, <1>5 DEF Grows
  <2> QED
    BY <1>1, <2>1 DEF k
<1>6. CASE ~refused
  <2>1. [F[k] EXCEPT !.file = f] \in Entry
    BY <1>2 DEF Entry
  <2>2. /\ [F[k] EXCEPT !.file = f] # None
        /\ [F[k] EXCEPT !.file = f].file = f
        /\ [F[k] EXCEPT !.file = f].dir = F[k].dir
        /\ [F[k] EXCEPT !.file = f].handles = F[k].handles
        /\ [F[k] EXCEPT !.file = f].children = F[k].children
    BY <1>2, <2>1, NoneAssumption DEF Entry
  <2>3. tree'[k] = [F[k] EXCEPT !.file = f] /\ \A q \in Keys \ {k} : tree'[q] = F[q]
    BY <1>1, <1>2, <1>3, <1>6
  <2>4. F[k] # None
    BY <1>2, NoneAssumption
  <2> DEFINE n == [F[k] EXCEPT !.file = f]
  <2> HIDE DEF n
  <2>5. /\ tree'[k] = n /\ n # None /\ n.file = f /\ n.dir = F[k].dir
        /\ n.handles = F[k].handles /\ n.children = F[k].children
    BY <2>2, <2>3 DEF n
  <2>6. Grows(k)
    <3>1. ASSUME NEW q \in Keys \ {k}
          PROVE  tree'[q] = F[q]
      BY <2>3
    <3> QED
      BY <1>1, <1>4, <2>4, <2>5, <3>1 DEF Grows
  <2>7. goal
    BY <1>1, <1>4, <2>4, <2>5, <2>6
  <2> QED
    BY <1>1, <2>7 DEF k
<1> QED
  BY <1>5, <1>6

\* addDirectory never refuses.
LEMMA NewDirectoryGrows ==
  ASSUME TypeOK, NEW d \in Dirs, NewDirectory(d)
  PROVE  LET k == EntryKey(PathOf[d]) IN
         k \in Keys /\ Grows(k) /\ tree'[k].file = OldFile(k) /\ tree'[k].dir = d
<1> DEFINE k == EntryKey(PathOf[d])
           F == Forced(k)
<1>1. k \in Keys /\ k \in Prefixes(k)
  BY KeysProperties, PathsAssumption, KeyIsItsPrefix DEF Objects
<1>2. F \in [Keys -> Entry \cup {None}] /\ F[k] \in Entry
  BY <1>1, ForcedProperties
<1>3. tree' = [F EXCEPT ![k].dir = d]
  BY DEF NewDirectory
<1>4. \A q \in Keys :
        /\ F[q] # None <=> tree[q] # None \/ q \in Prefixes(k)
        /\ tree[q] # None => /\ F[q].handles = tree[q].handles
                             /\ tree[q].children \subseteq F[q].children
        /\ F[q] # None => F[q].file = OldFile(q) /\ F[q].dir = OldDir(q)
  BY <1>1, ForcedGrows
<1> HIDE DEF F, k
<1>5. [F[k] EXCEPT !.dir = d] \in Entry
  BY <1>2 DEF Entry
<1>6. /\ [F[k] EXCEPT !.dir = d] # None
      /\ [F[k] EXCEPT !.dir = d].file = F[k].file
      /\ [F[k] EXCEPT !.dir = d].dir = d
      /\ [F[k] EXCEPT !.dir = d].handles = F[k].handles
      /\ [F[k] EXCEPT !.dir = d].children = F[k].children
  BY <1>2, <1>5, NoneAssumption DEF Entry
<1>7. tree'[k] = [F[k] EXCEPT !.dir = d] /\ \A q \in Keys \ {k} : tree'[q] = F[q]
  BY <1>1, <1>2, <1>3
<1>8. F[k] # None
  BY <1>2, NoneAssumption
<1> DEFINE n == [F[k] EXCEPT !.dir = d]
<1> HIDE DEF n
<1>9. /\ tree'[k] = n /\ n # None /\ n.dir = d /\ n.file = F[k].file
      /\ n.handles = F[k].handles /\ n.children = F[k].children
  BY <1>6, <1>7 DEF n
<1>10. Grows(k)
  <2>1. ASSUME NEW q \in Keys \ {k}
        PROVE  tree'[q] = F[q]
    BY <1>7
  <2> QED
    BY <1>1, <1>4, <1>8, <1>9, <2>1 DEF Grows
<1>11. tree'[k].file = OldFile(k) /\ tree'[k].dir = d
  BY <1>1, <1>4, <1>8, <1>9
<1> QED
  BY <1>1, <1>10, <1>11 DEF k

\* What an open, a failed open and a close do to the entry of the handle.
LEMMA OpenFileRelists ==
  ASSUME IInv, NEW c \in Clients, NEW path \in Paths, OpenFile(c, path) \/ OpenFails(c, path)
  PROVE  \E k \in Keys : \E hs : Relists(k, hs) /\ hs # {}
<1> DEFINE k == EntryKey(path)
<1>1. k \in Keys
  BY KeysProperties
<1>2. tree[k] # None
  BY <1>1, FoundIsPresent DEF OpenFile, OpenFails, IInv
<1>3. PICK fid \in Nat \cup {-1} : tree' = [tree EXCEPT ![k].handles = @ \cup {fid}]
  <2>1. \A i \in 0..Len(handles_) : i \in Nat
    BY LenProperties DEF IInv, TypeOK
  <2>2. CASE OpenFile(c, path)
    BY <2>1, <2>2 DEF OpenFile
  <2>3. CASE OpenFails(c, path)
    BY <2>3 DEF OpenFails
  <2> QED
    BY <2>2, <2>3
<1> DEFINE hs == tree[k].handles \cup {fid}
<1>4. tree[k].handles \in SUBSET (Nat \cup {-1})
  BY <1>1, <1>2 DEF IInv, TypeOK, Entry
<1>5. hs \in SUBSET (Nat \cup {-1}) /\ hs # {}
  BY <1>4
<1>6. tree' = [tree EXCEPT ![k].handles = hs]
  BY <1>3
<1> HIDE DEF k, hs
<1> QED
  BY <1>1, <1>2, <1>5, <1>6, HandlesSet DEF IInv

\* A close rewrites one vector, and never empties it: what is closed stays in it as -1.
LEMMA CloseFileRelists ==
  ASSUME IInv, NEW c \in Clients, CloseFile(c)
  PROVE  \E k \in Keys : \E hs : Relists(k, hs) /\ (hs = {} => tree[k].handles = {})
<1> DEFINE k == handles_[SlotOf(c)]
           hs == ReleasedFrom(tree[k].handles, fds[c].fid)
<1>1. fds[c].fid \in OpenFids /\ tree' = [tree EXCEPT ![k].handles = hs]
  BY DEF CloseFile, Leads
<1>2. k \in Keys /\ tree[k] # None
  BY <1>1, OpenFidsProperties DEF SlotOf, IInv, HandlesAgree
<1>3. tree[k].handles \in SUBSET (Nat \cup {-1})
  BY <1>2 DEF IInv, TypeOK, Entry
<1>4. hs \in SUBSET (Nat \cup {-1}) /\ (hs = {} => tree[k].handles = {})
  BY <1>3 DEF ReleasedFrom
<1> HIDE DEF k, hs
<1> QED
  BY <1>1, <1>2, <1>4, HandlesSet DEF IInv

\* All that can happen to the tree.
TreeStep ==
  \/ UNCHANGED <<tree, life>>
  \/ life' = life /\ \E k \in Keys : \E hs : Relists(k, hs) /\ (hs = {} => tree[k].handles = {})
  \/ \E f \in Files : NewFile(f)
  \/ \E d \in Dirs : NewDirectory(d)
  \/ \E o \in Objects : DestroyObject(o)

\* All that a step can do to the tree: one vector, one registration, one object's end.
LEMMA StepsOfTheTree == IInv /\ [Next]_vars => TreeStep
<1> SUFFICES ASSUME IInv, [Next]_vars PROVE TreeStep
  OBVIOUS
<1>1. ASSUME NEW p \in Paths,
             OpenRefused(p) \/ OpenFaults(p) \/ ReadDirectory(p) \/ ReadMetadata(p)
      PROVE  UNCHANGED <<tree, life>>
  BY <1>1 DEF OpenRefused, OpenFaults, ReadDirectory, ReadMetadata, Return, Stop
<1>2. ASSUME NEW c \in Clients, CloseFaults(c) \/ AccessFile(c) \/ CloseUnknown(c)
      PROVE  UNCHANGED <<tree, life>>
  BY <1>2 DEF CloseFaults, AccessFile, CloseUnknown, Return, Stop
<1>3. ASSUME DestroyFileSystem \/ Stopped \/ UNCHANGED vars
      PROVE  UNCHANGED <<tree, life>>
  BY <1>3 DEF DestroyFileSystem, Stopped, Stop, vars
<1>4. ASSUME NEW c \in Clients, NEW p \in Paths, OpenFile(c, p) \/ OpenFails(c, p)
      PROVE  TreeStep
  <2>1. life' = life
    BY <1>4 DEF OpenFile, OpenFails
  <2> QED
    BY <1>4, <2>1, OpenFileRelists DEF TreeStep
<1>5. ASSUME NEW c \in Clients, CloseFile(c)
      PROVE  TreeStep
  <2>1. life' = life
    BY <1>5 DEF CloseFile
  <2> QED
    BY <1>5, <2>1, CloseFileRelists DEF TreeStep
<1> QED
  BY <1>1, <1>2, <1>3, <1>4, <1>5 DEF Next, TreeStep
------------------------------------------------------------------------------
(* Which entries stay *)

\* With an entry come all those above it.
PrefixesPresent == \A q \in Keys : tree[q] # None => \A p \in Prefixes(q) : tree[p] # None

\* What is above an entry's ancestor is above the entry.
LEMMA PrefixesTransitive ==
  ASSUME NEW k \in Keys, NEW q \in Prefixes(k), NEW p \in Prefixes(q)
  PROVE  p \in Prefixes(k)
<1>1. k \in Seq(Names) /\ Len(k) \in Nat /\ Len(q) \in 0..Len(k) /\ q = SubSeq(k, 1, Len(q))
  BY KeysProperties, PrefixDescends
<1>2. PICK m \in 0..Len(q) : p = SubSeq(q, 1, m)
  BY DEF Prefixes
<1>3. p = SubSeq(k, 1, m) /\ m \in 0..Len(k)
  BY <1>1, <1>2, PrefixOfPrefix
<1> QED
  BY <1>3 DEF Prefixes

\* So getEntry finds every entry there is.
LEMMA PresentIsFound ==
  ASSUME PrefixesPresent, TreeLinked, NEW k \in Keys, tree[k] # None
  PROVE  Found(k)
<1> SUFFICES ASSUME NEW n \in 1..Len(k)
             PROVE  LET p == SubSeq(k, 1, n - 1) IN tree[p] # None /\ k[n] \in tree[p].children
  BY DEF Found
<1> DEFINE p == SubSeq(k, 1, n)
<1>1. k \in Seq(Names) /\ Len(k) \in Nat /\ n \in 0..Len(k) /\ n - 1 \in 0..n
  BY KeysProperties
<1>2. p \in Prefixes(k)
  BY <1>1 DEF Prefixes
<1>3. Len(p) = n
  BY <1>1, PrefixProperties
<1>4. p \in Keys /\ p # Root /\ NameOf(p) = k[n] /\ tree[p] # None
  <2> HIDE DEF p
  <2>1. p \in Keys /\ tree[p] # None
    BY <1>2, PrefixDescends DEF PrefixesPresent
  <2>2. p # Root
    BY <1>1, <1>3, <2>1, RootLength
  <2> QED
    BY <1>2, <1>3, <2>1, <2>2, PrefixDescends
<1>5. ParentKey(p) = SubSeq(k, 1, n - 1)
  BY <1>1, <1>3, PrefixOfPrefix DEF ParentKey
<1> HIDE DEF p
<1>6. tree[ParentKey(p)] # None /\ NameOf(p) \in tree[ParentKey(p)].children
  BY <1>4 DEF TreeLinked
<1> QED
  BY <1>4, <1>5, <1>6

\* Nothing is left below an entry that has no children.
LEMMA NothingBelow ==
  ASSUME PrefixesPresent, TreeLinked, NEW k \in Keys, tree[k].children = {},
         NEW q \in Keys, tree[q] # None, q # k
  PROVE  k \notin Prefixes(q)
<1> SUFFICES ASSUME k \in Prefixes(q) PROVE FALSE
  OBVIOUS
<1> DEFINE n == Len(k) + 1
           c == SubSeq(q, 1, n)
<1>1. /\ q \in Seq(Names) /\ Len(q) \in Nat /\ Len(k) \in 0..Len(q) /\ Len(k) < Len(q)
      /\ k = SubSeq(q, 1, Len(k))
  BY KeysProperties, PrefixDescends
<1>2. n \in 0..Len(q) /\ n - 1 \in 0..n /\ n - 1 = Len(k) /\ n # 0
  BY <1>1, SMTT(40)
<1>3. c \in Prefixes(q)
  BY <1>2 DEF Prefixes
<1>4. Len(c) = n
  BY <1>1, <1>2, PrefixProperties
<1> HIDE DEF n
<1>5. c \in Keys /\ c # Root /\ tree[c] # None
  BY <1>2, <1>3, <1>4, PrefixDescends, RootLength DEF PrefixesPresent
<1>6. ParentKey(c) = k
  BY <1>1, <1>2, <1>4, PrefixOfPrefix DEF ParentKey
<1> HIDE DEF c
<1> QED
  BY <1>5, <1>6 DEF TreeLinked

\* What is left of a tree after an object's end.
LEMMA DestroyObjectTree ==
  ASSUME IInv, NEW o \in Objects, DestroyObject(o)
  PROVE  LET k == EntryKey(PathOf[o]) IN
         /\ k \in Keys
         /\ \/ ~Removable(k) /\ tree' = tree
            \/ Removable(k) /\ tree[k] # None /\ tree'[k] = None
         /\ \A q \in Keys \ {k} :
              /\ tree'[q] = None <=> tree[q] = None
              /\ tree[q] # None => /\ tree'[q].file = tree[q].file
                                   /\ tree'[q].dir = tree[q].dir
                                   /\ tree'[q].handles = tree[q].handles
                                   /\ tree'[q].children = {} => tree[q].children = {}
<1> DEFINE k == EntryKey(PathOf[o])
<1>1. k \in Keys
  BY KeysProperties, PathsAssumption
<1>2. tree' = IF Removable(k) THEN Without(k) ELSE tree
  BY DEF DestroyObject
<1> HIDE DEF k
<1> DEFINE goal ==
      /\ \/ ~Removable(k) /\ tree' = tree
         \/ Removable(k) /\ tree[k] # None /\ tree'[k] = None
      /\ \A q \in Keys \ {k} :
           /\ tree'[q] = None <=> tree[q] = None
           /\ tree[q] # None => /\ tree'[q].file = tree[q].file
                                /\ tree'[q].dir = tree[q].dir
                                /\ tree'[q].handles = tree[q].handles
                                /\ tree'[q].children = {} => tree[q].children = {}
<1>3. ASSUME Removable(k) PROVE goal
  <2>1. tree' = Without(k)
    BY <1>2, <1>3
  <2> QED
    BY <1>1, <1>3, <2>1, WithoutTree
<1>4. ASSUME ~Removable(k) PROVE goal
  BY <1>2, <1>4
<1>5. goal
  BY <1>3, <1>4
<1> QED
  BY <1>1, <1>5 DEF k

\* No step takes an entry from above another.
LEMMA PrefixesStep ==
  ASSUME IInv, PrefixesPresent, [Next]_vars
  PROVE  PrefixesPresent'
<1> SUFFICES ASSUME NEW q \in Keys, tree'[q] # None, NEW p \in Prefixes(q)
             PROVE  tree'[p] # None
  BY DEF PrefixesPresent
<1>1. p \in Keys
  BY PrefixDescends
<1>2. CASE UNCHANGED <<tree, life>>
  BY <1>2 DEF PrefixesPresent
<1>3. ASSUME NEW k \in Keys, NEW hs, Relists(k, hs)
      PROVE  tree'[p] # None
  BY <1>1, <1>3 DEF Relists, PrefixesPresent
<1>4. ASSUME NEW k \in Keys, Grows(k)
      PROVE  tree'[p] # None
  <2>1. CASE tree[q] # None
    BY <1>1, <1>4, <2>1 DEF Grows, PrefixesPresent
  <2>2. CASE q \in Prefixes(k)
    <3>1. p \in Prefixes(k)
      BY <2>2, PrefixesTransitive
    <3> QED
      BY <1>1, <1>4, <3>1 DEF Grows
  <2> QED
    BY <1>4, <2>1, <2>2 DEF Grows
<1>5. ASSUME NEW f \in Files, NewFile(f)
      PROVE  tree'[p] # None
  BY <1>4, <1>5, NewFileGrows DEF IInv
<1>6. ASSUME NEW d \in Dirs, NewDirectory(d)
      PROVE  tree'[p] # None
  BY <1>4, <1>6, NewDirectoryGrows DEF IInv
<1>7. ASSUME NEW o \in Objects, DestroyObject(o)
      PROVE  tree'[p] # None
  <2> DEFINE k == EntryKey(PathOf[o])
  <2>1. /\ k \in Keys
        /\ \/ ~Removable(k) /\ tree' = tree
           \/ Removable(k) /\ tree[k] # None /\ tree'[k] = None
        /\ \A r \in Keys \ {k} : tree'[r] = None <=> tree[r] = None
    BY <1>7, DestroyObjectTree
  <2> HIDE DEF k
  <2>2. CASE tree' = tree
    BY <2>2 DEF PrefixesPresent
  <2>3. CASE Removable(k) /\ tree'[k] = None
    <3>1. q # k /\ tree[q] # None
      BY <2>1, <2>3
    <3>2. k \notin Prefixes(q)
      BY <2>1, <2>3, <3>1, NothingBelow DEF Removable, IInv
    <3> QED
      BY <1>1, <2>1, <3>1, <3>2 DEF PrefixesPresent
  <2> QED
    BY <2>1, <2>2, <2>3
<1> QED
  BY <1>2, <1>3, <1>5, <1>6, <1>7, StepsOfTheTree DEF TreeStep

\* An end removes the entry at once or leaves it with a handle or a child, and neither is
\* ever taken from it afterwards.
LEMMA DeadStep ==
  ASSUME IInv, PrefixesPresent, DeadStayOnlyWhereKept, [Next]_vars
  PROVE  DeadStayOnlyWhereKept'
<1> SUFFICES ASSUME NEW q \in Keys \ {Root}, tree'[q] # None, tree'[q].file # None,
                    life'[tree'[q].file] = "dead",
                    tree'[q].handles = {}, tree'[q].children = {}
             PROVE  FALSE
  BY DEF DeadStayOnlyWhereKept
<1>1. CASE UNCHANGED <<tree, life>>
  BY <1>1 DEF DeadStayOnlyWhereKept
<1>2. ASSUME NEW k \in Keys, NEW hs, Relists(k, hs), hs = {} => tree[k].handles = {}, life' = life
      PROVE  FALSE
  <2>1. /\ tree[q] # None /\ tree[q].file = tree'[q].file /\ tree[q].children = {}
        /\ tree[q].handles = {}
    BY <1>2 DEF Relists
  <2> QED
    BY <1>2, <2>1 DEF DeadStayOnlyWhereKept
<1>3. ASSUME NEW k \in Keys, Grows(k), NEW o \in Objects, life' = [life EXCEPT ![o] = "live"],
             q = k => tree'[k].file \in {OldFile(k), o}
      PROVE  FALSE
  <2>1. tree'[q].file # o
    BY <1>3 DEF IInv, TypeOK
  <2>2. tree'[q].file = OldFile(q)
    BY <1>3, <2>1 DEF Grows
  <2>3. tree[q] # None /\ tree[q].file = tree'[q].file
    BY <2>2 DEF OldFile
  <2>4. tree[q].handles = {} /\ tree[q].children = {}
    BY <1>3, <2>3 DEF Grows
  <2>5. tree[q].file \in Objects
    BY <2>3 DEF IInv, TypeOK, Entry, Objects
  <2>6. life[tree[q].file] = "dead"
    BY <1>3, <2>1, <2>3, <2>5 DEF IInv, TypeOK
  <2> QED
    BY <2>3, <2>4, <2>6 DEF DeadStayOnlyWhereKept
<1>4. ASSUME NEW f \in Files, NewFile(f)
      PROVE  FALSE
  <2>1. f \in Objects /\ life' = [life EXCEPT ![f] = "live"]
    BY <1>4 DEF NewFile, Objects
  <2> QED
    BY <1>3, <1>4, <2>1, NewFileGrows DEF IInv
<1>5. ASSUME NEW d \in Dirs, NewDirectory(d)
      PROVE  FALSE
  <2>1. d \in Objects /\ life' = [life EXCEPT ![d] = "live"]
    BY <1>5 DEF NewDirectory, Objects
  <2> QED
    BY <1>3, <1>5, <2>1, NewDirectoryGrows DEF IInv
<1>6. ASSUME NEW o \in Objects, DestroyObject(o)
      PROVE  FALSE
  <2> DEFINE k == EntryKey(PathOf[o])
  <2>1. /\ k \in Keys
        /\ \/ ~Removable(k) /\ tree' = tree
           \/ Removable(k) /\ tree[k] # None /\ tree'[k] = None
        /\ \A r \in Keys \ {k} :
              /\ tree'[r] = None <=> tree[r] = None
              /\ tree[r] # None => /\ tree'[r].file = tree[r].file
                                   /\ tree'[r].handles = tree[r].handles
                                   /\ tree'[r].children = {} => tree[r].children = {}
    BY <1>6, DestroyObjectTree
  <2>2. life' = [life EXCEPT ![o] = "dead"]
    BY <1>6 DEF DestroyObject
  <2>3. /\ tree[q] # None /\ tree[q].file = tree'[q].file
        /\ tree[q].handles = {} /\ tree[q].children = {}
    BY <2>1
  <2>4. tree[q].file \in Objects /\ EntryKey(PathOf[tree[q].file]) = q
    BY <2>3 DEF IInv, TypeOK, Entry, Objects, FilesInPlace
  <2>5. CASE tree[q].file = o
    <3>1. q = k
      BY <2>4, <2>5
    <3>2. Found(q)
      BY <2>3, PresentIsFound DEF IInv
    <3>3. Removable(q)
      BY <2>3, <3>2 DEF Removable
    <3> QED
      BY <2>1, <3>1, <3>3
  <2>6. CASE tree[q].file # o
    BY <2>2, <2>3, <2>4, <2>6 DEF DeadStayOnlyWhereKept, IInv, TypeOK
  <2> QED
    BY <2>5, <2>6
<1> QED
  BY <1>1, <1>2, <1>4, <1>5, <1>6, StepsOfTheTree DEF TreeStep
------------------------------------------------------------------------------
(* How far the table grows *)

\* Every slot in use is that of an open handle.
SlotsAreHeld == \A i \in OpenFids : \E c \in Clients : fds[c].open /\ fds[c].fid = i

\* Only an open takes a slot, for its caller, and a caller's handle goes with its slot.
LEMMA SlotsStep ==
  ASSUME IInv, SlotsAreHeld, [Next]_vars
  PROVE  SlotsAreHeld'
<1>1. CASE UNCHANGED <<handles_, fds>>
  BY <1>1 DEF SlotsAreHeld, OpenFids
<1>2. ASSUME NEW p \in Paths,
             OpenRefused(p) \/ OpenFaults(p) \/ ReadDirectory(p) \/ ReadMetadata(p)
      PROVE  UNCHANGED <<handles_, fds>>
  BY <1>2 DEF OpenRefused, OpenFaults, ReadDirectory, ReadMetadata, Return, Stop
<1>3. ASSUME NEW c \in Clients, CloseFaults(c) \/ AccessFile(c)
      PROVE  UNCHANGED <<handles_, fds>>
  BY <1>3 DEF CloseFaults, AccessFile, Return, Stop
<1>4. ASSUME DestroyFileSystem \/ Stopped \/ UNCHANGED vars
      PROVE  UNCHANGED <<handles_, fds>>
  BY <1>4 DEF DestroyFileSystem, Stopped, Stop, vars
<1>5. ASSUME \/ \E f \in Files : NewFile(f)
             \/ \E d \in Dirs : NewDirectory(d)
             \/ \E o \in Objects : DestroyObject(o)
      PROVE  UNCHANGED <<handles_, fds>>
  BY <1>5 DEF NewFile, NewDirectory, DestroyObject
<1>6. ASSUME NEW c \in Clients, NEW path \in Paths, OpenFile(c, path)
      PROVE  SlotsAreHeld'
  <2>1. PICK fid \in 0..Len(handles_) :
          /\ NextFid(fid)
          /\ handles_' = WithSlot(fid, EntryKey(path))
          /\ fds' = [fds EXCEPT ![c] = [fid |-> fid, path |-> path, open |-> TRUE]]
    BY <1>6 DEF OpenFile
  <2>2. OpenFids' = OpenFids \cup {fid}
    BY <2>1, KeysProperties, SlotTaken DEF IInv
  <2>3. ~fds[c].open /\ fds'[c].open /\ fds'[c].fid = fid /\ \A d \in Clients \ {c} : fds'[d] = fds[d]
    BY <1>6, <2>1 DEF OpenFile, IInv, TypeOK
  <2> QED
    BY <2>2, <2>3 DEF SlotsAreHeld
<1>7. ASSUME NEW c \in Clients, NEW path \in Paths, OpenFails(c, path)
      PROVE  SlotsAreHeld'
  <2>1. OpenFids' = OpenFids
    BY <1>7, SlotTakenAndFreed DEF OpenFails, IInv
  <2>2. ~fds[c].open /\ \A d \in Clients \ {c} : fds'[d] = fds[d]
    BY <1>7 DEF OpenFails, IInv, TypeOK
  <2> QED
    BY <2>1, <2>2 DEF SlotsAreHeld
<1>8. ASSUME NEW c \in Clients, CloseFile(c)
      PROVE  SlotsAreHeld'
  <2>1. OpenFids' = OpenFids \ {fds[c].fid}
    BY <1>8, SlotFreed DEF CloseFile, Leads, SlotOf, IInv
  <2>2. \A d \in Clients \ {c} : fds'[d] = fds[d]
    BY <1>8 DEF CloseFile, IInv, TypeOK
  <2> QED
    BY <2>1, <2>2, SMTT(40) DEF SlotsAreHeld
<1>9. ASSUME NEW c \in Clients, CloseUnknown(c)
      PROVE  SlotsAreHeld'
  <2>1. OpenFids' = OpenFids /\ fds[c].fid \notin OpenFids
    BY <1>9 DEF CloseUnknown, Leads, OpenFids
  <2>2. \A d \in Clients \ {c} : fds'[d] = fds[d]
    BY <1>9 DEF CloseUnknown, IInv, TypeOK
  <2> QED
    BY <2>1, <2>2 DEF SlotsAreHeld
<1> QED
  BY <1>1, <1>2, <1>3, <1>4, <1>5, <1>6, <1>7, <1>8, <1>9 DEF Next

\* The table is full only if every client but the one that opens has a handle.
LEMMA FullTable ==
  ASSUME IsFiniteSet(Clients), TypeOK, SlotsAreHeld, NEW c \in Clients, ~fds[c].open,
         NextFid(Len(handles_))
  PROVE  Len(handles_) + 1 <= Cardinality(Clients)
<1> DEFINE S == 0..(Len(handles_) - 1)
           T == Clients \ {c}
           holder == [i \in S |-> CHOOSE d \in Clients : fds[d].open /\ fds[d].fid = i]
<1>1. Len(handles_) \in Nat
  BY LenProperties DEF TypeOK
<1>2. \A i \in S : holder[i] \in T /\ fds[holder[i]].fid = i
  <2>1. \A i \in S : i \in OpenFids
    BY DEF NextFid
  <2>2. \A i \in S : \E d \in Clients : fds[d].open /\ fds[d].fid = i
    BY <2>1 DEF SlotsAreHeld
  <2>3. \A i \in S : holder[i] \in Clients /\ fds[holder[i]].open /\ fds[holder[i]].fid = i
    BY <2>2
  <2> QED
    BY <2>3
<1>3. holder \in Injection(S, T)
  <2>1. holder \in [S -> T]
    BY <1>2
  <2> HIDE DEF holder
  <2> QED
    BY <1>2, <2>1 DEF Injection, IsInjective
<1>4. /\ IsFiniteSet(T) /\ Cardinality(T) = Cardinality(Clients) - 1
      /\ Cardinality(Clients) \in Nat
  BY FS_RemoveElement, FS_CardinalityType
<1>5. Cardinality(S) = Len(handles_)
  <2>1. 0 \in Int /\ Len(handles_) - 1 \in Int
    BY <1>1
  <2>2. Cardinality(S) = IF 0 > Len(handles_) - 1 THEN 0 ELSE Len(handles_) - 1 - 0 + 1
    BY <2>1, FS_Interval, Zenon
  <2> QED
    BY <1>1, <2>2
<1> HIDE DEF S, T, holder
<1>6. Cardinality(S) <= Cardinality(T)
  BY <1>3, <1>4, FS_Injection
<1> QED
  BY <1>1, <1>4, <1>5, <1>6

\* A slot is added only when all are in use, by a caller that has none.
LEMMA TableStep ==
  ASSUME IsFiniteSet(Clients), IInv, SlotsAreHeld, TableBounded, [Next]_vars
  PROVE  TableBounded'
<1>0. Len(handles_) \in Nat
  BY LenProperties DEF IInv, TypeOK
<1>1. ASSUME NEW c \in Clients, NEW fid \in 0..Len(handles_), NEW v \in Keys \cup {None},
             NextFid(fid), ~fds[c].open, handles_' = WithSlot(fid, v)
      PROVE  TableBounded'
  <2>1. Len(handles_') = IF fid = Len(handles_) THEN Len(handles_) + 1 ELSE Len(handles_)
    BY <1>1, WithSlotProperties DEF IInv
  <2> QED
    BY <1>1, <2>1, FullTable DEF TableBounded, IInv
<1>2. ASSUME NEW c \in Clients, NEW path \in Paths, OpenFile(c, path) \/ OpenFails(c, path)
      PROVE  TableBounded'
  <2>1. EntryKey(path) \in Keys /\ ~fds[c].open
    BY <1>2, KeysProperties DEF OpenFile, OpenFails
  <2>2. \E fid \in 0..Len(handles_), v \in Keys \cup {None} :
          NextFid(fid) /\ handles_' = WithSlot(fid, v)
    BY <1>2, <2>1 DEF OpenFile, OpenFails
  <2> QED
    BY <1>1, <2>1, <2>2
<1>3. ASSUME NEW c \in Clients, CloseFile(c)
      PROVE  TableBounded'
  <2>1. Len(handles_') = Len(handles_)
    <3>1. handles_ \in Seq(Keys \cup {None}) /\ SlotOf(c) \in 1..Len(handles_)
      BY <1>3, OpenFidsProperties DEF CloseFile, Leads, SlotOf, IInv, TypeOK
    <3>2. handles_' = [handles_ EXCEPT ![SlotOf(c)] = None]
      BY <1>3 DEF CloseFile
    <3> QED
      BY <3>1, <3>2, ExceptSeq, SMTT(40)
  <2> QED
    BY <2>1 DEF TableBounded
<1>4. CASE UNCHANGED handles_
  BY <1>4 DEF TableBounded
<1>5. ASSUME NEW p \in Paths,
             OpenRefused(p) \/ OpenFaults(p) \/ ReadDirectory(p) \/ ReadMetadata(p)
      PROVE  UNCHANGED handles_
  BY <1>5 DEF OpenRefused, OpenFaults, ReadDirectory, ReadMetadata, Return, Stop
<1>6. ASSUME NEW c \in Clients, CloseFaults(c) \/ AccessFile(c) \/ CloseUnknown(c)
      PROVE  UNCHANGED handles_
  BY <1>6 DEF CloseFaults, AccessFile, CloseUnknown, Return, Stop
<1>7. ASSUME \/ DestroyFileSystem \/ Stopped \/ UNCHANGED vars
             \/ \E f \in Files : NewFile(f)
             \/ \E d \in Dirs : NewDirectory(d)
             \/ \E o \in Objects : DestroyObject(o)
      PROVE  UNCHANGED handles_
  BY <1>7 DEF DestroyFileSystem, Stopped, Stop, vars, NewFile, NewDirectory, DestroyObject
<1> QED
  BY <1>2, <1>3, <1>4, <1>5, <1>6, <1>7 DEF Next

\* What holds of every program besides IInv.
MInv == IInv /\ PrefixesPresent /\ DeadStayOnlyWhereKept /\ SlotsAreHeld

\* At first there is the root alone, and no slot.
LEMMA InitMInv == Init => MInv
<1> SUFFICES ASSUME Init PROVE MInv
  OBVIOUS
<1>1. IInv
  BY InitIInv
<1>2. \A q \in Keys : tree[q] # None => q = Root
  BY DEF Init
<1>3. PrefixesPresent
  <2>1. ASSUME NEW q \in Keys, tree[q] # None, NEW p \in Prefixes(q)
        PROVE  tree[p] # None
    <3>1. q = Root /\ Len(q) = 0 /\ p \in Keys /\ Len(p) \in 0..Len(q)
      BY <1>2, <2>1, RootLength, PrefixDescends
    <3>2. p = Root
      BY <3>1, RootLength
    <3> QED
      BY <2>1, <3>1, <3>2
  <2> QED
    BY <2>1 DEF PrefixesPresent
<1>4. DeadStayOnlyWhereKept
  BY <1>2 DEF DeadStayOnlyWhereKept
<1>5. SlotsAreHeld
  BY EmptySeq DEF Init, SlotsAreHeld, OpenFids
<1> QED
  BY <1>1, <1>3, <1>4, <1>5 DEF MInv

\* Every call keeps it.
LEMMA StepMInv == MInv /\ [Next]_vars => MInv'
BY StepIInv, PrefixesStep, DeadStep, SlotsStep DEF MInv

\* An object that is gone stays registered only where removePath had a reason to keep its
\* entry, in every program.
THEOREM DeadStayWhereKept == Spec => []DeadStayOnlyWhereKept
<1>1. MInv => DeadStayOnlyWhereKept
  BY DEF MInv
<1> QED
  BY <1>1, InitMInv, StepMInv, PTL DEF Spec

\* The table never has more slots than there are callers, of any discipline.
THEOREM TableStaysBounded ==
  ASSUME IsFiniteSet(Clients)
  PROVE  Spec => []TableBounded
<1>1. Init => TableBounded
  <2>1. Init => Len(handles_) = 0
    BY EmptySeq DEF Init
  <2> QED
    BY <2>1, FS_CardinalityType DEF TableBounded
<1>2. MInv /\ TableBounded /\ [Next]_vars => TableBounded'
  BY TableStep DEF MInv
<1> QED
  BY <1>1, <1>2, InitMInv, StepMInv, PTL DEF Spec
------------------------------------------------------------------------------
(* Single steps *)

\* An open that fails, in whatever program and table, leaves the handles in use as they were.
THEOREM FailedOpensKeepHandles == Spec => FailedOpenKeepsHandles
<1> DEFINE A == rc' # "Success" => OpenFids' = OpenFids
<1>1. ASSUME IInv, [Next]_vars PROVE A
  <2>1. ASSUME handles_' = handles_ PROVE A
    BY <2>1 DEF OpenFids
  <2>2. ASSUME NEW c \in Clients, NEW p \in Paths, OpenFails(c, p)
        PROVE  A
    BY <1>1, <2>2, SlotTakenAndFreed DEF OpenFails, IInv
  <2>3. ASSUME NEW c \in Clients, NEW p \in Paths, OpenFile(c, p)
        PROVE  A
    BY <2>3 DEF OpenFile
  <2>4. ASSUME NEW c \in Clients, CloseFile(c)
        PROVE  A
    BY <2>4 DEF CloseFile
  <2> HIDE DEF A
  <2>5. ASSUME NEW p \in Paths,
               OpenRefused(p) \/ OpenFaults(p) \/ ReadDirectory(p) \/ ReadMetadata(p)
        PROVE  UNCHANGED handles_
    BY <2>5 DEF OpenRefused, OpenFaults, ReadDirectory, ReadMetadata, Return, Stop
  <2>6. ASSUME NEW c \in Clients, CloseFaults(c) \/ AccessFile(c) \/ CloseUnknown(c)
        PROVE  UNCHANGED handles_
    BY <2>6 DEF CloseFaults, AccessFile, CloseUnknown, Return, Stop
  <2>7. ASSUME \/ DestroyFileSystem \/ Stopped \/ UNCHANGED vars
               \/ \E f \in Files : NewFile(f)
               \/ \E d \in Dirs : NewDirectory(d)
               \/ \E o \in Objects : DestroyObject(o)
        PROVE  UNCHANGED handles_
    BY <2>7 DEF DestroyFileSystem, Stopped, Stop, vars, NewFile, NewDirectory, DestroyObject
  <2> QED
    BY <1>1, <2>1, <2>2, <2>3, <2>4, <2>5, <2>6, <2>7 DEF Next
<1>2. IInv /\ [Next]_vars => [A]_vars
  BY <1>1
<1> QED
  BY <1>2, Invariance, PTL DEF Spec, FailedOpenKeepsHandles

\* No two objects, files or directories, have paths that lead to one entry.
ObjectsApart == \A o, p \in Objects : EntryKey(PathOf[o]) = EntryKey(PathOf[p]) => o = p

\* Where no two objects share an entry, only the end of a file removes the entry it is
\* registered at.
THEOREM OwnEndsUnregister ==
  ASSUME ObjectsApart
  PROVE  Spec => OnlyOwnEndUnregisters
<1> DEFINE A == \A k \in Keys :
                  tree[k] # None /\ tree[k].file # None /\ tree'[k] = None =>
                    life[tree[k].file] = "live" /\ life'[tree[k].file] = "dead"
<1>1. ASSUME IInv, [Next]_vars PROVE A
  <2> SUFFICES ASSUME NEW k \in Keys, tree[k] # None, tree[k].file # None, tree'[k] = None
               PROVE  life[tree[k].file] = "live" /\ life'[tree[k].file] = "dead"
    OBVIOUS
  <2>1. tree' # tree /\ \A j \in Keys : \A hs : ~Relists(j, hs)
    BY DEF Relists
  <2>2. \A j \in Keys : ~Grows(j)
    BY DEF Grows
  <2>3. PICK o \in Objects : DestroyObject(o)
    BY <1>1, <2>1, <2>2, StepsOfTheTree, NewFileGrows, NewDirectoryGrows DEF TreeStep, IInv
  <2>4. EntryKey(PathOf[o]) = k
    BY <1>1, <2>1, <2>3, DestroyObjectTree
  <2>5. tree[k].file \in Objects /\ EntryKey(PathOf[tree[k].file]) = k
    BY <1>1 DEF IInv, TypeOK, Entry, Objects, FilesInPlace
  <2>6. tree[k].file = o
    BY <2>4, <2>5 DEF ObjectsApart
  <2> QED
    BY <1>1, <2>3, <2>6 DEF DestroyObject, IInv, TypeOK
<1>2. IInv /\ [Next]_vars => [A]_vars
  BY <1>1
<1> QED
  BY <1>2, Invariance, PTL DEF Spec, OnlyOwnEndUnregisters
------------------------------------------------------------------------------
(* A program like main() meets no assert and no undefined behaviour *)

\* A directory is only ever registered at the entry its own path leads to.
DirsInPlace == \A q \in Keys : tree[q] # None /\ tree[q].dir # None => EntryKey(PathOf[tree[q].dir]) = q

\* addDirectory registers at the path of what it registers, and nothing moves.
LEMMA DirsStep ==
  ASSUME IInv, DirsInPlace, [Next]_vars
  PROVE  DirsInPlace'
<1> SUFFICES ASSUME NEW q \in Keys, tree'[q] # None, tree'[q].dir # None
             PROVE  EntryKey(PathOf[tree'[q].dir]) = q
  BY DEF DirsInPlace
<1>1. ASSUME OldDir(q) = tree'[q].dir PROVE EntryKey(PathOf[tree'[q].dir]) = q
  BY <1>1 DEF OldDir, DirsInPlace
<1>2. CASE UNCHANGED <<tree, life>>
  BY <1>2 DEF DirsInPlace
<1>3. ASSUME NEW k \in Keys, NEW hs, Relists(k, hs)
      PROVE  EntryKey(PathOf[tree'[q].dir]) = q
  BY <1>3 DEF Relists, DirsInPlace
<1>4. ASSUME NEW f \in Files, NewFile(f)
      PROVE  EntryKey(PathOf[tree'[q].dir]) = q
  BY <1>1, <1>4, NewFileGrows DEF Grows, IInv
<1>5. ASSUME NEW d \in Dirs, NewDirectory(d)
      PROVE  EntryKey(PathOf[tree'[q].dir]) = q
  BY <1>1, <1>5, NewDirectoryGrows DEF Grows, IInv
<1>6. ASSUME NEW o \in Objects, DestroyObject(o)
      PROVE  EntryKey(PathOf[tree'[q].dir]) = q
  BY <1>6, DestroyObjectTree DEF DirsInPlace
<1> QED
  BY <1>2, <1>3, <1>4, <1>5, <1>6, StepsOfTheTree DEF TreeStep

\* Once an object is gone nobody has a handle.
EndedLast == (\E o \in Objects : life[o] = "dead") => \A c \in Clients : ~fds[c].open

\* Objects end after the last close, and nobody opens after that.
LEMMA EndedStep ==
  ASSUME IInv, TeardownLast, EndedLast, [Next]_vars
  PROVE  EndedLast'
<1>1. ASSUME \A o \in Objects : life'[o] = "dead" => life[o] = "dead",
             \A c \in Clients : fds'[c].open => fds[c].open
      PROVE  EndedLast'
  BY <1>1 DEF EndedLast
<1>2. ASSUME NEW p \in Paths,
             OpenRefused(p) \/ OpenFaults(p) \/ ReadDirectory(p) \/ ReadMetadata(p)
      PROVE  UNCHANGED <<life, fds>>
  BY <1>2 DEF OpenRefused, OpenFaults, ReadDirectory, ReadMetadata, Return, Stop
<1>3. ASSUME NEW c \in Clients, CloseFaults(c) \/ AccessFile(c)
      PROVE  UNCHANGED <<life, fds>>
  BY <1>3 DEF CloseFaults, AccessFile, Return, Stop
<1>4. ASSUME DestroyFileSystem \/ Stopped \/ UNCHANGED vars
      PROVE  UNCHANGED <<life, fds>>
  BY <1>4 DEF DestroyFileSystem, Stopped, Stop, vars
<1>5. ASSUME NEW c \in Clients, CloseFile(c) \/ CloseUnknown(c)
      PROVE  EndedLast'
  BY <1>1, <1>5 DEF CloseFile, CloseUnknown, IInv, TypeOK
<1>6. ASSUME NEW c \in Clients, NEW p \in Paths, OpenFile(c, p)
      PROVE  EndedLast'
  BY <1>6 DEF OpenFile, Calling, EndedLast
<1>7. ASSUME NEW c \in Clients, NEW p \in Paths, OpenFails(c, p)
      PROVE  EndedLast'
  BY <1>7 DEF OpenFails, Calling, EndedLast
<1>8. ASSUME \/ \E f \in Files : NewFile(f)
             \/ \E d \in Dirs : NewDirectory(d)
      PROVE  EndedLast'
  BY <1>1, <1>8 DEF NewFile, NewDirectory, IInv, TypeOK, Objects
<1>9. ASSUME NEW o \in Objects, DestroyObject(o)
      PROVE  EndedLast'
  BY <1>9 DEF DestroyObject, EndedLast
<1> QED
  BY <1>1, <1>2, <1>3, <1>4, <1>5, <1>6, <1>7, <1>8, <1>9 DEF Next

\* The entry of a file is not a directory's, and while calls are made its file is alive.
LEMMA EntriesSound ==
  ASSUME IInv, DirsInPlace, TeardownLast, ObjectsApart, Calling, NEW q \in Keys, tree[q] # None
  PROVE  /\ tree[q].file # None => tree[q].dir = None /\ life[tree[q].file] # "dead"
         /\ ~Clash(tree[q]) /\ ~Dangling(tree[q])
<1>1. tree[q].file # None => tree[q].file \in Files /\ EntryKey(PathOf[tree[q].file]) = q
  BY DEF IInv, TypeOK, Entry, FilesInPlace
<1>2. tree[q].dir # None => tree[q].dir \in Dirs /\ EntryKey(PathOf[tree[q].dir]) = q
  BY DEF IInv, TypeOK, Entry, DirsInPlace
<1>3. tree[q].file # None => tree[q].dir = None
  BY <1>1, <1>2, ObjectsAssumption DEF ObjectsApart, Objects
<1>4. tree[q].file # None => life[tree[q].file] # "dead"
  BY <1>1 DEF Calling, Objects
<1> QED
  BY <1>3, <1>4 DEF Clash, Dangling

\* The slot of an open handle leads to a live file.
LEMMA HandlesSound ==
  ASSUME IInv, HandleUse = "once", NEW c \in Clients, HoldsHandle(c)
  PROVE  /\ fds[c].fid \in OpenFids /\ InTable(c)
         /\ handles_[SlotOf(c)] \in Keys /\ EntryOf(c) # None /\ EntryOf(c).file # None
<1>1. fds[c].fid \in OpenFids
  BY DEF IInv, FdFaithful, HoldsHandle
<1>2. SlotOf(c) \in 1..Len(handles_) /\ handles_[SlotOf(c)] \in Keys
  BY <1>1, OpenFidsProperties DEF SlotOf, IInv
<1>3. Len(handles_) \in Nat
  BY LenProperties DEF IInv, TypeOK
<1> QED
  BY <1>1, <1>2, <1>3 DEF IInv, HandlesAgree, FilesInPlace, EntryOf, SlotOf, InTable

\* The asserts of openFile and closeFile are not reached.
LEMMA FaultStep ==
  ASSUME MInv, DirsInPlace, EndedLast, NoFault, HandleUse = "once", TeardownLast, ObjectsApart,
         [Next]_vars
  PROVE  NoFault'
<1> USE DEF MInv
<1>1. CASE status' = status
  BY <1>1 DEF NoFault
<1>2. ASSUME NEW p \in Paths, OpenFaults(p)
      PROVE  FALSE
  <2> DEFINE k == EntryKey(p)
  <2>1. k \in Keys /\ Found(k) /\ Calling
    BY <1>2, KeysProperties DEF OpenFaults
  <2>2. Clash(tree[k]) \/ Dangling(tree[k])
    BY <1>2 DEF OpenFaults
  <2> HIDE DEF k
  <2>3. tree[k] # None
    BY <2>1, FoundIsPresent DEF IInv
  <2> QED
    BY <2>1, <2>2, <2>3, EntriesSound
<1>3. ASSUME NEW p \in Paths, OpenRefused(p) \/ ReadDirectory(p)
      PROVE  status' = status
  BY <1>3 DEF OpenRefused, ReadDirectory, Return
<1>4. ASSUME NEW p \in Paths, ReadMetadata(p)
      PROVE  status' = status
  <2> DEFINE k == EntryKey(p)
  <2>1. k \in Keys /\ Calling
    BY <1>4, KeysProperties DEF ReadMetadata
  <2>2. \/ status' = status
        \/ Found(k) /\ tree[k].file # None /\ life[tree[k].file] = "dead"
    BY <1>4 DEF ReadMetadata, Return
  <2> HIDE DEF k
  <2> QED
    BY <2>1, <2>2, FoundIsPresent, EntriesSound DEF IInv
<1>5. ASSUME NEW c \in Clients, CloseFaults(c)
      PROVE  FALSE
  <2>1. Calling /\ HoldsHandle(c)
    BY <1>5 DEF CloseFaults
  <2>2. /\ InTable(c) /\ handles_[SlotOf(c)] \in Keys /\ EntryOf(c) # None
        /\ EntryOf(c).file # None
    BY <2>1, HandlesSound
  <2>3. EntryOf(c).dir = None /\ ~Dangling(EntryOf(c))
    BY <2>1, <2>2, EntriesSound DEF EntryOf
  <2> QED
    BY <1>5, <2>2, <2>3 DEF CloseFaults
<1>6. ASSUME NEW c \in Clients, AccessFile(c)
      PROVE  status' = status
  <2>1. Calling /\ HoldsHandle(c)
    BY <1>6 DEF AccessFile
  <2>2. handles_[SlotOf(c)] \in Keys /\ EntryOf(c) # None
    BY <2>1, HandlesSound
  <2>3. ~Clash(EntryOf(c)) /\ ~Dangling(EntryOf(c))
    BY <2>1, <2>2, EntriesSound DEF EntryOf
  <2> QED
    BY <1>6, <2>3 DEF AccessFile, Return
<1>7. ASSUME DestroyFileSystem
      PROVE  status' = "down"
  <2>1. ASSUME NEW k \in Keys, tree[k] # None, NEW i \in tree[k].handles, i # -1
        PROVE  FALSE
    <3>1. i \in OpenFids /\ handles_[i + 1] = k
      BY <2>1 DEF IInv, HandlesAgree
    <3>2. tree[k].file # None
      BY <3>1 DEF IInv, FilesInPlace
    <3>3. tree[k].file \in Objects /\ life[tree[k].file] # "unborn"
      BY <2>1, <3>2 DEF IInv, TypeOK, Entry, Objects, FilesInPlace
    <3>4. life[tree[k].file] = "dead"
      BY <1>7, <3>3 DEF DestroyFileSystem, IInv, TypeOK
    <3>5. \A c \in Clients : ~fds[c].open
      BY <3>3, <3>4 DEF EndedLast
    <3> QED
      BY <3>1, <3>5 DEF SlotsAreHeld
  <2>2. \A k \in Keys : tree[k] = None \/ tree[k].handles \subseteq {-1}
    BY <2>1
  <2> QED
    BY <1>7, <2>2 DEF DestroyFileSystem, Stop
<1>8. ASSUME NEW c \in Clients, CloseFile(c) \/ CloseUnknown(c)
      PROVE  status' = status
  BY <1>8 DEF CloseFile, CloseUnknown
<1>9. ASSUME NEW c \in Clients, NEW p \in Paths, OpenFile(c, p) \/ OpenFails(c, p)
      PROVE  status' = status
  BY <1>9 DEF OpenFile, OpenFails
<1>10. ASSUME \/ Stopped \/ UNCHANGED vars
              \/ \E f \in Files : NewFile(f)
              \/ \E d \in Dirs : NewDirectory(d)
              \/ \E o \in Objects : DestroyObject(o)
       PROVE  status' = status
  BY <1>10 DEF Stopped, vars, NewFile, NewDirectory, DestroyObject
<1> QED
  BY <1>1, <1>2, <1>3, <1>4, <1>5, <1>6, <1>7, <1>8, <1>9, <1>10 DEF Next, NoFault

\* Used as main() uses it - each handle closed once, the objects ended after the last call,
\* no two of them on one entry - the file system meets no assert and no undefined behaviour.
THEOREM MeetsNoFault ==
  ASSUME HandleUse = "once", TeardownLast, ObjectsApart
  PROVE  Spec => []NoFault
<1> DEFINE J == DirsInPlace /\ EndedLast /\ NoFault
<1>1. Init => J
  <2>1. ASSUME Init PROVE DirsInPlace
    <3>1. \A q \in Keys : tree[q] # None => tree[q].dir = None
      BY <2>1 DEF Init, NewEntry
    <3> QED
      BY <3>1 DEF DirsInPlace
  <2>2. Init => EndedLast /\ NoFault
    BY DEF Init, EndedLast, NoFault
  <2> QED
    BY <2>1, <2>2
<1>2. MInv /\ J /\ [Next]_vars => J'
  BY DirsStep, EndedStep, FaultStep DEF MInv
<1> QED
  BY <1>1, <1>2, InitMInv, StepMInv, PTL DEF Spec
------------------------------------------------------------------------------
(* What the callers are promised, where no two files share an entry *)

\* What each client's open handle leads to.
HeldBy(c) == IF fds[c].open THEN EntryOf(c).file ELSE None
Held == [c \in Clients |-> HeldBy(c)]

\* No two files have paths that lead to one entry.
PathsApart == \A f, g \in Files : EntryKey(PathOf[f]) = EntryKey(PathOf[g]) => f = g

\* An open handle leads to a registered file.
LEMMA HeldIsFile ==
  ASSUME IInv, HandleUse = "once", NEW c \in Clients, fds[c].open
  PROVE  /\ fds[c].fid \in OpenFids
         /\ handles_[SlotOf(c)] \in Keys
         /\ tree[handles_[SlotOf(c)]] # None
         /\ HeldBy(c) = tree[handles_[SlotOf(c)]].file
         /\ HeldBy(c) \in Files /\ HeldBy(c) # None
<1> USE DEF IInv
<1>1. fds[c].fid \in OpenFids
  BY DEF FdFaithful
<1>2. handles_[SlotOf(c)] \in Keys
  BY <1>1, OpenFidsProperties DEF SlotOf
<1>3. tree[handles_[SlotOf(c)]] # None /\ tree[handles_[SlotOf(c)]].file # None
  BY <1>1 DEF HandlesAgree, FilesInPlace, SlotOf
<1>4. HeldBy(c) = tree[handles_[SlotOf(c)]].file
  BY DEF HeldBy, EntryOf
<1>5. tree[handles_[SlotOf(c)]] \in Entry
  BY <1>2, <1>3 DEF TypeOK
<1> QED
  BY <1>1, <1>2, <1>3, <1>4, <1>5 DEF Entry

\* A client whose handle and whose slot a step leaves alone keeps what it holds.
LEMMA HeldStays ==
  ASSUME IInv, IInv', HandleUse = "once", KeepsFiles,
         NEW c \in Clients, fds'[c] = fds[c],
         fds[c].open => handles_'[SlotOf(c)] = handles_[SlotOf(c)]
  PROVE  HeldBy(c)' = HeldBy(c)
<1>1. CASE ~fds[c].open
  BY <1>1 DEF HeldBy
<1>2. CASE fds[c].open
  <2> DEFINE q == handles_[SlotOf(c)]
  <2>1. q \in Keys /\ tree[q] # None /\ HeldBy(c) = tree[q].file
    BY <1>2, HeldIsFile
  <2>2. SlotOf(c)' = SlotOf(c)
    BY DEF SlotOf
  <2>3. fds'[c].fid \in OpenFids'
    BY <1>2 DEF IInv, FdFaithful
  <2>4. tree'[handles_'[fds'[c].fid + 1]] # None
    BY <2>3 DEF IInv, HandlesAgree
  <2>5. handles_'[fds'[c].fid + 1] = q
    BY <1>2 DEF SlotOf
  <2>6. HeldBy(c)' = tree'[q].file
    BY <1>2, <2>5 DEF HeldBy, EntryOf, SlotOf
  <2> HIDE DEF q
  <2> QED
    BY <2>1, <2>4, <2>5, <2>6 DEF KeepsFiles
<1> QED
  BY <1>1, <1>2

\* A step that touches no handle and takes no file away from an entry is invisible.
LEMMA HeldStutters ==
  ASSUME IInv, IInv', HandleUse = "once", KeepsFiles, UNCHANGED <<fds, handles_>>
  PROVE  Held' = Held
<1>1. \A c \in Clients : HeldBy(c)' = HeldBy(c)
  BY HeldStays
<1> QED
  BY <1>1 DEF Held

\* openFile of one client takes one step of the promise.
LEMMA OpenFileOpens ==
  ASSUME IInv, HandleUse = "once",
         NEW c \in Clients, NEW path \in Paths, OpenFile(c, path)
  PROVE  \E f \in Files : Held[c] = None /\ Held' = [Held EXCEPT ![c] = f]
<1>1. IInv' /\ KeepsFiles
  BY OpenFileIInv
<1>2. ~fds[c].open
  BY DEF OpenFile
<1>3. PICK fid \in 0..Len(handles_) :
        /\ NextFid(fid)
        /\ handles_' = WithSlot(fid, EntryKey(path))
        /\ fds' = [fds EXCEPT ![c] = [fid |-> fid, path |-> path, open |-> TRUE]]
  BY DEF OpenFile
<1>4. \A i \in OpenFids : handles_'[i + 1] = handles_[i + 1]
  BY <1>3, KeysProperties, SlotTaken DEF IInv
<1>5. fds'[c].open /\ fds'[c].fid = fid
  BY <1>3 DEF IInv, TypeOK
<1>6. HeldBy(c)' \in Files
  <2> DEFINE k == EntryKey(path)
  <2>1. k \in Keys /\ fid \in OpenFids' /\ handles_'[fid + 1] = k
    BY <1>3, KeysProperties, SlotTaken DEF IInv
  <2>2. HeldBy(c)' = tree'[k].file
    BY <1>5, <2>1 DEF HeldBy, EntryOf, SlotOf
  <2> HIDE DEF k
  <2>3. tree'[k] # None /\ tree'[k].file # None
    BY <1>1, <2>1 DEF IInv, HandlesAgree, FilesInPlace
  <2>4. tree'[k] \in Entry
    BY <1>1, <2>1, <2>3 DEF IInv, TypeOK
  <2> QED
    BY <2>2, <2>3, <2>4 DEF Entry
<1>7. ASSUME NEW d \in Clients, d # c
      PROVE  HeldBy(d)' = HeldBy(d)
  <2>1. fds'[d] = fds[d]
    BY <1>3, <1>7 DEF IInv, TypeOK
  <2>2. fds[d].open => handles_'[SlotOf(d)] = handles_[SlotOf(d)]
    BY <1>4, HeldIsFile DEF SlotOf
  <2> QED
    BY <1>1, <2>1, <2>2, HeldStays
<1>8. HeldBy(c) = None
  BY <1>2 DEF HeldBy
<1> QED
  BY <1>6, <1>7, <1>8 DEF Held

\* A failing open is invisible.
LEMMA OpenFailsStutters ==
  ASSUME IInv, HandleUse = "once",
         NEW c \in Clients, NEW path \in Paths, OpenFails(c, path)
  PROVE  Held' = Held
<1>1. IInv' /\ KeepsFiles
  BY OpenFailsIInv
<1>2. ~fds[c].open /\ fds' = [fds EXCEPT ![c] = NoHandle]
  BY DEF OpenFails
<1>3. PICK fid \in 0..Len(handles_) : NextFid(fid) /\ handles_' = WithSlot(fid, None)
  BY DEF OpenFails
<1>4. \A i \in OpenFids : handles_'[i + 1] = handles_[i + 1]
  BY <1>3, SlotTakenAndFreed DEF IInv
<1>5. ASSUME NEW d \in Clients, d # c
      PROVE  HeldBy(d)' = HeldBy(d)
  <2>1. fds'[d] = fds[d]
    BY <1>2, <1>5 DEF IInv, TypeOK
  <2>2. fds[d].open => handles_'[SlotOf(d)] = handles_[SlotOf(d)]
    BY <1>4, HeldIsFile DEF SlotOf
  <2> QED
    BY <1>1, <2>1, <2>2, HeldStays
<1>6. HeldBy(c) = None /\ HeldBy(c)' = None
  <2>1. fds'[c] = NoHandle
    BY <1>2 DEF IInv, TypeOK
  <2> QED
    BY <1>2, <2>1 DEF HeldBy, NoHandle
<1>7. \A d \in Clients : HeldBy(d)' = HeldBy(d)
  BY <1>5, <1>6
<1> QED
  BY <1>7 DEF Held

\* closeFile of one client takes one step of the promise.
LEMMA CloseFileCloses ==
  ASSUME IInv, HandleUse = "once", NEW c \in Clients, CloseFile(c)
  PROVE  Held[c] # None /\ Held' = [Held EXCEPT ![c] = None]
<1>1. IInv' /\ KeepsFiles
  BY CloseFileIInv
<1>2. /\ fds[c].open
      /\ fds[c].fid \in OpenFids
      /\ handles_' = [handles_ EXCEPT ![fds[c].fid + 1] = None]
      /\ fds' = [fds EXCEPT ![c].open = FALSE]
  BY DEF CloseFile, HoldsHandle, Leads, SlotOf
<1>3. \A i \in OpenFids \ {fds[c].fid} : handles_'[i + 1] = handles_[i + 1]
  BY <1>2, SlotFreed DEF IInv
<1>4. ASSUME NEW d \in Clients, d # c
      PROVE  HeldBy(d)' = HeldBy(d)
  <2>1. fds'[d] = fds[d]
    BY <1>2, <1>4 DEF IInv, TypeOK
  <2>2. fds[d].open => fds[d].fid # fds[c].fid
    BY <1>2, <1>4 DEF IInv, FdFaithful
  <2>3. fds[d].open => handles_'[SlotOf(d)] = handles_[SlotOf(d)]
    BY <1>3, <2>2, HeldIsFile DEF SlotOf
  <2> QED
    BY <1>1, <2>1, <2>3, HeldStays
<1>5. HeldBy(c) # None
  BY <1>2, HeldIsFile
<1>6. HeldBy(c)' = None
  <2>1. fds'[c].open = FALSE
    BY <1>2 DEF IInv, TypeOK
  <2> QED
    BY <2>1 DEF HeldBy
<1> QED
  BY <1>4, <1>5, <1>6 DEF Held

\* Registering a file is invisible: the entry it takes is nobody's open file, because only
\* the file itself belongs there and it has only just been constructed.
LEMMA NewFileStutters ==
  ASSUME IInv, HandleUse = "once", PathsApart, NEW f \in Files, NewFile(f)
  PROVE  Held' = Held
<1>1. /\ IInv'
      /\ \A q \in Keys : tree[q] # None =>
           tree'[q].file = tree[q].file \/ (q = EntryKey(PathOf[f]) /\ tree'[q].file = f)
  BY NewFileIInv
<1>2. life[f] = "unborn" /\ fds' = fds /\ handles_' = handles_
  BY DEF NewFile
<1>3. ASSUME NEW c \in Clients
      PROVE  HeldBy(c)' = HeldBy(c)
  <2>1. CASE ~fds[c].open
    BY <1>2, <2>1 DEF HeldBy
  <2>2. CASE fds[c].open
    <3> DEFINE q == handles_[SlotOf(c)]
    <3>1. q \in Keys /\ tree[q] # None /\ HeldBy(c) = tree[q].file
          /\ tree[q].file \in Files /\ tree[q].file # None
      BY <2>2, HeldIsFile
    <3>2. HeldBy(c)' = tree'[q].file
      BY <1>2, <2>2 DEF HeldBy, EntryOf, SlotOf
    <3> HIDE DEF q
    <3>3. EntryKey(PathOf[tree[q].file]) = q /\ life[tree[q].file] # "unborn"
      BY <3>1 DEF IInv, FilesInPlace
    <3>4. q # EntryKey(PathOf[f])
      BY <1>2, <3>1, <3>3 DEF PathsApart
    <3> QED
      BY <1>1, <3>1, <3>2, <3>4
  <2> QED
    BY <2>1, <2>2
<1> QED
  BY <1>3 DEF Held

\* Every step is one of the promise or none.
LEMMA StepKeepsPromise ==
  ASSUME IInv, HandleUse = "once", PathsApart, [Next]_vars
  PROVE  \/ Held' = Held
         \/ \E c \in Clients :
              \/ Held[c] # None /\ Held' = [Held EXCEPT ![c] = None]
              \/ \E f \in Files : Held[c] = None /\ Held' = [Held EXCEPT ![c] = f]
<1> DEFINE quiet == UNCHANGED <<tree, handles_, fds>>
<1>1. ASSUME quiet PROVE Held' = Held
  BY <1>1 DEF Held, HeldBy, EntryOf, SlotOf
<1> HIDE DEF quiet
<1>2. ASSUME NEW p \in Paths,
             OpenRefused(p) \/ OpenFaults(p) \/ ReadDirectory(p) \/ ReadMetadata(p)
      PROVE  quiet
  BY <1>2 DEF OpenRefused, OpenFaults, ReadDirectory, ReadMetadata, Return, Stop, quiet
<1>3. ASSUME NEW c \in Clients, CloseFaults(c) \/ AccessFile(c)
      PROVE  quiet
  BY <1>3 DEF CloseFaults, AccessFile, Return, Stop, quiet
<1>4. ASSUME DestroyFileSystem \/ Stopped \/ UNCHANGED vars
      PROVE  quiet
  BY <1>4 DEF DestroyFileSystem, Stopped, Stop, vars, quiet
<1>5. \A c \in Clients : ~CloseUnknown(c)
  BY DEF CloseUnknown, HoldsHandle, Leads, IInv, FdFaithful
<1>6. ASSUME NEW d \in Dirs, NewDirectory(d)
      PROVE  Held' = Held
  <2>1. IInv' /\ KeepsFiles
    BY <1>6, NewDirectoryIInv
  <2> QED
    BY <1>6, <2>1, HeldStutters DEF NewDirectory
<1>7. ASSUME NEW o \in Objects, DestroyObject(o)
      PROVE  Held' = Held
  <2>1. IInv' /\ KeepsFiles
    BY <1>7, DestroyObjectIInv
  <2> QED
    BY <1>7, <2>1, HeldStutters DEF DestroyObject
<1> QED
  BY <1>1, <1>2, <1>3, <1>4, <1>5, <1>6, <1>7, OpenFileOpens, OpenFailsStutters,
     CloseFileCloses, NewFileStutters
     DEF Next

\* Where no two files share an entry and each handle is closed once, the file system
\* implements OpenFiles: openFile and closeFile are its two steps, and no other call, no
\* registration and no destruction changes what an open handle leads to.
THEOREM KeepsThePromise ==
  ASSUME HandleUse = "once", PathsApart
  PROVE  Spec => ImplementsOpenFiles
<1>1. Init => Promise!Init
  BY DEF Init, NoHandle, Promise!Init
<1>2. IInv /\ [Next]_vars => [Promise!Next]_Held
  BY StepKeepsPromise DEF Promise!Next, Promise!Open, Promise!Close, Held, HeldBy
<1> QED
  BY <1>1, <1>2, Invariance, PTL DEF Spec, ImplementsOpenFiles, Promise!Spec, Held, HeldBy
------------------------------------------------------------------------------
(* The contexts that files keep *)

\* The file a handle in use leads to.
Reached(i) == tree[handles_[i + 1]].file

\* A step that keeps the handles and the files they lead to, and that says of each file
\* what it does to its life and its contexts.
LEMMA SameReach ==
  ASSUME SessionsAgree, OpenFids' = OpenFids, \A i \in OpenFids : Reached(i)' = Reached(i),
         \A f \in Files :
           \/ sessions'[f] = sessions[f] /\ (life'[f] = "live" <=> life[f] = "live")
           \/ sessions'[f] = {} /\ life'[f] # "live"
           \/ sessions'[f] = sessions[f] /\ life[f] # "live" /\ \A i \in OpenFids : Reached(i) # f
  PROVE  SessionsAgree'
<1> SUFFICES ASSUME NEW f \in Files
             PROVE  sessions'[f] = {i \in OpenFids' : Reached(i)' = f /\ life'[f] = "live"}
  BY DEF SessionsAgree, Reached
<1>1. sessions[f] = {i \in OpenFids : Reached(i) = f /\ life[f] = "live"}
  BY DEF SessionsAgree, Reached
<1> QED
  BY <1>1

\* Where files stay and the handles that lead to them, each leads where it led.
LEMMA ReachStays ==
  ASSUME IInv, IInv', KeepsFiles, OpenFids' = OpenFids,
         \A i \in OpenFids : handles_'[i + 1] = handles_[i + 1]
  PROVE  \A i \in OpenFids : Reached(i)' = Reached(i)
<1> TAKE i \in OpenFids
<1>1. handles_[i + 1] \in Keys /\ tree[handles_[i + 1]] # None
  BY OpenFidsProperties DEF IInv, HandlesAgree
<1>2. tree'[handles_'[i + 1]] # None
  BY DEF IInv, HandlesAgree
<1> QED
  BY <1>1, <1>2 DEF KeepsFiles, Reached

\* An open gives one context to the file its handle leads to.
LEMMA OpenFileSessions ==
  ASSUME IInv, SessionsAgree, NEW c \in Clients, NEW path \in Paths, OpenFile(c, path)
  PROVE  SessionsAgree'
<1> DEFINE k == EntryKey(path)
           g == tree[k].file
<1>1. IInv' /\ KeepsFiles /\ k \in Keys
  BY OpenFileIInv, KeysProperties
<1>2. PICK fid \in 0..Len(handles_) :
        /\ NextFid(fid)
        /\ handles_' = WithSlot(fid, k)
        /\ sessions' = [sessions EXCEPT ![g] = @ \cup {fid}]
  BY DEF OpenFile
<1>3. tree[k] # None /\ g \in Files /\ life[g] = "live" /\ life' = life
  <2>1. tree[k] # None
    BY <1>1, FoundIsPresent DEF OpenFile, IInv
  <2> QED
    BY <1>1, <2>1 DEF OpenFile, Usable, IInv, TypeOK, Entry
<1>4. /\ OpenFids' = OpenFids \cup {fid} /\ fid \notin OpenFids /\ handles_'[fid + 1] = k
      /\ \A i \in OpenFids : handles_'[i + 1] = handles_[i + 1]
  BY <1>1, <1>2, SlotTaken DEF IInv
<1> HIDE DEF k
<1>5. \A i \in OpenFids : Reached(i)' = Reached(i)
  <2> TAKE i \in OpenFids
  <2>1. handles_[i + 1] \in Keys /\ tree[handles_[i + 1]] # None
    BY OpenFidsProperties DEF IInv, HandlesAgree
  <2>2. tree'[handles_'[i + 1]] # None
    BY <1>1, <1>4 DEF IInv, HandlesAgree
  <2> QED
    BY <1>1, <1>4, <2>1, <2>2 DEF KeepsFiles, Reached
<1>6. Reached(fid)' = g
  <2>1. tree'[k] # None
    BY <1>1, <1>4 DEF IInv, HandlesAgree
  <2> QED
    BY <1>1, <1>3, <1>4, <2>1 DEF KeepsFiles, Reached
<1> HIDE DEF g
<1>7. ASSUME NEW f \in Files
      PROVE  sessions'[f] = {i \in OpenFids' : Reached(i)' = f /\ life'[f] = "live"}
  <2>1. sessions[f] = {i \in OpenFids : Reached(i) = f /\ life[f] = "live"}
    BY DEF SessionsAgree, Reached
  <2>2. CASE f = g
    <3>1. sessions'[f] = sessions[f] \cup {fid}
      BY <1>2, <1>3, <2>2 DEF IInv, TypeOK
    <3> QED
      BY <1>3, <1>4, <1>5, <1>6, <2>1, <2>2, <3>1
  <2>3. CASE f # g
    <3>1. sessions'[f] = sessions[f]
      BY <1>2, <1>3, <2>3 DEF IInv, TypeOK
    <3> QED
      BY <1>3, <1>4, <1>5, <1>6, <2>1, <2>3, <3>1
  <2> QED
    BY <2>2, <2>3
<1> QED
  BY <1>7 DEF SessionsAgree, Reached

\* A close takes the context from the file that has it.
LEMMA CloseFileSessions ==
  ASSUME IInv, SessionsAgree, NEW c \in Clients, CloseFile(c)
  PROVE  SessionsAgree'
<1> DEFINE fid == fds[c].fid
           k == handles_[SlotOf(c)]
           g == tree[k].file
<1>1. IInv' /\ KeepsFiles
  BY CloseFileIInv, SMTT(40)
<1>2. /\ fid \in OpenFids /\ handles_' = [handles_ EXCEPT ![fid + 1] = None] /\ life' = life
      /\ sessions' = [sessions EXCEPT ![g] = @ \ {fid}]
  BY DEF CloseFile, Leads, SlotOf
<1>3. k \in Keys /\ tree[k] # None /\ Reached(fid) = g /\ g \in Files
  <2>1. k \in Keys /\ tree[k] # None
    BY <1>2, OpenFidsProperties DEF SlotOf, IInv, HandlesAgree
  <2>2. g \in Files
    BY <2>1 DEF CloseFile, Usable, IInv, TypeOK, Entry
  <2> QED
    BY <2>1, <2>2 DEF Reached, SlotOf
<1>4. OpenFids' = OpenFids \ {fid} /\ \A i \in OpenFids' : handles_'[i + 1] = handles_[i + 1]
  BY <1>2, SlotFreed DEF IInv
<1>5. \A i \in OpenFids' : Reached(i)' = Reached(i)
  <2> TAKE i \in OpenFids'
  <2>1. i \in OpenFids /\ handles_[i + 1] \in Keys /\ tree[handles_[i + 1]] # None
    BY <1>4, OpenFidsProperties DEF IInv, HandlesAgree
  <2>2. tree'[handles_'[i + 1]] # None
    BY <1>1 DEF IInv, HandlesAgree
  <2> QED
    BY <1>1, <1>4, <2>1, <2>2 DEF KeepsFiles, Reached
<1> HIDE DEF k, g
<1>6. ASSUME NEW f \in Files
      PROVE  sessions'[f] = {i \in OpenFids' : Reached(i)' = f /\ life'[f] = "live"}
  <2>1. sessions[f] = {i \in OpenFids : Reached(i) = f /\ life[f] = "live"}
    BY DEF SessionsAgree, Reached
  <2>2. sessions'[f] = sessions[f] \ {fid}
    <3>1. CASE f = g
      BY <1>2, <3>1 DEF IInv, TypeOK
    <3>2. CASE f # g
      <4>1. sessions'[f] = sessions[f]
        BY <1>2, <3>2 DEF IInv, TypeOK
      <4> QED
        BY <1>3, <2>1, <3>2, <4>1
    <3> QED
      BY <3>1, <3>2
  <2>3. life'[f] = life[f]
    BY <1>2
  <2> HIDE DEF fid
  <2> QED
    BY <1>4, <1>5, <2>1, <2>2, <2>3
<1> QED
  BY <1>6 DEF SessionsAgree, Reached

\* Of a file that is not yet constructed no handle is in use, and its entry has no other.
LEMMA NewFileSessions ==
  ASSUME IInv, SessionsAgree, PathsApart, NEW f \in Files, NewFile(f)
  PROVE  SessionsAgree'
<1>1. /\ IInv'
      /\ \A q \in Keys : tree[q] # None =>
           tree'[q].file = tree[q].file \/ (q = EntryKey(PathOf[f]) /\ tree'[q].file = f)
  BY NewFileIInv
<1>2. /\ UNCHANGED <<handles_, sessions>> /\ OpenFids' = OpenFids
      /\ life[f] = "unborn" /\ life' = [life EXCEPT ![f] = "live"]
  BY DEF NewFile, OpenFids
<1>3. ASSUME NEW i \in OpenFids
      PROVE  Reached(i)' = Reached(i) /\ Reached(i) # f
  <2> DEFINE q == handles_[i + 1]
  <2>1. q \in Keys /\ tree[q] # None /\ tree[q].file # None
    BY OpenFidsProperties DEF IInv, HandlesAgree, FilesInPlace
  <2>2. tree[q].file \in Files /\ EntryKey(PathOf[tree[q].file]) = q /\ life[tree[q].file] # "unborn"
    BY <2>1 DEF IInv, TypeOK, Entry, FilesInPlace
  <2>3. tree[q].file # f
    BY <1>2, <2>2
  <2>4. q # EntryKey(PathOf[f])
    BY <2>2, <2>3 DEF PathsApart
  <2> HIDE DEF q
  <2>5. tree'[q].file = tree[q].file
    BY <1>1, <2>1, <2>4
  <2> QED
    BY <1>2, <2>3, <2>5 DEF Reached, q
<1>4. \A g \in Files \ {f} : life'[g] = life[g]
  BY <1>2 DEF IInv, TypeOK, Objects
<1> QED
  BY <1>2, <1>3, <1>4, SameReach

\* Every call keeps contexts and handles together.
LEMMA StepSessions ==
  ASSUME IInv, SessionsAgree, PathsApart, [Next]_vars
  PROVE  SessionsAgree'
<1>1. ASSUME UNCHANGED <<tree, handles_, life, sessions>>
      PROVE  SessionsAgree'
  BY <1>1 DEF SessionsAgree, OpenFids
<1>2. ASSUME NEW p \in Paths,
             OpenRefused(p) \/ OpenFaults(p) \/ ReadDirectory(p) \/ ReadMetadata(p)
      PROVE  UNCHANGED <<tree, handles_, life, sessions>>
  BY <1>2 DEF OpenRefused, OpenFaults, ReadDirectory, ReadMetadata, Return, Stop
<1>3. ASSUME NEW c \in Clients, CloseFaults(c) \/ AccessFile(c) \/ CloseUnknown(c)
      PROVE  UNCHANGED <<tree, handles_, life, sessions>>
  BY <1>3 DEF CloseFaults, AccessFile, CloseUnknown, Return, Stop
<1>4. ASSUME DestroyFileSystem \/ Stopped \/ UNCHANGED vars
      PROVE  UNCHANGED <<tree, handles_, life, sessions>>
  BY <1>4 DEF DestroyFileSystem, Stopped, Stop, vars
<1>5. ASSUME NEW c \in Clients, NEW p \in Paths, OpenFails(c, p)
      PROVE  SessionsAgree'
  <2>1. IInv' /\ KeepsFiles
    BY <1>5, OpenFailsIInv
  <2>2. OpenFids' = OpenFids /\ \A i \in OpenFids : handles_'[i + 1] = handles_[i + 1]
    BY <1>5, SlotTakenAndFreed DEF OpenFails, IInv
  <2>3. UNCHANGED <<life, sessions>>
    BY <1>5 DEF OpenFails
  <2>4. \A i \in OpenFids : Reached(i)' = Reached(i)
    BY <2>1, <2>2, ReachStays
  <2> QED
    BY <2>2, <2>3, <2>4, SameReach
<1>6. ASSUME NEW d \in Dirs, NewDirectory(d)
      PROVE  SessionsAgree'
  <2>1. IInv' /\ KeepsFiles
    BY <1>6, NewDirectoryIInv
  <2>2. UNCHANGED <<handles_, sessions>> /\ OpenFids' = OpenFids /\ life' = [life EXCEPT ![d] = "live"]
    BY <1>6 DEF NewDirectory, OpenFids
  <2>3. \A f \in Files : life'[f] = life[f]
    BY <2>2, ObjectsAssumption DEF IInv, TypeOK, Objects
  <2>4. \A i \in OpenFids : Reached(i)' = Reached(i)
    BY <2>1, <2>2, ReachStays
  <2> QED
    BY <2>2, <2>3, <2>4, SameReach
<1>7. ASSUME NEW o \in Objects, DestroyObject(o)
      PROVE  SessionsAgree'
  <2>1. IInv' /\ KeepsFiles
    BY <1>7, DestroyObjectIInv
  <2>2. /\ UNCHANGED handles_ /\ OpenFids' = OpenFids /\ life' = [life EXCEPT ![o] = "dead"]
        /\ sessions' = [f \in Files |-> IF f = o THEN {} ELSE sessions[f]]
    BY <1>7 DEF DestroyObject, OpenFids
  <2>3. \A f \in Files : \/ sessions'[f] = sessions[f] /\ life'[f] = life[f]
                         \/ sessions'[f] = {} /\ life'[f] = "dead"
    BY <2>2 DEF IInv, TypeOK, Objects
  <2>4. \A i \in OpenFids : Reached(i)' = Reached(i)
    BY <2>1, <2>2, ReachStays
  <2> QED
    BY <2>2, <2>3, <2>4, SameReach
<1> QED
  BY <1>1, <1>2, <1>3, <1>4, <1>5, <1>6, <1>7, OpenFileSessions, CloseFileSessions,
     NewFileSessions DEF Next

\* Where no two files share an entry, a file of the second mode has a context for exactly
\* the handles in use that lead to it, however handles are used and whenever files end.
THEOREM SessionsStayInAgreement ==
  ASSUME PathsApart
  PROVE  Spec => []SessionsAgree
<1>1. Init => SessionsAgree
  BY EmptySeq DEF Init, SessionsAgree, OpenFids
<1>2. IInv /\ SessionsAgree /\ [Next]_vars => SessionsAgree'
  BY StepSessions
<1> QED
  BY <1>1, <1>2, Invariance, PTL DEF Spec
------------------------------------------------------------------------------
(* What is never removed *)

\* An entry that has been opened, or has had one below it, and the root.
Kept(k) == tree[k] # None /\ (k = Root \/ tree[k].handles # {} \/ tree[k].children # {})

\* No step removes such an entry or empties both its vectors: what leaves them leaves a mark.
LEMMA KeptStep ==
  ASSUME IInv, NEW k \in Keys, Kept(k), [Next]_vars
  PROVE  Kept(k)'
<1>1. ASSUME UNCHANGED <<tree, life>> PROVE Kept(k)'
  BY <1>1 DEF Kept
<1>2. ASSUME NEW j \in Keys, NEW hs, Relists(j, hs), hs = {} => tree[j].handles = {}
      PROVE  Kept(k)'
  BY <1>2 DEF Kept, Relists
<1>3. ASSUME NEW j \in Keys, Grows(j) PROVE Kept(k)'
  BY <1>3 DEF Kept, Grows
<1>4. ASSUME NEW o \in Objects, DestroyObject(o)
      PROVE  Kept(k)'
  <2>1. CASE k = EntryKey(PathOf[o])
    <3>1. tree' = tree
      BY <1>4, <2>1, DestroyObjectTree DEF Kept, Removable
    <3> QED
      BY <3>1 DEF Kept
  <2>2. CASE k # EntryKey(PathOf[o])
    BY <1>4, <2>2, DestroyObjectTree DEF Kept
  <2> QED
    BY <2>1, <2>2
<1> QED
  BY <1>1, <1>2, <1>3, <1>4, StepsOfTheTree, NewFileGrows, NewDirectoryGrows DEF TreeStep, IInv

\* removePath looks at whether the vectors are empty, and closing, releasing and removing
\* only ever mark their elements: in every program an entry that was once opened, or once
\* had a child, is there until the file system ends.
THEOREM KeptForEver ==
  ASSUME NEW k \in Keys
  PROVE  Spec => [](Kept(k) => []Kept(k))
<1>1. IInv /\ Kept(k) /\ [Next]_vars => Kept(k)'
  BY KeptStep
<1> QED
  BY <1>1, Invariance, PTL DEF Spec

\* The file registered at the entry is gone, and no directory hides it.
Dangles(k) == tree[k] # None /\ Dangling(tree[k])

\* Nothing takes the dead file from its entry, nor hides it behind a directory.
LEMMA DanglesStep ==
  ASSUME ObjectsApart, MInv, NEW k \in Keys, Dangles(k), [Next]_vars
  PROVE  Dangles(k)'
<1> DEFINE g == tree[k].file
<1>0. IInv
  BY DEF MInv
<1>1. g \in Files /\ g \in Objects /\ g # None /\ EntryKey(PathOf[g]) = k /\ life[g] = "dead"
      /\ tree[k].dir = None /\ tree[k] # None
  BY <1>0 DEF Dangles, Dangling, IInv, TypeOK, Entry, FilesInPlace, Objects
<1>2. ASSUME tree'[k] # None, tree'[k].file = g, tree'[k].dir = None, life'[g] = "dead"
      PROVE  Dangles(k)'
  BY <1>1, <1>2 DEF Dangles, Dangling
<1>3. CASE UNCHANGED <<tree, life>>
  BY <1>1, <1>2, <1>3
<1>4. ASSUME life' = life, NEW j \in Keys, NEW hs, Relists(j, hs)
      PROVE  Dangles(k)'
  BY <1>1, <1>2, <1>4 DEF Relists
<1>5. ASSUME NEW f \in Files, NewFile(f)
      PROVE  Dangles(k)'
  <2>1. f \in Objects /\ f # g /\ life'[g] = "dead"
    BY <1>0, <1>1, <1>5 DEF NewFile, Objects, IInv, TypeOK
  <2>2. EntryKey(PathOf[f]) # k
    BY <1>1, <2>1 DEF ObjectsApart
  <2> QED
    BY <1>0, <1>1, <1>2, <1>5, <2>1, <2>2, NewFileGrows DEF Grows, OldFile, OldDir, IInv
<1>6. ASSUME NEW d \in Dirs, NewDirectory(d)
      PROVE  Dangles(k)'
  <2>1. d \in Objects /\ d # g /\ life'[g] = "dead"
    BY <1>0, <1>1, <1>6 DEF NewDirectory, Objects, IInv, TypeOK
  <2>2. EntryKey(PathOf[d]) # k
    BY <1>1, <2>1 DEF ObjectsApart
  <2> QED
    BY <1>0, <1>1, <1>2, <1>6, <2>1, <2>2, NewDirectoryGrows DEF Grows, OldFile, OldDir, IInv
<1>7. ASSUME NEW o \in Objects, DestroyObject(o)
      PROVE  Dangles(k)'
  <2>1. o # g /\ life'[g] = "dead"
    BY <1>0, <1>1, <1>7 DEF DestroyObject, IInv, TypeOK
  <2>2. EntryKey(PathOf[o]) # k
    BY <1>1, <2>1 DEF ObjectsApart
  <2> QED
    BY <1>0, <1>1, <1>2, <1>7, <2>1, <2>2, DestroyObjectTree
<1> HIDE DEF g
<1> QED
  BY <1>0, <1>3, <1>4, <1>5, <1>6, <1>7, StepsOfTheTree DEF TreeStep

\* Where no two objects share an entry, a path that once leads to a file that is gone does so
\* for ever: getEntry finds it, and openFile calls into the dead file.  Neither a close, nor
\* the end of other objects, nor a new one mends it.
THEOREM DanglesForEver ==
  ASSUME ObjectsApart, NEW k \in Keys
  PROVE  Spec => [](Dangles(k) => [](Found(k) /\ Dangles(k)))
<1>1. MInv /\ Dangles(k) /\ [Next]_vars => Dangles(k)'
  BY DanglesStep
<1>2. MInv /\ Dangles(k) => Found(k)
  BY PresentIsFound DEF MInv, IInv, Dangles
<1> QED
  BY <1>1, <1>2, InitMInv, StepMInv, PTL DEF Spec
==============================================================================
