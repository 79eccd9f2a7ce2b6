----------------------------- MODULE BundleProofs -----------------------------
(***************************************************************************)
(* What holds of every export and import, for any number of branches and   *)
(* importers.  BundleStory is the inductive invariant: every event of the  *)
(* session hangs on what was there before it, and every file an importer   *)
(* made is its own until its transaction is over.                          *)
(***************************************************************************)
EXTENDS BundleImport, FiniteSetTheorems, TLAPS

-----------------------------------------------------------------------------
(* Sequences and sets of numbers *)

\* A file is added before those an importer made.
LEMMA PrependIs ==
  ASSUME NEW S, NEW q \in Seq(S), NEW f \in S
  PROVE  /\ <<f>> \o q \in Seq(S) /\ DOMAIN (<<f>> \o q) = 1 .. Len(q) + 1
         /\ (<<f>> \o q)[1] = f
         /\ \A k \in 2 .. Len(q) + 1 : (<<f>> \o q)[k] = q[k - 1]
OBVIOUS

\* The file that was made last is taken out.
LEMMA TailIs ==
  ASSUME NEW S, NEW q \in Seq(S), q # <<>>
  PROVE  /\ Tail(q) \in Seq(S) /\ DOMAIN Tail(q) = 1 .. Len(q) - 1
         /\ Head(q) = q[1] /\ 1 \in DOMAIN q /\ Head(q) \in S
         /\ \A k \in 1 .. Len(q) - 1 : Tail(q)[k] = q[k + 1]
OBVIOUS

\* A set of numbers has a least element.
LEMMA LeastElement ==
  ASSUME NEW T \in SUBSET Nat, T # {}
  PROVE  \E x \in T : \A y \in T : x <= y
<1> DEFINE less == OpToRel(<, Nat)
<1>1. IsWellFoundedOn(less, Nat)
  BY NatLessThanWellFounded
<1>2. \A x, y \in Nat : <<y, x>> \in less <=> y < x
  BY DEF OpToRel
<1> HIDE DEF less
<1>3. \E x \in T : \A y \in T : ~ (<<y, x>> \in less)
  BY <1>1, WFMin
<1>4. PICK x \in T : \A y \in T : ~ (<<y, x>> \in less)
  BY <1>3
<1>5. \A y \in T : x \in Nat /\ y \in Nat /\ ~ (y < x)
  BY <1>2, <1>4
<1> QED
  BY <1>5

\* A bounded one has a greatest.
LEMMA GreatestElement ==
  ASSUME NEW n \in Nat, NEW T \in SUBSET (1 .. n), T # {}
  PROVE  \E x \in T : \A y \in T : y <= x
<1> DEFINE above == {k \in Nat : \A x \in T : x <= k}
<1>1. n \in above /\ \A x \in T : x \in Nat /\ x # 0
  OBVIOUS
<1>2. PICK k \in above : \A l \in above : k <= l
  BY <1>1, LeastElement
<1>3. k \in T
  <2>1. SUFFICES ASSUME k \notin T
                 PROVE  FALSE
    OBVIOUS
  <2>2. PICK y \in T : TRUE
    OBVIOUS
  <2>3. y \in Nat /\ y # 0 /\ y <= k /\ y # k /\ k \in Nat
    BY <1>1, <2>1, <2>2
  <2>4. k - 1 \in Nat
    BY <2>3
  <2>5. ASSUME NEW x \in T
        PROVE  x <= k - 1
    <3>1. x \in Nat /\ x <= k /\ x # k
      BY <1>1, <2>1
    <3> QED
      BY <2>3, <3>1
  <2>6. k <= k - 1
    BY <1>2, <2>4, <2>5
  <2> QED
    BY <2>3, <2>6
<1> QED
  BY <1>2, <1>3

-----------------------------------------------------------------------------
(* What is copied next *)

\* Of the archives to be copied one is the first.
LEMMA FirstIs ==
  ASSUME NEW T \in SUBSET Nat, T # {}
  PROVE  First(T) \in T
<1> DEFINE One == {x \in T : Rank(x) = 1}
<1>1. \A x \in T : Rank(x) \in {1, 2}
  BY DEF Rank
<1>2. \E e \in T : \A x \in T \ {e} : Rank(e) < Rank(x) \/ (Rank(e) = Rank(x) /\ e < x)
  <2>1. CASE One = {}
    <3>1. PICK e \in T : \A y \in T : e <= y
      BY LeastElement
    <3>2. \A x \in T : Rank(x) = 2
      BY <1>1, <2>1
    <3>3. ASSUME NEW x \in T \ {e}
          PROVE  Rank(e) = Rank(x) /\ e < x
      BY <3>1, <3>2
    <3> QED
      BY <3>3
  <2>2. CASE One # {}
    <3>1. PICK e \in One : \A y \in One : e <= y
      BY <2>2, LeastElement
    <3>2. ASSUME NEW x \in T \ {e}
          PROVE  Rank(e) < Rank(x) \/ (Rank(e) = Rank(x) /\ e < x)
      <4>1. CASE Rank(x) = 1
        BY <3>1, <4>1
      <4>2. CASE Rank(x) # 1
        <5>1. Rank(x) = 2 /\ Rank(e) = 1
          BY <1>1, <3>1, <4>2
        <5> QED
          BY <5>1
      <4> QED
        BY <4>1, <4>2
    <3> QED
      BY <3>1, <3>2
  <2> QED
    BY <2>1, <2>2
<1> QED
  BY <1>2 DEF First

\* The files of an archive: the last of them is 2.
LEMMA FilesAre ==
  ASSUME NEW e \in Nat
  PROVE  /\ <<e, 2>> \in FilesOf(e)
         /\ \A f \in FilesOf(e) : f \in File /\ f[1] = e /\ f = <<e, f[2]>> /\ f[2] \in 0 .. 2
BY DEF FilesOf, Parts, File

\* The files an importer has, by its record.
MadeIn(h) == {h.made[k] : k \in DOMAIN h.made}

\* The next file is one of the archive that is not made, and the last one is the only one.
LEMMA NextPartIs ==
  ASSUME NEW i, Name(i) \in Nat, <<Name(i), 2>> \notin MadeBy(i)
  PROVE  /\ NextPart(i) \in FilesOf(Name(i)) \ MadeBy(i)
         /\ LastPart(i) => FilesOf(Name(i)) \ MadeBy(i) = {NextPart(i)}
<1> DEFINE missing == FilesOf(Name(i)) \ MadeBy(i)
           places == {f[2] : f \in missing}
<1>1. \A f \in missing : f = <<Name(i), f[2]>> /\ f[2] \in 0 .. 2
  BY FilesAre
<1>2. <<Name(i), 2>> \in missing
  BY FilesAre
<1>3. places \in SUBSET Nat /\ places # {}
  BY <1>1, <1>2
<1>4. PICK k \in places : \A l \in places : k <= l
  BY <1>3, LeastElement
<1>5. \E f \in missing : \A g \in missing : f[2] <= g[2]
  BY <1>4
<1>6. PICK f : f = NextPart(i)
  OBVIOUS
<1>7. f \in missing /\ \A g \in missing : f[2] <= g[2]
  BY <1>5, <1>6 DEF NextPart
<1>8. ASSUME f[2] = 2, NEW g \in missing
      PROVE  g = f
  <2>1. g[2] = 2
    BY <1>1, <1>7, <1>8
  <2> QED
    BY <1>1, <1>7, <1>8, <2>1
<1> QED
  BY <1>6, <1>7, <1>8 DEF LastPart
-----------------------------------------------------------------------------
(* The files of the importers *)

\* Importer i takes h for its record, and nothing happens to the session.
Becomes(i, h) ==
  /\ h \in ImporterState /\ importer' = [importer EXCEPT ![i] = h]
  /\ UNCHANGED <<session, steps, retries, bundle>>

\* Of the files, it takes away only what it made, and makes only what was not there.
FilesKept(i, h) ==
  /\ disk \ disk' \subseteq MadeBy(i)
  /\ \A f \in disk' \ disk : f \in File /\ f[1] \in Copies
  /\ torn' \subseteq disk' /\ (torn' \ torn) \cap disk = {}
  /\ MadeIn(h) \cap disk \subseteq MadeBy(i) /\ MadeIn(h) \subseteq disk' \ torn'
  /\ \A k, l \in DOMAIN h.made : h.made[k] = h.made[l] => k = l

\* The transaction is that of the importer that writes, and the first.
LockKept(i, h) ==
  /\ lock' \in Importer \cup {NoImporter}
  /\ h.step = "write" <=> lock' = i
  /\ \A j \in Importer \ {i} : lock' = j <=> lock = j
  /\ h.step \in {"idle", "plan"} => h.made = <<>>

Lab == BundleTypeOK /\ BundleStory /\ bundle # Nothing

LEMMA LabIs ==
  ASSUME Lab
  PROVE  /\ MadeApart /\ CopiesFollowed /\ Committed /\ NothingLost
         /\ importer \in [Importer -> ImporterState]
         /\ torn \subseteq disk
         /\ Copies \in SUBSET Nat /\ Copies \subseteq bundle.events
<1>1. bundle.events \subseteq Event(session) /\ session.log \in Seq(EventRecord)
  BY DEF Lab, BundleTypeOK
<1>2. Event(session) \subseteq Nat
  BY <1>1 DEF Event
<1>3. Copies \subseteq bundle.events
  BY DEF Copies
<1> QED
  BY <1>1, <1>2, <1>3 DEF Lab, BundleStory, BundleTypeOK

\* Who has which record afterwards.
LEMMA BecomesIs ==
  ASSUME Lab, NEW i \in Importer, NEW h, Becomes(i, h)
  PROVE  /\ importer' \in [Importer -> ImporterState]
         /\ importer'[i] = h /\ MadeBy(i)' = MadeIn(h)
         /\ \A j \in Importer \ {i} : importer'[j] = importer[j] /\ MadeBy(j)' = MadeBy(j)
         /\ Copies' = Copies
         /\ \A e : FilesOf(e)' = FilesOf(e)
<1>1. /\ importer' \in [Importer -> ImporterState] /\ importer'[i] = h
      /\ \A j \in Importer \ {i} : importer'[j] = importer[j]
  BY LabIs DEF Becomes
<1>2. session' = session /\ bundle' = bundle
  BY DEF Becomes
<1>3. Copies' = Copies
  BY <1>2 DEF Copies
<1>4. ASSUME NEW e
      PROVE  FilesOf(e)' = FilesOf(e)
  BY <1>2 DEF FilesOf
<1>5. MadeBy(i)' = MadeIn(h)
  BY <1>1 DEF MadeBy, MadeIn
<1>6. ASSUME NEW j \in Importer \ {i}
      PROVE  MadeBy(j)' = MadeBy(j)
  <2>1. importer'[j] = importer[j]
    BY <1>1
  <2> QED
    BY <2>1 DEF MadeBy
<1> QED
  BY <1>1, <1>3, <1>4, <1>5, <1>6

\* The files of the others stay with them.
LEMMA MadeStaysApart ==
  ASSUME Lab, NEW i \in Importer, NEW h, Becomes(i, h), FilesKept(i, h), LockKept(i, h)
  PROVE  MadeApart'
<1>0. MadeApart
  BY LabIs
<1>1. \A j \in Importer : At(j, "write")' <=> lock' = j
  <2>1. ASSUME NEW j \in Importer
        PROVE  At(j, "write")' <=> lock' = j
    <3>1. CASE j = i
      BY <3>1, BecomesIs DEF LockKept, At
    <3>2. CASE j # i
      <4>1. At(j, "write")' <=> At(j, "write")
        BY <3>2, BecomesIs DEF At
      <4> QED
        BY <1>0, <3>2, <4>1 DEF LockKept, MadeApart
    <3> QED
      BY <3>1, <3>2
  <2> QED
    BY <2>1
<1>2. \A j \in Importer : importer'[j].step \in {"idle", "plan"} => importer'[j].made = <<>>
  BY <1>0, BecomesIs DEF LockKept, MadeApart
<1>3. \A j \in Importer : \A k, l \in DOMAIN importer'[j].made :
        importer'[j].made[k] = importer'[j].made[l] => k = l
  <2>1. ASSUME NEW j \in Importer, NEW k \in DOMAIN importer'[j].made,
               NEW l \in DOMAIN importer'[j].made, importer'[j].made[k] = importer'[j].made[l]
        PROVE  k = l
    <3>1. CASE j = i
      BY <2>1, <3>1, BecomesIs DEF FilesKept
    <3>2. CASE j # i
      BY <1>0, <2>1, <3>2, BecomesIs DEF MadeApart
    <3> QED
      BY <3>1, <3>2
  <2> QED
    BY <2>1
<1>4. ASSUME NEW j \in Importer \ {i}
      PROVE  /\ MadeBy(j) \subseteq disk' \ torn'
             /\ MadeIn(h) \cap MadeBy(j) = {}
  <2>1. MadeBy(j) \subseteq disk \ torn /\ MadeBy(i) \cap MadeBy(j) = {}
    BY <1>0 DEF MadeApart
  <2> QED
    BY <2>1 DEF FilesKept
<1>5. \A j \in Importer : MadeBy(j)' \subseteq disk' \ torn'
  <2>1. ASSUME NEW j \in Importer
        PROVE  MadeBy(j)' \subseteq disk' \ torn'
    <3>1. CASE j = i
      BY <3>1, BecomesIs DEF FilesKept
    <3>2. CASE j # i
      BY <1>4, <3>2, BecomesIs
    <3> QED
      BY <3>1, <3>2
  <2> QED
    BY <2>1
<1>6. ASSUME NEW j \in Importer, NEW k \in Importer, j # k
      PROVE  MadeBy(j)' \cap MadeBy(k)' = {}
  <2>1. CASE j = i
    BY <1>4, <1>6, <2>1, BecomesIs
  <2>2. CASE k = i
    BY <1>4, <1>6, <2>2, BecomesIs
  <2>3. CASE j # i /\ k # i
    BY <1>0, <1>6, <2>3, BecomesIs DEF MadeApart
  <2> QED
    BY <2>1, <2>2, <2>3
<1> QED
  BY <1>1, <1>2, <1>3, <1>5, <1>6 DEF MadeApart

\* What is whole and nobody's own stays so.
LEMMA WholeStays ==
  ASSUME Lab, NEW i \in Importer, NEW h, Becomes(i, h), FilesKept(i, h),
         NEW e \in Nat, Stays(e)
  PROVE  Stays(e)'
<1>0. /\ FilesOf(e) \subseteq disk \ torn
      /\ \A j \in Importer : MadeBy(j) \cap FilesOf(e) = {}
  BY DEF Stays, Whole
<1>1. FilesOf(e)' = FilesOf(e)
  BY BecomesIs
<1>2. FilesOf(e) \subseteq disk' \ torn'
  BY <1>0 DEF FilesKept
<1>3. MadeIn(h) \cap FilesOf(e) = {}
  BY <1>0 DEF FilesKept
<1>4. ASSUME NEW j \in Importer
      PROVE  MadeBy(j)' \cap FilesOf(e) = {}
  <2>1. CASE j = i
    BY <1>3, <2>1, BecomesIs
  <2>2. CASE j # i
    BY <1>0, <2>2, BecomesIs
  <2> QED
    BY <2>1, <2>2
<1> QED
  BY <1>1, <1>2, <1>4 DEF Stays, Whole

\* What an importer with record h has behind it.
Behind(h) ==
  /\ h.todo \subseteq Copies /\ h.foreign \subseteq h.reuse
  /\ \A e \in h.todo : <<e, 2>> \notin MadeIn(h)
  /\ h.step = "write" => \A e \in Copies \ h.todo :
                           e \in h.reuse \/ FilesOf(e) \subseteq MadeIn(h)
  /\ h.step \in {"plan", "write"} => \A e \in h.reuse \ h.foreign : e \in Nat /\ Stays(e)

LEMMA CopiesStayFollowed ==
  ASSUME Lab, NEW i \in Importer, NEW h, Becomes(i, h), FilesKept(i, h), Behind(h)
  PROVE  CopiesFollowed'
<1>1. ASSUME NEW e \in Nat, Stays(e)
      PROVE  Stays(e)'
  BY <1>1, WholeStays
<1>2. /\ importer' \in [Importer -> ImporterState]
      /\ importer'[i] = h /\ MadeBy(i)' = MadeIn(h)
      /\ \A j \in Importer \ {i} : importer'[j] = importer[j] /\ MadeBy(j)' = MadeBy(j)
      /\ Copies' = Copies
      /\ \A e : FilesOf(e)' = FilesOf(e)
  BY BecomesIs
<1>3. ASSUME NEW j \in Importer
      PROVE  /\ importer'[j].todo \subseteq Copies
             /\ importer'[j].foreign \subseteq importer'[j].reuse
             /\ \A e \in importer'[j].todo : <<e, 2>> \notin MadeBy(j)'
             /\ importer'[j].step = "write" => \A e \in Copies \ importer'[j].todo :
                  e \in importer'[j].reuse \/ FilesOf(e)' \subseteq MadeBy(j)'
             /\ importer'[j].step \in {"plan", "write"} =>
                  \A e \in importer'[j].reuse \ importer'[j].foreign : Stays(e)'
  <2>1. CASE j = i
    BY <1>1, <1>2, <2>1 DEF Behind
  <2>2. CASE j # i
    <3>1. /\ importer'[j] = importer[j] /\ MadeBy(j)' = MadeBy(j)
      BY <1>2, <2>2
    <3>2. /\ importer[j].todo \subseteq Copies
          /\ importer[j].foreign \subseteq importer[j].reuse
          /\ \A e \in importer[j].todo : <<e, 2>> \notin MadeBy(j)
          /\ importer[j].step = "write" => \A e \in Copies \ importer[j].todo :
               e \in importer[j].reuse \/ FilesOf(e) \subseteq MadeBy(j)
          /\ importer[j].step \in {"plan", "write"} =>
               \A e \in importer[j].reuse \ importer[j].foreign : Stays(e)
      BY LabIs DEF CopiesFollowed, At
    <3>3. importer[j].reuse \subseteq Nat
      BY LabIs DEF ImporterState
    <3>4. importer[j].step \in {"plan", "write"} =>
            \A e \in importer[j].reuse \ importer[j].foreign : Stays(e)'
      BY <1>1, <3>2, <3>3
    <3> QED
      BY <1>2, <3>1, <3>2, <3>4
  <2> QED
    BY <2>1, <2>2
<1>4. CopiesFollowed' <=>
        \A j \in Importer :
             /\ importer'[j].todo \subseteq Copies'
             /\ importer'[j].foreign \subseteq importer'[j].reuse
             /\ \A e \in importer'[j].todo : <<e, 2>> \notin MadeBy(j)'
             /\ importer'[j].step = "write" => \A e \in Copies' \ importer'[j].todo :
                  e \in importer'[j].reuse \/ FilesOf(e)' \subseteq MadeBy(j)'
             /\ importer'[j].step \in {"plan", "write"} =>
                  \A e \in importer'[j].reuse \ importer'[j].foreign : Stays(e)'
  BY DEF CopiesFollowed, At
<1> QED
  BY <1>2, <1>3, <1>4
\* The quarantine is about the session and the bundle.
LEMMA QuarantineStays ==
  ASSUME session' = session, bundle' = bundle
  PROVE  Quarantined' = Quarantined
<1>1. ASSUME NEW t
      PROVE  Unfinished(t)' = Unfinished(t)
  BY DEF Unfinished, LastSnapshot, Snapshots, OfType, Event
<1>2. Kept("job")' = Kept("job")
  BY DEF Kept
<1> QED
  BY <1>1, <1>2 DEF Quarantined

LEMMA CommittedStays ==
  ASSUME Lab, NEW i \in Importer, NEW h, Becomes(i, h), FilesKept(i, h), db' = db,
         lock' # NoImporter => db = <<>>
  PROVE  Committed'
<1>1. Committed /\ Copies \in SUBSET Nat
  BY LabIs
<1>2. Copies' = Copies /\ Quarantined' = Quarantined
  BY BecomesIs, QuarantineStays DEF Becomes
<1>3. \A e \in Copies : Stays(e) => Stays(e)'
  BY <1>1, WholeStays
<1>4. ASSUME NEW n \in DOMAIN db
      PROVE  /\ db'[n].quarantined = Quarantined'
             /\ db'[n].foreign = {} => \A e \in Copies' : Stays(e)'
  <2>1. /\ db[n].quarantined = Quarantined
        /\ db[n].foreign = {} => \A e \in Copies : Stays(e)
    BY <1>1 DEF Committed
  <2> QED
    BY <1>2, <1>3, <2>1
<1>5. Len(db') <= 1 /\ (lock' # NoImporter => db' = <<>>)
  BY <1>1 DEF Committed
<1>6. Committed' <=> /\ Len(db') <= 1 /\ (lock' # NoImporter => db' = <<>>)
                     /\ \A n \in DOMAIN db' :
                          /\ db'[n].quarantined = Quarantined'
                          /\ db'[n].foreign = {} => \A e \in Copies' : Stays(e)'
  BY DEF Committed
<1> QED
  BY <1>4, <1>5, <1>6

\* Nothing is lost of what the importer had, or somebody died, or something is committed.
LEMMA NothingGetsLost ==
  ASSUME Lab, NEW i \in Importer, NEW h, Becomes(i, h),
         crashes' = 0 /\ db' = <<>> =>
           crashes = 0 /\ db = <<>> /\ disk' \subseteq (disk \ MadeBy(i)) \cup MadeIn(h)
  PROVE  NothingLost'
<1>1. SUFFICES ASSUME crashes' = 0, db' = <<>>, NEW f \in disk'
               PROVE  \E j \in Importer : f \in MadeBy(j)'
  BY DEF NothingLost
<1>2. CASE f \in MadeIn(h)
  BY <1>2, BecomesIs
<1>3. CASE f \notin MadeIn(h)
  <2>1. f \in disk \ MadeBy(i) /\ crashes = 0 /\ db = <<>>
    BY <1>1, <1>3
  <2>2. PICK j \in Importer : f \in MadeBy(j)
    BY <2>1, LabIs DEF NothingLost
  <2>3. j # i
    BY <2>1, <2>2
  <2> QED
    BY <2>2, <2>3, BecomesIs
<1> QED
  BY <1>2, <1>3

\* A step of an importer that commits nothing.
LEMMA LabStep ==
  ASSUME Lab, NEW i \in Importer, NEW h, Becomes(i, h), FilesKept(i, h), LockKept(i, h),
         Behind(h), db' = db, lock' # NoImporter => db = <<>>,
         errors' \in 0 .. MaxErrors, crashes' \in 0 .. MaxCrashes, crashes' = 0 => crashes = 0,
         crashes' = 0 => disk' \subseteq (disk \ MadeBy(i)) \cup MadeIn(h)
  PROVE  BundleTypeOK' /\ BundleStory'
<1>1. MadeApart' /\ CopiesFollowed' /\ Committed' /\ NothingLost'
  BY MadeStaysApart, CopiesStayFollowed, CommittedStays, NothingGetsLost
<1>2. session' = session /\ bundle' = bundle /\ steps' = steps /\ retries' = retries
  BY DEF Becomes
<1>3. SessionSound(session)' /\ (retries' = 0 => OneContext(session)')
  BY <1>2 DEF Lab, BundleStory
<1>4. bundle' \in {Nothing, Exported(session)'} /\ bundle' # Nothing
  BY <1>2 DEF Lab, BundleStory
<1>5. BundleStory'
  BY <1>1, <1>3, <1>4 DEF BundleStory
<1>6. Event(session)' = Event(session)
  BY <1>2
<1>7. \A f \in disk' : f \in File /\ f[1] \in bundle'.events
  <2>1. \A f \in disk : f \in File /\ f[1] \in bundle.events
    BY DEF Lab, BundleTypeOK
  <2> QED
    BY <1>2, <2>1, LabIs DEF FilesKept
<1>8. BundleTypeOK'
  <2>1. importer' \in [Importer -> ImporterState]
    BY BecomesIs
  <2> QED
    BY <1>2, <1>6, <1>7, <2>1 DEF Lab, BundleTypeOK, FilesKept, LockKept
<1> QED
  BY <1>5, <1>8

\* A record that keeps what was made, or has nothing, while nothing happens to the files.
LEMMA QuietFiles ==
  ASSUME Lab, NEW i \in Importer, NEW h, disk' = disk, torn' = torn,
         h.made = importer[i].made \/ h.made = <<>>
  PROVE  /\ FilesKept(i, h)
         /\ h.made = importer[i].made => MadeIn(h) = MadeBy(i)
         /\ h.made = <<>> => MadeIn(h) = {}
<1>1. /\ MadeApart /\ torn \subseteq disk
  BY LabIs
<1>2. h.made = importer[i].made => MadeIn(h) = MadeBy(i)
  BY DEF MadeIn, MadeBy
<1>3. h.made = <<>> => MadeIn(h) = {} /\ DOMAIN h.made = {}
  BY DEF MadeIn
<1>4. MadeIn(h) \subseteq MadeBy(i) /\ MadeBy(i) \subseteq disk \ torn
  BY <1>1, <1>2, <1>3 DEF MadeApart
<1>5. \A k, l \in DOMAIN h.made : h.made[k] = h.made[l] => k = l
  BY <1>1, <1>3 DEF MadeApart
<1> QED
  BY <1>1, <1>2, <1>3, <1>4, <1>5 DEF FilesKept
-----------------------------------------------------------------------------
(* The steps of an import *)

LEMMA ImporterIs ==
  ASSUME Lab, NEW i \in Importer
  PROVE  /\ importer[i] \in ImporterState
         /\ importer[i].step \in {"idle", "plan", "write", "undo"}
         /\ importer[i].todo \in SUBSET Nat /\ importer[i].reuse \in SUBSET Nat
         /\ importer[i].foreign \in SUBSET Nat /\ importer[i].made \in Seq(File)
         /\ i # NoImporter
BY LabIs, BundleAssumption DEF ImporterState, NoImporter

LEMMA IdleIs ==
  /\ Idle \in ImporterState /\ Idle.step = "idle" /\ Idle.made = <<>> /\ MadeIn(Idle) = {}
  /\ Idle.todo = {} /\ Idle.reuse = {} /\ Idle.foreign = {}
BY DEF Idle, ImporterState, MadeIn

\* An importer that gives up has nothing behind it.
LEMMA IdleIsBehind == Behind(Idle)
BY IdleIs DEF Behind

\* The counters of what did not happen.
LEMMA CountersAre ==
  ASSUME Lab
  PROVE  /\ errors \in 0 .. MaxErrors /\ crashes \in 0 .. MaxCrashes
         /\ lock \in Importer \cup {NoImporter}
         /\ lock # NoImporter => db = <<>>
         /\ \A i \in Importer : At(i, "write") <=> lock = i
         /\ \A i \in Importer : importer[i].step \in {"idle", "plan"} =>
              importer[i].made = <<>> /\ MadeBy(i) = {}
<1>1. \A i \in Importer : importer[i].step \in {"idle", "plan"} => importer[i].made = <<>>
  BY LabIs DEF MadeApart
<1>2. \A i \in Importer : importer[i].made = <<>> => MadeBy(i) = {}
  BY DEF MadeBy
<1> QED
  BY <1>1, <1>2, LabIs DEF Lab, BundleTypeOK, MadeApart, Committed

\* An importer outside of a transaction leaves the files alone.
Quietly(i, h) ==
  Goes(i, h) /\ UNCHANGED <<LabRest, db, lock, disk, torn, errors, crashes>>

LEMMA QuietStep ==
  ASSUME Lab, NEW i \in Importer, NEW h \in ImporterState,
         importer[i].step \in {"idle", "plan"}, h.step \in {"idle", "plan"}, h.made = <<>>,
         Behind(h), Quietly(i, h)
  PROVE  BundleTypeOK' /\ BundleStory'
<1>1. Becomes(i, h)
  BY DEF Quietly, Becomes, Goes, LabRest, grownVars
<1>2. /\ disk' = disk /\ torn' = torn /\ db' = db /\ lock' = lock
      /\ errors' = errors /\ crashes' = crashes
  BY DEF Quietly
<1>3. MadeBy(i) = {} /\ lock # i
  BY CountersAre DEF At
<1>4. LockKept(i, h)
  BY <1>2, <1>3, CountersAre DEF LockKept
<1>5. FilesKept(i, h)
  BY <1>2, QuietFiles
<1>6. disk' \subseteq (disk \ MadeBy(i)) \cup MadeIn(h)
  BY <1>2, <1>3
<1> QED
  BY <1>1, <1>2, <1>3, <1>4, <1>5, <1>6, CountersAre, LabStep

LEMMA VerifyKeeps ==
  ASSUME Lab, NEW i \in Importer, NEW a, Verify(i, a)
  PROVE  BundleTypeOK' /\ BundleStory'
<1>1. PICK h : h = [Idle EXCEPT !.step = "plan", !.todo = Copies]
  OBVIOUS
<1>2. Copies \in SUBSET Nat
  BY LabIs
<1>a. h = [step |-> "plan", todo |-> Copies, reuse |-> {}, foreign |-> {}, made |-> <<>>]
  BY <1>1 DEF Idle
<1>3. /\ h \in ImporterState /\ h.step = "plan" /\ h.made = <<>>
      /\ h.todo = Copies /\ h.reuse = {} /\ h.foreign = {}
  BY <1>2, <1>a DEF ImporterState
<1>4. MadeIn(h) = {}
  BY <1>3 DEF MadeIn
<1>5. Behind(h)
  BY <1>3, <1>4 DEF Behind
<1>6. importer[i].step = "idle" /\ Quietly(i, h)
  BY <1>1 DEF Verify, At, Quietly
<1> QED
  BY <1>3, <1>5, <1>6, QuietStep

LEMMA RepointedKeeps ==
  ASSUME Lab, NEW i \in Importer, At(i, "plan"), importer[i].todo # {}, Repointed(i)
  PROVE  BundleTypeOK' /\ BundleStory'
<1>1. PICK e : e = Name(i)
  OBVIOUS
<1>2. e \in importer[i].todo /\ e \in Nat
  BY <1>1, ImporterIs, FirstIs DEF Name
<1>3. PICK rest : rest = [importer[i] EXCEPT !.todo = Rest(i)]
  OBVIOUS
<1>4. /\ rest \in ImporterState /\ rest.step = "plan" /\ rest.made = <<>>
      /\ rest.todo = importer[i].todo \ {e} /\ rest.reuse = importer[i].reuse
      /\ rest.foreign = importer[i].foreign
  BY <1>1, <1>3, ImporterIs, CountersAre DEF At, ImporterState, Rest
<1>5. PICK more : more = [rest EXCEPT !.reuse = @ \cup {e},
                                      !.foreign = @ \cup (Theirs(i) \cap {e})]
  OBVIOUS
<1>6. /\ more \in ImporterState /\ more.step = "plan" /\ more.made = <<>>
      /\ more.todo = importer[i].todo \ {e} /\ more.reuse = importer[i].reuse \cup {e}
      /\ more.foreign = importer[i].foreign \cup (Theirs(i) \cap {e})
  BY <1>2, <1>4, <1>5 DEF ImporterState
<1>7. MadeIn(rest) = {} /\ MadeIn(more) = {}
  BY <1>4, <1>6 DEF MadeIn
<1>8. /\ importer[i].todo \subseteq Copies /\ importer[i].foreign \subseteq importer[i].reuse
      /\ \A x \in importer[i].reuse \ importer[i].foreign : x \in Nat /\ Stays(x)
  BY LabIs, ImporterIs DEF CopiesFollowed, At
<1>9. Behind(rest)
  BY <1>4, <1>7, <1>8 DEF Behind
<1>10. ASSUME Whole(e)
       PROVE  Behind(more)
  <2>1. ASSUME e \notin Theirs(i)
        PROVE  Stays(e)
    <3>1. ASSUME NEW j \in Importer
          PROVE  MadeBy(j) \cap FilesOf(e) = {}
      <4>1. CASE j = i
        <5>1. MadeBy(i) = {}
          BY CountersAre DEF At
        <5> QED
          BY <4>1, <5>1
      <4>2. CASE j # i
        <5>1. \A f \in MadeBy(j) : f[1] # e
          BY <2>1, <4>2 DEF Theirs
        <5>2. \A f \in FilesOf(e) : f[1] = e
          BY <1>2, FilesAre
        <5> QED
          BY <5>1, <5>2
      <4> QED
        BY <4>1, <4>2
    <3> QED
      BY <1>10, <3>1 DEF Stays
  <2>2. \A x \in more.reuse \ more.foreign : x \in Nat /\ Stays(x)
    BY <1>2, <1>6, <1>8, <2>1
  <2>3. more.todo \subseteq Copies /\ more.foreign \subseteq more.reuse
    BY <1>6, <1>8
  <2> QED
    BY <1>6, <1>7, <2>2, <2>3 DEF Behind
<1>11. Quietly(i, rest) \/ (Whole(e) /\ Quietly(i, more)) \/ Quietly(i, Idle)
  BY <1>1, <1>3, <1>5 DEF Repointed, Quietly
<1>12. importer[i].step = "plan"
  BY DEF At
<1>13. CASE Quietly(i, rest)
  BY <1>4, <1>9, <1>12, <1>13, QuietStep
<1>14. CASE Whole(e) /\ Quietly(i, more)
  BY <1>6, <1>10, <1>12, <1>14, QuietStep
<1>15. CASE Quietly(i, Idle)
  BY <1>12, <1>15, IdleIs, IdleIsBehind, QuietStep
<1> QED
  BY <1>11, <1>13, <1>14, <1>15

LEMMA BeginKeeps ==
  ASSUME Lab, NEW i \in Importer, Begin(i)
  PROVE  BundleTypeOK' /\ BundleStory'
<1>0. /\ importer[i].step = "plan" /\ lock = NoImporter
      /\ UNCHANGED <<LabRest, db, disk, torn, errors, crashes>>
      /\ disk' = disk /\ torn' = torn /\ db' = db /\ errors' = errors /\ crashes' = crashes
  BY DEF Begin, At
<1>1. CASE db = <<>>
  <2>1. PICK h : h = [importer[i] EXCEPT !.step = "write", !.todo = Copies]
    OBVIOUS
  <2>2. /\ h \in ImporterState /\ h.step = "write" /\ h.made = <<>> /\ h.todo = Copies
        /\ h.reuse = importer[i].reuse /\ h.foreign = importer[i].foreign
    BY <1>0, <2>1, LabIs, ImporterIs, CountersAre DEF ImporterState
  <2>3. lock' = i /\ Goes(i, h)
    BY <1>1, <2>1 DEF Begin
  <2>4. Becomes(i, h)
    BY <1>0, <2>2, <2>3 DEF Becomes, Goes, LabRest, grownVars
  <2>5. MadeIn(h) = {} /\ MadeBy(i) = {}
    BY <1>0, <2>2, CountersAre DEF MadeIn
  <2>6. Behind(h)
    <3>1. /\ importer[i].foreign \subseteq importer[i].reuse
          /\ \A x \in importer[i].reuse \ importer[i].foreign : x \in Nat /\ Stays(x)
      BY <1>0, LabIs, ImporterIs DEF CopiesFollowed
    <3> QED
      BY <2>2, <2>5, <3>1 DEF Behind
  <2>7. FilesKept(i, h)
    BY <1>0, <2>2, QuietFiles
  <2>8. LockKept(i, h)
    BY <1>0, <2>2, <2>3, ImporterIs DEF LockKept
  <2>9. disk' \subseteq (disk \ MadeBy(i)) \cup MadeIn(h)
    BY <1>0, <2>5
  <2> QED
    BY <1>0, <1>1, <2>4, <2>6, <2>7, <2>8, <2>9, CountersAre, LabStep
<1>2. CASE db # <<>>
  <2>1. Quietly(i, Idle)
    BY <1>0, <1>2 DEF Begin, Quietly
  <2> QED
    BY <1>0, <2>1, IdleIs, IdleIsBehind, QuietStep
<1> QED
  BY <1>1, <1>2

\* An importer that fails is left with its files.
LEMMA FailsKeeps ==
  ASSUME Lab, NEW i \in Importer, At(i, "write"), Fails(i), errors' \in 0 .. MaxErrors,
         UNCHANGED <<LabRest, db, disk, torn, crashes>>
  PROVE  BundleTypeOK' /\ BundleStory'
<1>1. PICK h : h = Undone(i)
  OBVIOUS
<1>2. /\ h \in ImporterState /\ h.step = "undo" /\ h.made = importer[i].made /\ h.todo = {}
      /\ h.reuse = importer[i].reuse /\ h.foreign = importer[i].foreign
  BY <1>1, ImporterIs DEF Undone, ImporterState
<1>3. Becomes(i, h) /\ lock' = NoImporter
  BY <1>1, <1>2 DEF Becomes, Fails, Goes, LabRest, grownVars
<1>4. disk' = disk /\ torn' = torn /\ db' = db /\ crashes' = crashes
  OBVIOUS
<1>5. FilesKept(i, h) /\ MadeIn(h) = MadeBy(i)
  BY <1>2, <1>4, QuietFiles
<1>6. lock = i
  BY CountersAre
<1>7. LockKept(i, h)
  <2>1. \A j \in Importer \ {i} : j # NoImporter /\ lock # j
    BY <1>6, ImporterIs
  <2> QED
    BY <1>2, <1>3, <2>1, ImporterIs DEF LockKept
<1>8. importer[i].foreign \subseteq importer[i].reuse
  BY LabIs DEF CopiesFollowed
<1>9. Behind(h)
  BY <1>2, <1>8 DEF Behind
<1>10. disk' \subseteq (disk \ MadeBy(i)) \cup MadeIn(h)
  BY <1>4, <1>5
<1> QED
  BY <1>3, <1>4, <1>5, <1>7, <1>9, <1>10, CountersAre, LabStep

\* One more file of an archive.
LEMMA WriteKeeps ==
  ASSUME Lab, NEW i \in Importer, At(i, "write"), importer[i].todo # {}, WriteExclusive(i),
         UNCHANGED <<LabRest, db, torn, errors, crashes>>
  PROVE  BundleTypeOK' /\ BundleStory'
<1>0. /\ errors' = errors /\ crashes' = crashes /\ db' = db /\ torn' = torn
      /\ session' = session /\ steps' = steps /\ retries' = retries /\ bundle' = bundle
  BY DEF LabRest, grownVars
<1>1. CASE NextPart(i) \in disk
  <2>1. Fails(i) /\ disk' = disk
    BY <1>1 DEF WriteExclusive
  <2> QED
    BY <1>0, <2>1, CountersAre, FailsKeeps DEF LabRest, grownVars
<1>2. CASE NextPart(i) \notin disk
  <2>1. PICK e : e = Name(i)
    OBVIOUS
  <2>2. e \in importer[i].todo /\ e \in Copies /\ e \in Nat /\ <<e, 2>> \notin MadeBy(i)
    BY <2>1, LabIs, ImporterIs, FirstIs DEF Name, CopiesFollowed
  <2>3. PICK f : f = NextPart(i)
    OBVIOUS
  <2>4. /\ f \in FilesOf(e) \ MadeBy(i) /\ f \in File /\ f[1] = e /\ f = <<e, f[2]>>
        /\ f[2] = 2 => FilesOf(e) \ MadeBy(i) = {f}
    BY <2>1, <2>2, <2>3, NextPartIs, FilesAre DEF LastPart
  <2>5. PICK q : q = <<f>> \o importer[i].made
    OBVIOUS
  <2>6. PICK T : T = IF f[2] = 2 THEN importer[i].todo \ {e} ELSE importer[i].todo
    OBVIOUS
  <2>7. /\ q \in Seq(File) /\ DOMAIN q = 1 .. Len(importer[i].made) + 1 /\ q[1] = f
        /\ \A k \in 2 .. Len(importer[i].made) + 1 : q[k] = importer[i].made[k - 1]
    BY <2>4, <2>5, ImporterIs, PrependIs
  <2>8. PICK h : h = [importer[i] EXCEPT !.made = q, !.todo = T]
    OBVIOUS
  <2>9. /\ h \in ImporterState /\ h.step = "write" /\ h.made = q /\ h.todo = T
        /\ h.reuse = importer[i].reuse /\ h.foreign = importer[i].foreign
    BY <2>6, <2>7, <2>8, ImporterIs DEF At, ImporterState
  <2>10. Goes(i, h) /\ disk' = disk \cup {f} /\ lock' = lock
    BY <1>2, <2>1, <2>3, <2>5, <2>6, <2>8 DEF WriteExclusive, LastPart, Rest
  <2>11. Becomes(i, h)
    BY <1>0, <2>9, <2>10 DEF Becomes, Goes
  <2>12. DOMAIN importer[i].made = 1 .. Len(importer[i].made) /\ Len(importer[i].made) \in Nat
    BY ImporterIs
  <2>13. MadeIn(h) = MadeBy(i) \cup {f}
    <3>1. ASSUME NEW k \in DOMAIN q
          PROVE  q[k] \in MadeBy(i) \cup {f}
      <4>1. CASE k = 1
        BY <2>7, <4>1
      <4>2. CASE k # 1
        <5>1. k \in 2 .. Len(importer[i].made) + 1 /\ k - 1 \in DOMAIN importer[i].made
          BY <2>7, <2>12, <4>2
        <5> QED
          BY <2>7, <5>1 DEF MadeBy
      <4> QED
        BY <4>1, <4>2
    <3>2. ASSUME NEW k \in DOMAIN importer[i].made
          PROVE  importer[i].made[k] \in MadeIn(h)
      <4>1. k + 1 \in DOMAIN q /\ k + 1 \in 2 .. Len(importer[i].made) + 1 /\ (k + 1) - 1 = k
        BY <2>7, <2>12
      <4>2. q[k + 1] = importer[i].made[k]
        BY <2>7, <4>1
      <4> QED
        BY <2>9, <4>1, <4>2 DEF MadeIn
    <3>3. f \in MadeIn(h)
      BY <2>7, <2>9, <2>12 DEF MadeIn
    <3> QED
      BY <2>9, <3>1, <3>2, <3>3 DEF MadeIn, MadeBy
  <2>14. \A k, l \in DOMAIN h.made : h.made[k] = h.made[l] => k = l
    <3>1. ASSUME NEW k \in DOMAIN q, NEW l \in DOMAIN q, q[k] = q[l]
          PROVE  k = l
      <4>1. \A m \in DOMAIN q : m = 1 \/ (/\ m \in 2 .. Len(importer[i].made) + 1
                                          /\ m - 1 \in DOMAIN importer[i].made /\ m \in Nat)
        BY <2>7, <2>12
      <4>2. \A m \in DOMAIN q : m # 1 => q[m] \in MadeBy(i) /\ q[m] # f
        BY <2>4, <2>7, <4>1 DEF MadeBy
      <4>3. CASE k = 1 \/ l = 1
        BY <2>7, <3>1, <4>2, <4>3
      <4>4. CASE k # 1 /\ l # 1
        <5>1. importer[i].made[k - 1] = importer[i].made[l - 1]
          BY <2>7, <3>1, <4>1, <4>4
        <5>2. k - 1 = l - 1
          BY <4>1, <4>4, <5>1, LabIs DEF MadeApart
        <5> QED
          BY <4>1, <4>4, <5>2
      <4> QED
        BY <4>3, <4>4
    <3> QED
      BY <2>9, <3>1
  <2>15. MadeBy(i) \subseteq disk \ torn /\ torn \subseteq disk
    BY LabIs DEF MadeApart
  <2>16. FilesKept(i, h)
    <3>1. f \notin disk
      BY <1>2, <2>3
    <3>2. \A g \in disk' \ disk : g \in File /\ g[1] \in Copies
      BY <2>2, <2>4, <2>10
    <3> QED
      BY <1>0, <2>10, <2>13, <2>14, <2>15, <3>1, <3>2 DEF FilesKept
  <2>17. LockKept(i, h)
    BY <2>9, <2>10, CountersAre DEF LockKept
  <2>18. Behind(h)
    <3>1. /\ importer[i].todo \subseteq Copies /\ importer[i].foreign \subseteq importer[i].reuse
          /\ \A x \in importer[i].todo : <<x, 2>> \notin MadeBy(i)
          /\ \A x \in Copies \ importer[i].todo :
               x \in importer[i].reuse \/ FilesOf(x) \subseteq MadeBy(i)
          /\ \A x \in importer[i].reuse \ importer[i].foreign : x \in Nat /\ Stays(x)
      BY LabIs, ImporterIs DEF CopiesFollowed, At
    <3>2. ASSUME NEW x \in T
          PROVE  <<x, 2>> # f
      <4>1. CASE f[2] = 2
        <5>1. x # e
          BY <2>6, <4>1
        <5> QED
          BY <2>4, <5>1
      <4>2. CASE f[2] # 2
        BY <4>2
      <4> QED
        BY <4>1, <4>2
    <3>3. T \subseteq importer[i].todo
      BY <2>6
    <3>4. ASSUME NEW x \in Copies \ T
          PROVE  x \in importer[i].reuse \/ FilesOf(x) \subseteq MadeIn(h)
      <4>1. CASE x \in importer[i].todo
        <5>1. x = e /\ f[2] = 2
          BY <2>6, <4>1
        <5> QED
          BY <2>4, <2>13, <5>1
      <4>2. CASE x \notin importer[i].todo
        BY <2>13, <3>1, <4>2
      <4> QED
        BY <4>1, <4>2
    <3> QED
      BY <2>9, <2>13, <3>1, <3>2, <3>3, <3>4 DEF Behind
  <2>19. disk' \subseteq (disk \ MadeBy(i)) \cup MadeIn(h)
    BY <2>10, <2>13
  <2>20. lock' # NoImporter => db = <<>>
    BY <2>10, CountersAre
  <2> QED
    BY <1>0, <2>11, <2>16, <2>17, <2>18, <2>19, <2>20, CountersAre, LabStep
<1> QED
  BY <1>1, <1>2

\* A look at an archive that is reused.
LEMMA LookKeeps ==
  ASSUME Lab, NEW i \in Importer, At(i, "write"), importer[i].todo # {}, LookAgain(i),
         UNCHANGED <<LabRest, db, torn, errors, crashes>>
  PROVE  BundleTypeOK' /\ BundleStory'
<1>0. /\ errors' = errors /\ crashes' = crashes /\ db' = db /\ torn' = torn /\ disk' = disk
      /\ session' = session /\ steps' = steps /\ retries' = retries /\ bundle' = bundle
  BY DEF LabRest, grownVars, LookAgain
<1>1. CASE Fails(i)
  BY <1>0, <1>1, CountersAre, FailsKeeps DEF LabRest, grownVars
<1>2. CASE ~ Fails(i)
  <2>1. PICK e : e = Name(i)
    OBVIOUS
  <2>2. e \in importer[i].reuse
    BY <2>1 DEF LookAgain
  <2>3. PICK h : h = [importer[i] EXCEPT !.todo = importer[i].todo \ {e}]
    OBVIOUS
  <2>4. /\ h \in ImporterState /\ h.step = "write" /\ h.made = importer[i].made
        /\ h.todo = importer[i].todo \ {e}
        /\ h.reuse = importer[i].reuse /\ h.foreign = importer[i].foreign
    BY <2>3, ImporterIs DEF At, ImporterState
  <2>5. Goes(i, h) /\ lock' = lock
    BY <1>2, <2>1, <2>3 DEF LookAgain, Rest
  <2>6. Becomes(i, h)
    BY <1>0, <2>4, <2>5 DEF Becomes, Goes
  <2>7. FilesKept(i, h) /\ MadeIn(h) = MadeBy(i)
    BY <1>0, <2>4, QuietFiles
  <2>8. LockKept(i, h)
    BY <2>4, <2>5, CountersAre DEF LockKept
  <2>9. Behind(h)
    <3>1. /\ importer[i].todo \subseteq Copies /\ importer[i].foreign \subseteq importer[i].reuse
          /\ \A x \in importer[i].todo : <<x, 2>> \notin MadeBy(i)
          /\ \A x \in Copies \ importer[i].todo :
               x \in importer[i].reuse \/ FilesOf(x) \subseteq MadeBy(i)
          /\ \A x \in importer[i].reuse \ importer[i].foreign : x \in Nat /\ Stays(x)
      BY LabIs, ImporterIs DEF CopiesFollowed, At
    <3> QED
      BY <2>2, <2>4, <2>7, <3>1 DEF Behind
  <2>10. lock' # NoImporter => db = <<>>
    BY <2>5, CountersAre
  <2>11. disk' \subseteq (disk \ MadeBy(i)) \cup MadeIn(h)
    BY <1>0, <2>7
  <2> QED
    BY <1>0, <2>6, <2>7, <2>8, <2>9, <2>10, <2>11, CountersAre, LabStep
<1> QED
  BY <1>1, <1>2

LEMMA MaterializeKeeps ==
  ASSUME Lab, NEW i \in Importer, MaterializeArchive(i) \/ MaterializeDirectory(i)
  PROVE  BundleTypeOK' /\ BundleStory'
<1>1. /\ At(i, "write") /\ importer[i].todo # {}
      /\ WriteExclusive(i) \/ LookAgain(i)
  BY DEF MaterializeArchive, MaterializeDirectory, Comes
<1>2. UNCHANGED <<LabRest, db, torn, errors, crashes>>
  BY DEF MaterializeArchive, MaterializeDirectory
<1> QED
  BY <1>1, <1>2, WriteKeeps, LookKeeps

LEMMA RepointKeeps ==
  ASSUME Lab, NEW i \in Importer, RepointArchive(i) \/ RepointWorkerArchive(i)
  PROVE  BundleTypeOK' /\ BundleStory'
<1>1. At(i, "plan") /\ importer[i].todo # {} /\ Repointed(i)
  BY DEF RepointArchive, RepointWorkerArchive, Comes
<1> QED
  BY <1>1, RepointedKeeps

LEMMA RaiseKeeps ==
  ASSUME Lab, NEW i \in Importer, Raise(i)
  PROVE  BundleTypeOK' /\ BundleStory'
<1>1. /\ At(i, "write") /\ Fails(i) /\ UNCHANGED <<LabRest, db, disk, torn, crashes>>
      /\ errors < MaxErrors /\ errors' = errors + 1
  BY DEF Raise
<1>2. errors' \in 0 .. MaxErrors
  BY <1>1, CountersAre, BundleAssumption
<1> QED
  BY <1>1, <1>2, FailsKeeps

\* An importer without a transaction does not have the lock before or after.
LEMMA LockIsKept ==
  ASSUME Lab, NEW i \in Importer, NEW h, h.step # "write",
         h.step \in {"idle", "plan"} => h.made = <<>>,
         lock' = Held(i)
  PROVE  LockKept(i, h) /\ (lock' # NoImporter => db = <<>>)
<1>1. lock' = IF lock = i THEN NoImporter ELSE lock
  BY DEF Held
<1>2. \A j \in Importer : j # NoImporter
  BY ImporterIs
<1>3. /\ lock \in Importer \cup {NoImporter}
      /\ lock # NoImporter => db = <<>>
  BY CountersAre
<1> QED
  BY <1>1, <1>2, <1>3 DEF LockKept

LEMMA UndoKeeps ==
  ASSUME Lab, NEW i \in Importer, Undo(i)
  PROVE  BundleTypeOK' /\ BundleStory'
<1>0. /\ errors' = errors /\ crashes' = crashes /\ db' = db /\ torn' = torn /\ lock' = lock
      /\ session' = session /\ steps' = steps /\ retries' = retries /\ bundle' = bundle
      /\ importer[i].step = "undo"
  BY DEF Undo, LabRest, grownVars, At
<1>1. lock' = Held(i)
  BY <1>0, CountersAre DEF Held, At
<1>2. CASE importer[i].made = <<>>
  <2>1. Becomes(i, Idle) /\ disk' = disk
    BY <1>0, <1>2, IdleIs DEF Undo, Becomes, Goes
  <2>2. FilesKept(i, Idle)
    BY <1>0, <2>1, IdleIs, QuietFiles
  <2>3. MadeBy(i) = {}
    BY <1>2 DEF MadeBy
  <2>4. disk' \subseteq (disk \ MadeBy(i)) \cup MadeIn(Idle)
    BY <2>1, <2>3
  <2>5. LockKept(i, Idle) /\ (lock' # NoImporter => db = <<>>)
    BY <1>1, IdleIs, LockIsKept
  <2> QED
    BY <1>0, <2>1, <2>2, <2>4, <2>5, IdleIsBehind, CountersAre, LabStep
<1>3. CASE importer[i].made # <<>>
  <2>1. PICK f : f = Head(importer[i].made)
    OBVIOUS
  <2>2. PICK q : q = Tail(importer[i].made)
    OBVIOUS
  <2>3. importer[i].made \in Seq(File)
    BY ImporterIs
  <2>4. /\ q \in Seq(File) /\ DOMAIN q = 1 .. Len(importer[i].made) - 1
        /\ f = importer[i].made[1] /\ 1 \in DOMAIN importer[i].made
        /\ \A k \in 1 .. Len(importer[i].made) - 1 : q[k] = importer[i].made[k + 1]
    BY <1>3, <2>1, <2>2, <2>3, TailIs
  <2>5. DOMAIN importer[i].made = 1 .. Len(importer[i].made) /\ Len(importer[i].made) \in Nat
    BY <2>3
  <2>6. PICK h : h = [importer[i] EXCEPT !.made = q]
    OBVIOUS
  <2>7. /\ h \in ImporterState /\ h.step = "undo" /\ h.made = q
        /\ h.todo = importer[i].todo
        /\ h.reuse = importer[i].reuse /\ h.foreign = importer[i].foreign
    BY <1>0, <2>4, <2>6, ImporterIs DEF ImporterState
  <2>8. Goes(i, h) /\ disk' = disk \ {f}
    BY <1>3, <2>1, <2>2, <2>6 DEF Undo
  <2>9. Becomes(i, h)
    BY <1>0, <2>7, <2>8 DEF Becomes, Goes
  <2>10. \A k, l \in DOMAIN importer[i].made :
           importer[i].made[k] = importer[i].made[l] => k = l
    BY LabIs DEF MadeApart
  <2>11. ASSUME NEW k \in DOMAIN q
         PROVE  k + 1 \in DOMAIN importer[i].made /\ q[k] = importer[i].made[k + 1] /\ q[k] # f
    <3>1. k + 1 \in DOMAIN importer[i].made /\ q[k] = importer[i].made[k + 1] /\ k + 1 # 1
      BY <2>4, <2>5
    <3> QED
      BY <2>4, <2>10, <3>1
  <2>12. MadeIn(h) = MadeBy(i) \ {f}
    <3>1. \A k \in DOMAIN q : q[k] \in MadeBy(i) \ {f}
      BY <2>11 DEF MadeBy
    <3>2. ASSUME NEW k \in DOMAIN importer[i].made, importer[i].made[k] # f
          PROVE  importer[i].made[k] \in MadeIn(h)
      <4>1. k # 1
        BY <2>4, <3>2
      <4>2. k - 1 \in DOMAIN q /\ (k - 1) + 1 = k
        BY <2>4, <2>5, <4>1
      <4>3. q[k - 1] = importer[i].made[k]
        BY <2>11, <4>2
      <4> QED
        BY <2>7, <4>2, <4>3 DEF MadeIn
    <3> QED
      BY <2>7, <3>1, <3>2 DEF MadeIn, MadeBy
  <2>13. \A k, l \in DOMAIN h.made : h.made[k] = h.made[l] => k = l
    <3>1. ASSUME NEW k \in DOMAIN q, NEW l \in DOMAIN q, q[k] = q[l]
          PROVE  k = l
      <4>1. k + 1 = l + 1
        BY <2>10, <2>11, <3>1
      <4>2. k \in Nat /\ l \in Nat
        BY <2>4, <2>5
      <4> QED
        BY <4>1, <4>2
    <3> QED
      BY <2>7, <3>1
  <2>14. MadeBy(i) \subseteq disk \ torn /\ torn \subseteq disk /\ f \in MadeBy(i)
    BY <2>4, LabIs DEF MadeApart, MadeBy
  <2>15. FilesKept(i, h)
    BY <1>0, <2>8, <2>12, <2>13, <2>14 DEF FilesKept
  <2>16. Behind(h)
    BY <2>7, <2>12, LabIs DEF Behind, CopiesFollowed
  <2>17. LockKept(i, h) /\ (lock' # NoImporter => db = <<>>)
    BY <1>1, <2>7, LockIsKept
  <2>18. disk' \subseteq (disk \ MadeBy(i)) \cup MadeIn(h)
    BY <2>8, <2>12
  <2> QED
    BY <1>0, <2>9, <2>15, <2>16, <2>17, <2>18, CountersAre, LabStep
<1> QED
  BY <1>2, <1>3

LEMMA CrashKeeps ==
  ASSUME Lab, NEW i \in Importer, Crash(i)
  PROVE  BundleTypeOK' /\ BundleStory'
<1>0. /\ errors' = errors /\ db' = db /\ crashes < MaxCrashes /\ crashes' = crashes + 1
      /\ session' = session /\ steps' = steps /\ retries' = retries /\ bundle' = bundle
      /\ lock' = Held(i) /\ Goes(i, Idle)
  BY DEF Crash, LabRest, grownVars
<1>1. Becomes(i, Idle)
  BY <1>0, IdleIs DEF Becomes, Goes
<1>2. crashes' \in 0 .. MaxCrashes /\ crashes' # 0
  BY <1>0, CountersAre, BundleAssumption
<1>3. LockKept(i, Idle) /\ (lock' # NoImporter => db = <<>>)
  BY <1>0, IdleIs, LockIsKept
<1>4. FilesKept(i, Idle)
  <2>1. CASE disk' = disk /\ torn' = torn
    BY <2>1, IdleIs, QuietFiles
  <2>2. CASE ~ (disk' = disk /\ torn' = torn)
    <3>1. PICK f : f = NextPart(i)
      OBVIOUS
    <3>2. /\ At(i, "write") /\ importer[i].todo # {} /\ f \notin disk
          /\ disk' = disk \cup {f} /\ torn' = torn \cup {f}
      BY <2>2, <3>1 DEF Crash
    <3>3. PICK e : e = Name(i)
      OBVIOUS
    <3>4. e \in Copies /\ e \in Nat /\ <<e, 2>> \notin MadeBy(i)
      BY <3>2, <3>3, LabIs, ImporterIs, FirstIs DEF Name, CopiesFollowed
    <3>5. f \in File /\ f[1] = e
      BY <3>1, <3>3, <3>4, NextPartIs, FilesAre
    <3>6. torn \subseteq disk /\ DOMAIN Idle.made = {}
      BY IdleIs, LabIs
    <3> QED
      BY <3>2, <3>4, <3>5, <3>6, IdleIs DEF FilesKept
  <2> QED
    BY <2>1, <2>2
<1> QED
  BY <1>0, <1>1, <1>2, <1>3, <1>4, IdleIsBehind, CountersAre, LabStep

\* What a commit has behind it is there and stays there.
LEMMA CommitKeeps ==
  ASSUME Lab, NEW i \in Importer, Commit(i)
  PROVE  BundleTypeOK' /\ BundleStory'
<1>0. /\ errors' = errors /\ crashes' = crashes /\ disk' = disk /\ torn' = torn
      /\ session' = session /\ steps' = steps /\ retries' = retries /\ bundle' = bundle
      /\ lock' = NoImporter /\ Goes(i, Idle) /\ At(i, "write") /\ importer[i].todo = {}
  BY DEF Commit, LabRest, grownVars
<1>1. Becomes(i, Idle)
  BY <1>0, IdleIs DEF Becomes, Goes
<1>2. FilesKept(i, Idle)
  BY <1>0, IdleIs, QuietFiles
<1>3. lock = i /\ db = <<>>
  BY <1>0, CountersAre, ImporterIs
<1>4. LockKept(i, Idle)
  BY <1>0, <1>3, IdleIs, LockIsKept DEF Held
<1>5. MadeApart' /\ CopiesFollowed'
  BY <1>1, <1>2, <1>4, IdleIsBehind, MadeStaysApart, CopiesStayFollowed
<1>6. PICK row : row = [foreign |-> importer[i].foreign, quarantined |-> Quarantined]
  OBVIOUS
<1>7. db' = <<row>> /\ row.foreign = importer[i].foreign /\ row.quarantined = Quarantined
  BY <1>3, <1>6 DEF Commit
<1>8. Copies' = Copies /\ Copies \in SUBSET Nat /\ Quarantined' = Quarantined
  BY <1>0, <1>1, BecomesIs, LabIs, QuarantineStays
<1>9. ASSUME row.foreign = {}, NEW e \in Copies
      PROVE  Stays(e)'
  <2>0. e \in Nat
    BY <1>8
  <2>1. CASE e \in importer[i].reuse
    <3>1. Stays(e)
      BY <1>0, <1>7, <1>9, <2>1, LabIs DEF CopiesFollowed, At
    <3> QED
      BY <1>1, <1>2, <2>0, <3>1, WholeStays
  <2>2. CASE e \notin importer[i].reuse
    <3>1. FilesOf(e) \subseteq MadeBy(i)
      BY <1>0, <2>2, LabIs DEF CopiesFollowed
    <3>2. MadeBy(i) \subseteq disk \ torn
      BY LabIs DEF MadeApart
    <3>3. FilesOf(e)' = FilesOf(e) /\ MadeBy(i)' = {}
      BY <1>1, BecomesIs, IdleIs
    <3>4. ASSUME NEW j \in Importer
          PROVE  MadeBy(j)' \cap FilesOf(e) = {}
      <4>1. CASE j = i
        BY <3>3, <4>1
      <4>2. CASE j # i
        <5>1. MadeBy(j)' = MadeBy(j) /\ MadeBy(i) \cap MadeBy(j) = {}
          BY <1>1, <4>2, BecomesIs, LabIs DEF MadeApart
        <5> QED
          BY <3>1, <5>1
      <4> QED
        BY <4>1, <4>2
    <3> QED
      BY <1>0, <3>1, <3>2, <3>3, <3>4 DEF Stays, Whole
  <2> QED
    BY <2>1, <2>2
<1>10. Len(db') = 1 /\ DOMAIN db' = {1} /\ db'[1] = row
  BY <1>7
<1>11. \A n \in DOMAIN db' :
         /\ db'[n].quarantined = Quarantined'
         /\ db'[n].foreign = {} => \A e \in Copies' : Stays(e)'
  BY <1>7, <1>8, <1>9, <1>10
<1>12. Committed' <=> /\ Len(db') <= 1 /\ (lock' # NoImporter => db' = <<>>)
                      /\ \A n \in DOMAIN db' :
                           /\ db'[n].quarantined = Quarantined'
                           /\ db'[n].foreign = {} => \A e \in Copies' : Stays(e)'
  BY DEF Committed
<1>13. Committed'
  BY <1>0, <1>10, <1>11, <1>12
<1>14. NothingLost'
  BY <1>7 DEF NothingLost
<1>15. SessionSound(session)' /\ (retries' = 0 => OneContext(session)')
  BY <1>0 DEF Lab, BundleStory
<1>16. bundle' \in {Nothing, Exported(session)'} /\ bundle' # Nothing
  BY <1>0 DEF Lab, BundleStory
<1>17. BundleStory'
  BY <1>5, <1>13, <1>14, <1>15, <1>16 DEF BundleStory
<1>18. importer' \in [Importer -> ImporterState]
  BY <1>1, BecomesIs
<1>19. db' \in Seq([foreign : SUBSET Nat, quarantined : SUBSET Nat])
  <2>1. Quarantined \in SUBSET Nat
    <3>1. bundle.events \subseteq Event(session) /\ session.log \in Seq(EventRecord)
      BY DEF Lab, BundleTypeOK
    <3>2. \A e \in Event(session) : session.log[e] \in EventRecord
      BY <3>1 DEF Event
    <3>3. \A e \in Kept("job") : session.log[e].job \in Nat
      BY <3>1, <3>2 DEF Kept, EventRecord
    <3> QED
      BY <3>3 DEF Quarantined
  <2>2. row \in [foreign : SUBSET Nat, quarantined : SUBSET Nat]
    BY <1>6, <2>1, ImporterIs
  <2> QED
    BY <1>7, <2>2
<1>20. BundleTypeOK'
  BY <1>0, <1>18, <1>19 DEF Lab, BundleTypeOK
<1> QED
  BY <1>17, <1>20

\* Importers find work in a bundle only.
LEMMA ImportKeeps ==
  ASSUME BundleTypeOK, BundleStory, NEW i \in Importer, Import(i)
  PROVE  BundleTypeOK' /\ BundleStory'
<1>1. bundle # Nothing
  <2>1. CASE \E a \in BOOLEAN : Verify(i, a)
    BY <2>1 DEF Verify
  <2>2. CASE ~ \E a \in BOOLEAN : Verify(i, a)
    <3>1. importer[i].step # "idle"
      BY <2>2 DEF Import, RepointArchive, RepointWorkerArchive, Begin, MaterializeArchive,
         MaterializeDirectory, Commit, Raise, Undo, Crash, At
    <3> QED
      BY <3>1, IdleIs DEF BundleStory, Untouched
  <2> QED
    BY <2>1, <2>2
<1>2. Lab
  BY <1>1 DEF Lab
<1> QED
  BY <1>2, VerifyKeeps, RepointKeeps, BeginKeeps, MaterializeKeeps, CommitKeeps, RaiseKeeps,
     UndoKeeps, CrashKeeps DEF Import
-----------------------------------------------------------------------------
(* Induction, for a set, and recursion *)

\* What holds at a number once it holds at all smaller ones holds up to n.
LEMMA StrongInduction ==
  ASSUME NEW n \in Nat, NEW P,
         \A k \in 0 .. n : (\A i \in 0 .. n : i < k => i \in P) => k \in P
  PROVE  0 .. n \subseteq P
<1> DEFINE T == (0 .. n) \ P
<1> SUFFICES ASSUME T # {} PROVE FALSE
  OBVIOUS
<1>1. T \in SUBSET Nat
  OBVIOUS
<1>2. PICK x \in T : \A y \in T : x <= y
  BY <1>1, LeastElement
<1>3. x \in 0 .. n /\ x \notin P
  OBVIOUS
<1>4. \A i \in 0 .. n : i < x => i \in P
  BY <1>2, <1>3
<1>5. QED
  BY <1>3, <1>4

\* The first n steps of a primitive recursion from a, with step function F.
Follows(g, n, a, F) == g[0] = a /\ \A k \in 1 .. n : g[k] = F[<<k, g[k - 1]>>]

\* There is a function that follows.
LEMMA Recursion ==
  ASSUME NEW n \in Nat, NEW V, NEW a \in V, NEW F \in [(1 .. n) \X V -> V]
  PROVE  \E g \in [0 .. n -> V] : Follows(g, n, a, F)
<1> DEFINE P == {k \in 0 .. n : \E g \in [0 .. k -> V] : Follows(g, k, a, F)}
<1>1. 0 \in P
  <2>1. [i \in 0 .. 0 |-> a] \in [0 .. 0 -> V]
    OBVIOUS
  <2>2. Follows([i \in 0 .. 0 |-> a], 0, a, F)
    BY DEF Follows
  <2>3. 0 \in 0 .. n
    OBVIOUS
  <2>4. QED
    BY <2>1, <2>2, <2>3
<1>2. ASSUME NEW k \in 0 .. n, k # 0, k - 1 \in P
      PROVE  k \in P
  <2>1. PICK g \in [0 .. k - 1 -> V] : Follows(g, k - 1, a, F)
    BY <1>2
  <2>2. k \in Nat /\ k \in 1 .. n /\ k - 1 \in 0 .. k - 1 /\ 0 \in 0 .. k - 1
    BY <1>2
  <2>3. g[k - 1] \in V
    BY <2>2
  <2>4. <<k, g[k - 1]>> \in (1 .. n) \X V
    BY <2>2, <2>3
  <2>5. PICK b \in V : b = F[<<k, g[k - 1]>>]
    BY <2>4
  <2>6. PICK h : h = [i \in 0 .. k |-> IF i = k THEN b ELSE g[i]]
    OBVIOUS
  <2>7. /\ h \in [0 .. k -> V] /\ h[k] = b
        /\ \A i \in 0 .. k - 1 : h[i] = g[i]
    BY <2>2, <2>6
  <2>8. ASSUME NEW i \in 1 .. k
        PROVE  h[i] = F[<<i, h[i - 1]>>]
    <3>1. i - 1 \in 0 .. k - 1 /\ h[i - 1] = g[i - 1]
      BY <2>2, <2>7
    <3>2. CASE i = k
      BY <2>5, <2>7, <3>1, <3>2
    <3>3. CASE i # k
      <4>1. i \in 1 .. k - 1 /\ i \in 0 .. k - 1
        BY <2>2, <3>3
      <4>2. QED
        BY <2>1, <2>7, <3>1, <4>1 DEF Follows
    <3>4. QED
      BY <3>2, <3>3
  <2>9. Follows(h, k, a, F)
    BY <2>1, <2>2, <2>7, <2>8 DEF Follows
  <2>10. QED
    BY <2>7, <2>9
<1> HIDE DEF P
<1>3. \A k \in 0 .. n : (\A i \in 0 .. n : i < k => i \in P) => k \in P
  <2> TAKE k \in 0 .. n
  <2> HAVE \A i \in 0 .. n : i < k => i \in P
  <2>1. k # 0 => k - 1 \in 0 .. n /\ k - 1 < k
    OBVIOUS
  <2>2. QED
    BY <1>1, <1>2, <2>1
<1>4. n \in P
  BY <1>3, StrongInduction
<1>5. QED
  BY <1>4 DEF P

-----------------------------------------------------------------------------
(* Chains *)

\* The parents of a log are events of it, or none.
Rooted(s) == \A x \in Event(s) : s.log[x].parent \in {NoEvent} \cup Event(s)

\* The ancestry of an event is the event and the ancestry of its parent.
LEMMA ChainIs ==
  ASSUME NEW s, NEW R, s.log \in Seq(R), Rooted(s)
  PROVE  /\ ParentChain(s, NoEvent) = {}
         /\ \A x \in Event(s) : ParentChain(s, x) = {x} \cup ParentChain(s, s.log[x].parent)
<1>1. PICK n \in Nat : n = Len(s.log) /\ Event(s) = 1 .. n
  BY DEF Event
<1>2. PICK up : up = [x \in 1 .. n |-> s.log[x].parent]
  OBVIOUS
<1>3. up \in [1 .. n -> 0 .. n]
  BY <1>1, <1>2 DEF Rooted, NoEvent
<1> DEFINE Closed(C) == \A z \in C : z # 0 => up[z] \in C
           g == [x \in 0 .. n |->
                   {y \in 1 .. n : \A C \in SUBSET (0 .. n) : x \in C /\ Closed(C) => y \in C}]
           chain[x \in 0 .. Len(s.log)] ==
             IF x = NoEvent THEN {} ELSE {x} \cup chain[s.log[x].parent]
<1>4. g[0] = {}
  <2>1. {0} \in SUBSET (0 .. n) /\ Closed({0}) /\ 0 \in {0} /\ 0 \in 0 .. n
    OBVIOUS
  <2>2. ASSUME NEW y \in g[0]
        PROVE  FALSE
    <3>1. y \in 1 .. n /\ y \in {0}
      BY <2>1, <2>2
    <3>2. QED
      BY <3>1
  <2>3. QED
    BY <2>2
<1>5. ASSUME NEW x \in 1 .. n
      PROVE  g[x] = {x} \cup g[up[x]]
  <2>1. x \in 0 .. n /\ x # 0 /\ up[x] \in 0 .. n
    BY <1>3
  <2>2. ASSUME NEW y \in g[x], y # x
        PROVE  y \in g[up[x]]
    <3>1. y \in 1 .. n
      BY <2>1
    <3>2. ASSUME NEW C \in SUBSET (0 .. n), up[x] \in C, Closed(C)
          PROVE  y \in C
      <4>1. PICK D : D = C \cup {x}
        OBVIOUS
      <4>2. D \in SUBSET (0 .. n) /\ x \in D /\ Closed(D)
        BY <2>1, <3>2, <4>1
      <4>3. y \in D
        BY <2>1, <4>2
      <4>4. QED
        BY <2>2, <4>1, <4>3
    <3>3. QED
      BY <2>1, <3>1, <3>2
  <2>3. x \in g[x]
    BY <2>1
  <2>4. ASSUME NEW y \in g[up[x]]
        PROVE  y \in g[x]
    BY <2>1
  <2>5. QED
    BY <2>2, <2>3, <2>4
<1> HIDE DEF g
<1>6. g = [x \in 0 .. Len(s.log) |->
             IF x = NoEvent THEN {} ELSE {x} \cup g[s.log[x].parent]]
  <2>1. \A x \in 0 .. n : x # 0 => x \in 1 .. n /\ up[x] = s.log[x].parent
    BY <1>2
  <2>2. \A x \in 0 .. n : g[x] = IF x = 0 THEN {} ELSE {x} \cup g[s.log[x].parent]
    BY <1>4, <1>5, <2>1
  <2>3. g = [x \in 0 .. n |-> g[x]]
    BY DEF g
  <2>4. QED
    BY <1>1, <2>2, <2>3 DEF NoEvent
<1>7. chain = [x \in 0 .. Len(s.log) |->
                 IF x = NoEvent THEN {} ELSE {x} \cup chain[s.log[x].parent]]
  BY <1>6, Zenon
<1>8. \A e : ParentChain(s, e) = chain[e]
  BY DEF ParentChain
<1> HIDE DEF chain
<1>9. chain[NoEvent] = {} /\ \A x \in 1 .. n : chain[x] = {x} \cup chain[s.log[x].parent]
  <2>1. NoEvent \in 0 .. Len(s.log) /\ \A x \in 1 .. n : x # NoEvent /\ x \in 0 .. Len(s.log)
    BY <1>1 DEF NoEvent
  <2>2. QED
    BY <1>7, <2>1
<1>10. QED
  BY <1>1, <1>8, <1>9

\* The parents of a log are earlier events of it.
Descends(s) == \A x \in Event(s) : s.log[x].parent \in 0 .. x - 1

\* A chain leads back from an event.
LEMMA ChainBelow ==
  ASSUME NEW s, NEW R, s.log \in Seq(R), Descends(s)
  PROVE  /\ Rooted(s)
         /\ \A x \in Event(s) : ParentChain(s, x) \subseteq 1 .. x /\ x \in ParentChain(s, x)
<1>1. PICK n \in Nat : Event(s) = 1 .. n
  BY DEF Event
<1>2. Rooted(s)
  BY <1>1 DEF Descends, Rooted, NoEvent
<1>3. /\ ParentChain(s, NoEvent) = {}
      /\ \A x \in Event(s) : ParentChain(s, x) = {x} \cup ParentChain(s, s.log[x].parent)
  BY <1>2, ChainIs
<1> DEFINE P == {k \in 0 .. n : ParentChain(s, k) \subseteq 1 .. k}
<1>4. ASSUME NEW k \in 0 .. n, \A i \in 0 .. n : i < k => i \in P
      PROVE  k \in P
  <2>1. CASE k = 0
    BY <1>3, <2>1 DEF NoEvent
  <2>2. CASE k # 0
    <3>1. PICK p : p = s.log[k].parent
      OBVIOUS
    <3>2. k \in Event(s) /\ p \in 0 .. k - 1
      BY <1>1, <2>2, <3>1 DEF Descends
    <3>3. p \in P
      BY <1>4, <3>2
    <3>4. PICK C : C = ParentChain(s, p)
      OBVIOUS
    <3>5. C \subseteq 1 .. p /\ ParentChain(s, k) = {k} \cup C
      BY <1>3, <3>1, <3>2, <3>3, <3>4
    <3>6. k \in Nat /\ k # 0 /\ p \in Nat /\ p < k
      BY <1>1, <2>2, <3>2
    <3>7. {k} \cup C \subseteq 1 .. k
      BY <3>5, <3>6
    <3>8. ParentChain(s, k) \subseteq 1 .. k
      BY <3>5, <3>7
    <3> QED
      BY <3>8
  <2> QED
    BY <2>1, <2>2
<1> HIDE DEF P
<1>5. 0 .. n \subseteq P
  BY <1>4, StrongInduction
<1>6. \A x \in Event(s) : ParentChain(s, x) \subseteq 1 .. x
  BY <1>1, <1>5 DEF P
<1> QED
  BY <1>2, <1>3, <1>6

\* The log t begins as s does.
Begins(s, t) ==
  Event(s) \subseteq Event(t) /\ \A x \in Event(s) : t.log[x] = s.log[x]

\* What is appended changes no chain that was there.
LEMMA ChainStays ==
  ASSUME NEW s, NEW t, NEW R, s.log \in Seq(R), t.log \in Seq(R), Descends(s), Descends(t),
         Begins(s, t)
  PROVE  \A x \in Event(s) \cup {NoEvent} : ParentChain(t, x) = ParentChain(s, x)
<1>1. PICK n \in Nat : Event(s) = 1 .. n
  BY DEF Event
<1>2. /\ ParentChain(s, NoEvent) = {} /\ ParentChain(t, NoEvent) = {}
      /\ \A x \in Event(s) : ParentChain(s, x) = {x} \cup ParentChain(s, s.log[x].parent)
      /\ \A x \in Event(t) : ParentChain(t, x) = {x} \cup ParentChain(t, t.log[x].parent)
  BY ChainIs, ChainBelow
<1> DEFINE P == {k \in 0 .. n : ParentChain(t, k) = ParentChain(s, k)}
<1>3. ASSUME NEW k \in 0 .. n, \A i \in 0 .. n : i < k => i \in P
      PROVE  k \in P
  <2>1. CASE k = 0
    BY <1>2, <2>1 DEF NoEvent
  <2>2. CASE k # 0
    <3>1. PICK p : p = s.log[k].parent
      OBVIOUS
    <3>a. k \in Event(s)
      BY <1>1, <2>2
    <3>b. k \in Event(t) /\ t.log[k] = s.log[k]
      BY <3>a DEF Begins
    <3>2. k \in Event(s) /\ k \in Event(t) /\ t.log[k].parent = p /\ p \in 0 .. k - 1
      BY <3>1, <3>a, <3>b DEF Descends
    <3>3. p \in P
      BY <1>3, <3>2
    <3>4. ParentChain(t, k) = {k} \cup ParentChain(t, p)
      BY <1>2, <3>2
    <3>5. ParentChain(s, k) = {k} \cup ParentChain(s, p)
      BY <1>2, <3>1, <3>2
    <3> QED
      BY <3>3, <3>4, <3>5
  <2> QED
    BY <2>1, <2>2
<1> HIDE DEF P
<1>4. 0 .. n \subseteq P
  BY <1>3, StrongInduction
<1> QED
  BY <1>1, <1>4 DEF P, NoEvent
-----------------------------------------------------------------------------
(* An event is appended *)

\* What a session that is sound says of its log.
LEMMA SessionIs ==
  ASSUME NEW s, SessionSound(s)
  PROVE  /\ s.log \in Seq(EventRecord) /\ Len(s.log) \in Nat /\ Event(s) = 1 .. Len(s.log)
         /\ 1 \in Event(s)
         /\ \A e \in Event(s) : /\ e \in Nat /\ s.log[e] \in EventRecord
                                /\ s.log[e].at = e /\ Fits(s, e, s.log[e])
         /\ Descends(s) /\ Rooted(s)
<1>1. s.log \in Seq(EventRecord) /\ s.log # <<>>
  BY DEF SessionSound
<1>2. /\ Len(s.log) \in Nat /\ Event(s) = 1 .. Len(s.log) /\ 1 \in Event(s)
      /\ \A e \in Event(s) : e \in Nat /\ s.log[e] \in EventRecord
  BY <1>1 DEF Event
<1>3. \A e \in Event(s) : s.log[e].at = e /\ Fits(s, e, s.log[e])
  BY DEF SessionSound
<1>4. Descends(s)
  <2>1. ASSUME NEW e \in Event(s)
        PROVE  s.log[e].parent \in 0 .. e - 1
    <3>1. s.log[e].parent \in 1 .. e - 1 \cup {NoEvent}
      BY <1>3 DEF Fits
    <3> QED
      BY <1>2, <3>1 DEF NoEvent
  <2> QED
    BY <2>1 DEF Descends
<1> QED
  BY <1>1, <1>2, <1>3, <1>4, ChainBelow

\* The log of t is that of s with event r behind it.
Grown(s, t, r) ==
  /\ r \in EventRecord /\ r.at = Len(s.log) + 1
  /\ t.log = Append(s.log, r) /\ t.branch = BranchRows(s, r)

LEMMA GrownIs ==
  ASSUME NEW s, NEW t, NEW r, NEW n, s.log \in Seq(EventRecord), n = Len(s.log) + 1,
         Grown(s, t, r)
  PROVE  /\ n \in Nat /\ n > 0 /\ t.log \in Seq(EventRecord)
         /\ Event(s) = 1 .. n - 1 /\ Event(t) = Event(s) \cup {n} /\ Event(t) = 1 .. n
         /\ n \notin Event(s) /\ t.log[n] = r /\ Begins(s, t)
<1>1. Len(s.log) \in Nat /\ DOMAIN s.log = 1 .. Len(s.log)
  OBVIOUS
<1>2. t.log = Append(s.log, r) /\ r \in EventRecord
  BY DEF Grown
<1>3. /\ t.log \in Seq(EventRecord) /\ DOMAIN t.log = 1 .. n /\ t.log[n] = r
      /\ \A x \in 1 .. Len(s.log) : t.log[x] = s.log[x]
  BY <1>1, <1>2
<1>4. n \in Nat /\ n > 0 /\ n - 1 = Len(s.log) /\ 1 .. n = 1 .. n - 1 \cup {n}
  BY <1>1
<1> QED
  BY <1>1, <1>3, <1>4 DEF Event, Begins

\* Nor does it change what an event hangs on.
LEMMA FitsStays ==
  ASSUME NEW s, NEW t, NEW e \in Nat, NEW r, s.log \in Seq(EventRecord),
         t.log \in Seq(EventRecord), Descends(s), Descends(t), Begins(s, t),
         1 .. e - 1 \subseteq Event(s), Fits(s, e, r)
  PROVE  Fits(t, e, r)
<1>1. \A x \in 1 .. e - 1 : x \in Event(s) /\ t.log[x] = s.log[x]
  BY DEF Begins
<1>2. \A x \in 1 .. e - 1 : ParentChain(t, x) = ParentChain(s, x)
  BY <1>1, ChainStays
<1>3. r.type = "oracle.context_built" =>
        /\ r.cites \subseteq ParentChain(t, r.parent) /\ r.cause \in 1 .. e - 1
        /\ t.log[r.cause].type = "oracle.request" => t.log[r.cause].branch = r.branch
  <2>1. SUFFICES ASSUME r.type = "oracle.context_built"
                 PROVE  /\ r.cites \subseteq ParentChain(t, r.parent) /\ r.cause \in 1 .. e - 1
                        /\ t.log[r.cause].type = "oracle.request" =>
                             t.log[r.cause].branch = r.branch
    OBVIOUS
  <2>2. /\ r.cites \subseteq ParentChain(s, r.parent) /\ r.cause \in 1 .. e - 1
        /\ s.log[r.cause].type = "oracle.request" => s.log[r.cause].branch = r.branch
    BY <2>1 DEF Fits
  <2>3. r.parent \in 1 .. e - 1
    BY <2>1 DEF Fits
  <2> QED
    BY <1>1, <1>2, <2>2, <2>3
<1>4. r.type = "oracle.output" => /\ t.log[r.parent].type = "oracle.context_built"
                                  /\ t.log[r.parent].cause = r.cause
  <2>1. SUFFICES ASSUME r.type = "oracle.output"
                 PROVE  /\ t.log[r.parent].type = "oracle.context_built"
                        /\ t.log[r.parent].cause = r.cause
    OBVIOUS
  <2>2. /\ s.log[r.parent].type = "oracle.context_built" /\ s.log[r.parent].cause = r.cause
        /\ r.parent \in 1 .. e - 1
    BY <2>1 DEF Fits
  <2> QED
    BY <1>1, <2>2
<1>5. r.type = "job" => /\ r.status # "none" /\ r.job \in 1 .. e - 1
                        /\ t.log[r.job].branch = r.branch
  BY <1>1 DEF Fits
<1>6. IF e = 1 THEN r.branch = Main /\ r.origin = "genuine"
      ELSE /\ r.parent \in 1 .. e - 1
           /\ IF r.type = "session.forked" THEN r.branch # Main
              ELSE t.log[r.parent].branch = r.branch
  BY <1>1 DEF Fits
<1>7. /\ {r.parent, r.cause} \cup r.cites \subseteq 1 .. e - 1 \cup {NoEvent}
      /\ r.type = "session.created" <=> e = 1
  BY DEF Fits
<1> QED
  BY <1>3, <1>4, <1>5, <1>6, <1>7 DEF Fits

\* The rows of the branches after an event of this model.
LEMMA RowsAfter ==
  ASSUME NEW s, NEW r \in EventRecord, s.branch \in [Branch -> BranchRow \cup {NoRow}],
         s.log \in Seq(EventRecord), r.type = "session.forked" => r.parent \in Event(s)
  PROVE  /\ BranchRows(s, r) \in [Branch -> BranchRow \cup {NoRow}]
         /\ r.type # "session.forked" => BranchRows(s, r) = s.branch
         /\ r.type = "session.forked" => /\ BranchRows(s, r)[r.branch] # NoRow
                                         /\ \A b \in Branch \ {r.branch} :
                                              BranchRows(s, r)[b] = s.branch[b]
<1>1. r.branch \in Branch /\ r.type \in Types
  BY DEF EventRecord
<1>2. CASE r.type = "session.forked"
  <2>1. PICK row : row = [parent |-> s.log[r.parent].branch, fork |-> r.parent, open |-> TRUE]
    OBVIOUS
  <2>2. BranchRows(s, r) = [s.branch EXCEPT ![r.branch] = row]
    BY <1>2, <2>1 DEF BranchRows
  <2>3. s.log[r.parent] \in EventRecord /\ r.parent \in Nat
    BY <1>2 DEF Event
  <2>4. row \in BranchRow
    BY <2>1, <2>3 DEF BranchRow, EventRecord
  <2>5. row # NoRow
    <3>1. DOMAIN row = {"parent", "fork", "open"}
      BY <2>1
    <3>2. "absent" \in DOMAIN NoRow
      BY DEF NoRow
    <3> QED
      BY <3>1, <3>2
  <2> QED
    BY <1>1, <1>2, <2>2, <2>4, <2>5
<1>3. CASE r.type # "session.forked"
  <2>1. BranchRows(s, r) = s.branch
    BY <1>1, <1>3 DEF BranchRows, Types, Archived, Outputs, Runs
  <2> QED
    BY <1>3, <2>1
<1> QED
  BY <1>2, <1>3
\* An event that fits, and a fork of a branch that is not there yet, leaves a session sound.
LEMMA AppendIsSound ==
  ASSUME NEW s, SessionSound(s), NEW t, NEW r, Grown(s, t, r), Fits(s, Len(s.log) + 1, r),
         r.type = "session.forked" => ~ Exists(s, r.branch)
  PROVE  SessionSound(t) /\ Begins(s, t)
<1> DEFINE n == Len(s.log) + 1
<1>1. /\ s.log \in Seq(EventRecord) /\ 1 \in Event(s) /\ Descends(s)
      /\ \A e \in Event(s) : /\ e \in Nat /\ s.log[e] \in EventRecord
                             /\ s.log[e].at = e /\ Fits(s, e, s.log[e])
  BY SessionIs
<1>2. /\ n \in Nat /\ n > 0 /\ t.log \in Seq(EventRecord)
      /\ Event(s) = 1 .. n - 1 /\ Event(t) = Event(s) \cup {n} /\ Event(t) = 1 .. n
      /\ n \notin Event(s) /\ t.log[n] = r /\ Begins(s, t)
  BY <1>1, GrownIs
<1>3. r \in EventRecord /\ r.at = n /\ t.branch = BranchRows(s, r) /\ Fits(s, n, r)
  BY DEF Grown
<1> HIDE DEF n
<1>4. n # 1 /\ r.parent \in Event(s)
  BY <1>1, <1>2, <1>3 DEF Fits
<1>5. /\ t.branch \in [Branch -> BranchRow \cup {NoRow}]
      /\ r.type # "session.forked" => t.branch = s.branch
      /\ r.type = "session.forked" => /\ t.branch[r.branch] # NoRow
                                      /\ \A b \in Branch \ {r.branch} : t.branch[b] = s.branch[b]
  <2>1. s.branch \in [Branch -> BranchRow \cup {NoRow}]
    BY DEF SessionSound
  <2> QED
    BY <1>1, <1>3, <1>4, <2>1, RowsAfter
<1>6. Descends(t)
  <2>1. ASSUME NEW x \in Event(t)
        PROVE  t.log[x].parent \in 0 .. x - 1
    <3>1. CASE x = n
      BY <1>2, <1>4, <3>1
    <3>2. CASE x # n
      BY <1>1, <1>2, <3>2 DEF Descends, Begins
    <3> QED
      BY <3>1, <3>2
  <2> QED
    BY <2>1 DEF Descends
<1>7. \A e \in Event(t) : t.log[e].at = e /\ Fits(t, e, t.log[e])
  <2>1. ASSUME NEW e \in Event(t)
        PROVE  t.log[e].at = e /\ Fits(t, e, t.log[e])
    <3>1. e \in Nat /\ 1 .. e - 1 \subseteq Event(s)
      BY <1>2
    <3>2. CASE e = n
      BY <1>1, <1>2, <1>3, <1>6, <3>1, <3>2, FitsStays
    <3>3. CASE e # n
      <4>1. e \in Event(s) /\ t.log[e] = s.log[e]
        BY <1>2, <3>3 DEF Begins
      <4>2. s.log[e].at = e /\ Fits(s, e, s.log[e])
        BY <1>1, <4>1
      <4>3. Fits(t, e, s.log[e])
        BY <1>1, <1>2, <1>6, <3>1, <4>2, FitsStays
      <4> QED
        BY <4>1, <4>2, <4>3
    <3> QED
      BY <3>2, <3>3
  <2> QED
    BY <2>1
<1>8. \A b \in Branch : Own(t, b) = Own(s, b) \cup {x \in {n} : r.branch = b}
  BY <1>2 DEF Own, Begins
<1>9. ASSUME NEW b \in Branch
      PROVE  Exists(t, b) <=> Own(t, b) # {}
  <2>1. Exists(s, b) <=> Own(s, b) # {}
    BY DEF SessionSound
  <2>2. CASE b = r.branch
    <3>1. Own(t, b) # {}
      BY <1>8, <2>2
    <3>2. CASE r.type = "session.forked"
      BY <1>5, <2>2, <3>1, <3>2 DEF Exists
    <3>3. CASE r.type # "session.forked"
      <4>1. s.log[r.parent].branch = r.branch
        BY <1>3, <1>4, <3>3 DEF Fits
      <4>2. Own(s, b) # {}
        BY <1>4, <2>2, <4>1 DEF Own
      <4> QED
        BY <1>5, <2>1, <3>1, <3>3, <4>2 DEF Exists
    <3> QED
      BY <3>2, <3>3
  <2>3. CASE b # r.branch
    <3>1. Own(t, b) = Own(s, b)
      BY <1>8, <2>3
    <3>2. t.branch[b] = s.branch[b]
      BY <1>5, <2>3
    <3> QED
      BY <2>1, <3>1, <3>2 DEF Exists
  <2> QED
    BY <2>2, <2>3
<1>10. ASSUME NEW f \in Event(t), NEW g \in Event(t),
              t.log[f].type = "session.forked", t.log[g].type = "session.forked",
              t.log[f].branch = t.log[g].branch
       PROVE  f = g
  <2>1. \A x \in Event(s) : s.log[x].branch = r.branch => r.type # "session.forked"
    <3>1. SUFFICES ASSUME NEW x \in Event(s), s.log[x].branch = r.branch,
                          r.type = "session.forked"
                   PROVE  FALSE
      OBVIOUS
    <3>2. x \in Own(s, r.branch) /\ r.branch \in Branch
      BY <1>3, <3>1 DEF Own, EventRecord
    <3> QED
      BY <3>1, <3>2 DEF SessionSound
  <2>2. \A x \in Event(s) : t.log[x] = s.log[x]
    BY <1>2 DEF Begins
  <2>3. CASE f \in Event(s) /\ g \in Event(s)
    BY <1>10, <2>2, <2>3 DEF SessionSound
  <2>4. CASE f = n \/ g = n
    BY <1>2, <1>10, <2>1, <2>2, <2>4
  <2> QED
    BY <1>2, <2>3, <2>4
<1>11. t.log # <<>>
  <2>1. Event(t) # {}
    BY <1>1, <1>2
  <2> QED
    BY <2>1 DEF Event
<1> QED
  BY <1>2, <1>5, <1>7, <1>9, <1>10, <1>11 DEF SessionSound

\* The first context of its request.
FirstContext(s, r) ==
  r.type = "oracle.context_built" =>
    \A x \in Event(s) : /\ s.log[x].type = "oracle.context_built"
                        /\ s.log[x].cause = r.cause
                        => s.log[r.cause].type # "oracle.request"

\* A context that is the first of its request leaves each request with one.
LEMMA ContextsStayOne ==
  ASSUME NEW s, SessionSound(s), OneContext(s), NEW t, NEW r, Grown(s, t, r),
         Fits(s, Len(s.log) + 1, r), FirstContext(s, r)
  PROVE  OneContext(t)
<1> DEFINE n == Len(s.log) + 1
<1>1. /\ s.log \in Seq(EventRecord)
      /\ \A e \in Event(s) : e \in Nat /\ Fits(s, e, s.log[e])
  BY SessionIs
<1>2. /\ n \in Nat /\ n > 0 /\ Event(s) = 1 .. n - 1 /\ Event(t) = Event(s) \cup {n}
      /\ n \notin Event(s) /\ t.log[n] = r
      /\ \A x \in Event(s) : t.log[x] = s.log[x]
  BY <1>1, GrownIs DEF Begins
<1>3. Fits(s, n, r)
  OBVIOUS
<1> HIDE DEF n
<1>4. ASSUME NEW x \in Event(t), t.log[x].type = "oracle.context_built"
      PROVE  t.log[x].cause \in Event(s) /\ t.log[t.log[x].cause] = s.log[t.log[x].cause]
  <2>1. CASE x = n
    <3>1. r.cause \in Event(s)
      BY <1>2, <1>3, <1>4, <2>1 DEF Fits
    <3> QED
      BY <1>2, <2>1, <3>1
  <2>2. CASE x # n
    <3>1. x \in Event(s) /\ t.log[x] = s.log[x] /\ x \in Nat /\ x <= n - 1
      BY <1>1, <1>2, <2>2
    <3>2. s.log[x].cause \in 1 .. x - 1
      BY <1>1, <1>4, <3>1 DEF Fits
    <3>3. s.log[x].cause \in Event(s)
      BY <1>2, <3>1, <3>2
    <3> QED
      BY <1>2, <3>1, <3>3
  <2> QED
    BY <2>1, <2>2
<1>5. ASSUME NEW x \in Event(t), NEW y \in Event(t),
             t.log[x].type = "oracle.context_built", t.log[y].type = "oracle.context_built",
             t.log[x].cause = t.log[y].cause,
             t.log[t.log[x].cause].type = "oracle.request"
      PROVE  x = y
  <2>1. s.log[t.log[x].cause].type = "oracle.request"
    BY <1>4, <1>5
  <2>2. CASE x # n /\ y # n
    <3>1. x \in Event(s) /\ y \in Event(s) /\ t.log[x] = s.log[x] /\ t.log[y] = s.log[y]
      BY <1>2, <2>2
    <3> QED
      BY <1>5, <2>1, <3>1 DEF OneContext
  <2>3. CASE x = n /\ y # n
    <3>1. y \in Event(s) /\ t.log[y] = s.log[y] /\ t.log[x] = r
      BY <1>2, <2>3
    <3> QED
      BY <1>5, <2>1, <3>1 DEF FirstContext
  <2>4. CASE x # n /\ y = n
    <3>1. x \in Event(s) /\ t.log[x] = s.log[x] /\ t.log[y] = r
      BY <1>2, <2>4
    <3> QED
      BY <1>5, <2>1, <3>1 DEF FirstContext
  <2> QED
    BY <2>2, <2>3, <2>4
<1> QED
  BY <1>5 DEF OneContext
\* A branch that is there has a last event, the one that was appended last.
LEMMA LastIs ==
  ASSUME NEW s, SessionSound(s), NEW b \in Branch, Exists(s, b)
  PROVE  LastEvent(s, b) \in Event(s) /\ s.log[LastEvent(s, b)].branch = b
<1>1. /\ Event(s) = 1 .. Len(s.log) /\ Len(s.log) \in Nat
      /\ \A e \in Event(s) : e \in Nat /\ s.log[e].at = e
  BY SessionIs
<1>2. PICK O : O = Own(s, b)
  OBVIOUS
<1>3. O \subseteq Event(s) /\ O # {} /\ \A x \in O : s.log[x].branch = b
  BY <1>2 DEF SessionSound, Own
<1>4. PICK k \in O : \A x \in O : x <= k
  BY <1>1, <1>3, GreatestElement
<1>7. ASSUME NEW x \in O \ {k}
      PROVE  Before(s, x, k)
  <2>1. x \in Nat /\ k \in Nat /\ x <= k /\ x # k /\ s.log[x].at = x /\ s.log[k].at = k
    BY <1>1, <1>3, <1>4
  <2> QED
    BY <2>1 DEF Before
<1>8. LastEvent(s, b) \in O
  BY <1>2, <1>4, <1>7 DEF LastEvent
<1> QED
  BY <1>3, <1>8

\* What the importers have while the session grows.
LEMMA BeforeExport ==
  ASSUME BundleTypeOK, BundleStory, bundle = Nothing
  PROVE  /\ SessionSound(session) /\ Untouched /\ (retries = 0 => OneContext(session))
         /\ retries \in 0 .. MaxRetries /\ steps \in 0 .. MaxSteps
BY DEF BundleTypeOK, BundleStory

\* What happens in the session keeps the invariant when it fits.
LEMMA HappensKeeps ==
  ASSUME BundleTypeOK, BundleStory, bundle = Nothing, steps < MaxSteps,
         NEW q \in EventRecord, Happens(q), Fits(session, Len(session.log) + 1, q),
         q.type = "session.forked" => ~ Exists(session, q.branch),
         retries' \in 0 .. MaxRetries,
         retries' = 0 => retries = 0 /\ FirstContext(session, q)
  PROVE  BundleTypeOK' /\ BundleStory'
<1>0. /\ SessionSound(session) /\ Untouched /\ (retries = 0 => OneContext(session))
      /\ steps \in 0 .. MaxSteps
  BY BeforeExport
<1>1. PICK r : r = [q EXCEPT !.at = Len(session.log) + 1]
  OBVIOUS
<1>2. Len(session.log) + 1 \in Nat
  BY <1>0, SessionIs
<1>3. /\ r \in EventRecord /\ r.at = Len(session.log) + 1
      /\ r.type = q.type /\ r.branch = q.branch /\ r.parent = q.parent /\ r.cause = q.cause
      /\ r.cites = q.cites /\ r.origin = q.origin /\ r.job = q.job /\ r.status = q.status
  BY <1>1, <1>2 DEF EventRecord
<1>4. BranchRows(session, q) = BranchRows(session, r)
  BY <1>3 DEF BranchRows
<1>5. Fits(session, Len(session.log) + 1, r)
  BY <1>3 DEF Fits
<1>6. PICK t : t = session'
  OBVIOUS
<1>7. Grown(session, t, r)
  <2>1. t = [session EXCEPT !.log = Append(@, r), !.branch = BranchRows(session, r)]
    BY <1>1, <1>4, <1>6 DEF Happens, Appended
  <2>2. session = [log |-> session.log, branch |-> session.branch]
    BY DEF BundleTypeOK
  <2>3. t = [log |-> Append(session.log, r), branch |-> BranchRows(session, r)]
    BY <2>1, <2>2
  <2> QED
    BY <1>3, <2>3 DEF Grown
<1>8. SessionSound(t) /\ Begins(session, t)
  BY <1>0, <1>3, <1>5, <1>7, AppendIsSound
<1>g. session' \in [log : Seq(EventRecord), branch : [Branch -> BranchRow \cup {NoRow}]]
  <2>1. t = [log |-> t.log, branch |-> t.branch]
    <3>1. t = [session EXCEPT !.log = Append(@, r), !.branch = BranchRows(session, r)]
      BY <1>1, <1>4, <1>6 DEF Happens, Appended
    <3>2. session = [log |-> session.log, branch |-> session.branch]
      BY DEF BundleTypeOK
    <3> QED
      BY <3>1, <3>2
  <2>2. /\ t.log \in Seq(EventRecord)
        /\ t.branch \in [Branch -> BranchRow \cup {NoRow}]
    BY <1>8 DEF SessionSound
  <2> QED
    BY <1>6, <2>1, <2>2
<1>9. ASSUME retries' = 0
      PROVE  OneContext(t)
  <2>1. OneContext(session) /\ SessionSound(session) /\ FirstContext(session, q)
    BY <1>0, <1>9
  <2>2. FirstContext(session, r)
    BY <1>3, <2>1 DEF FirstContext
  <2> QED
    BY <1>3, <1>5, <1>7, <2>1, <2>2, ContextsStayOne
<1>10. /\ bundle' = bundle /\ db' = db /\ lock' = lock /\ disk' = disk /\ torn' = torn
       /\ importer' = importer /\ errors' = errors /\ crashes' = crashes
       /\ steps' = steps + 1
  BY DEF Happens, labVars
<1>11. BundleTypeOK'
  <2>1. steps' \in 0 .. MaxSteps
    BY <1>0, <1>10, BundleAssumption
  <2>2. PICK R : R = [log : Seq(EventRecord), branch : [Branch -> BranchRow \cup {NoRow}]]
    OBVIOUS
  <2>3. /\ bundle' = Nothing /\ session' \in R
    BY <1>10, <1>g, <2>2
  <2> QED
    BY <1>10, <2>1, <2>2, <2>3 DEF BundleTypeOK
<1>12. BundleStory'
  <2>1. SessionSound(session)' /\ (retries' = 0 => OneContext(session)')
    BY <1>6, <1>8, <1>9
  <2>2. Untouched'
    BY <1>0, <1>10 DEF Untouched
  <2> QED
    BY <1>10, <2>1, <2>2 DEF BundleStory
<1> QED
  BY <1>11, <1>12
\* The session still grows.
Growing == BundleTypeOK /\ BundleStory /\ bundle = Nothing /\ steps < MaxSteps

LEMMA GrowingIs ==
  ASSUME Growing
  PROVE  /\ SessionSound(session) /\ session.log \in Seq(EventRecord)
         /\ Len(session.log) \in Nat /\ Event(session) = 1 .. Len(session.log)
         /\ \A e \in Event(session) : e \in Nat /\ e # NoEvent /\ session.log[e] \in EventRecord
         /\ \A e \in Event(session) : session.log[e].branch \in Branch
         /\ retries \in 0 .. MaxRetries
<1>1. SessionSound(session) /\ retries \in 0 .. MaxRetries
  BY BeforeExport DEF Growing
<1>2. /\ session.log \in Seq(EventRecord)
      /\ Len(session.log) \in Nat /\ Event(session) = 1 .. Len(session.log)
      /\ \A e \in Event(session) : e \in Nat /\ session.log[e] \in EventRecord
  BY <1>1, SessionIs
<1>3. \A r \in EventRecord : r.branch \in Branch
  BY DEF EventRecord
<1>4. \A e \in Event(session) : e # NoEvent
  BY <1>2 DEF NoEvent
<1> QED
  BY <1>1, <1>2, <1>3, <1>4

LEMMA NamesAre ==
  {"human.input", "human.keep", "oracle.request", "worker.task", "worker.run_completed",
   "session.created", "session.forked", "oracle.context_built", "oracle.output", "job",
   "session.imported"} \subseteq Types
BY DEF Types, Archived, Outputs, Runs

LEMMA RecordIs ==
  ASSUME NEW type \in Types, NEW b \in Branch, NEW parent \in Nat, NEW cause \in Nat,
         NEW r, r = Record(type, b, parent, cause)
  PROVE  /\ r \in EventRecord /\ r.type = type /\ r.branch = b /\ r.parent = parent
         /\ r.cause = cause /\ r.cites = {} /\ r.origin = "genuine" /\ r.status = "none"
<1>1. /\ r = [type |-> r.type, branch |-> r.branch, parent |-> r.parent, cause |-> r.cause,
             at |-> r.at, cites |-> r.cites, origin |-> r.origin, job |-> r.job,
             status |-> r.status]
      /\ r.type = type /\ r.branch = b /\ r.parent = parent /\ r.cause = cause
      /\ r.at = 0 /\ r.cites = {} /\ r.origin = "genuine" /\ r.job = 0 /\ r.status = "none"
  BY DEF Record
<1>2. r \in EventRecord
  BY <1>1 DEF EventRecord
<1> QED
  BY <1>1, <1>2

\* The record names what it is about.
About(type, b, parent, cause, C) == [Record(type, b, parent, cause) EXCEPT !.cites = C]

LEMMA AboutIs ==
  ASSUME NEW type \in Types, NEW b \in Branch, NEW parent \in Nat, NEW cause \in Nat,
         NEW C \in SUBSET Nat,
         NEW q, q = About(type, b, parent, cause, C)
  PROVE  /\ q \in EventRecord /\ q.type = type /\ q.branch = b /\ q.parent = parent
         /\ q.cause = cause /\ q.cites = C /\ q.origin = "genuine"
<1>1. PICK r : r = Record(type, b, parent, cause)
  OBVIOUS
<1>2. /\ r \in EventRecord /\ r.type = type /\ r.branch = b /\ r.parent = parent
      /\ r.cause = cause /\ r.origin = "genuine"
  BY <1>1, RecordIs
<1>3. q = [r EXCEPT !.cites = C]
  BY <1>1 DEF About
<1>4. /\ q \in EventRecord /\ q.cites = C
      /\ q.type = r.type /\ q.branch = r.branch /\ q.parent = r.parent
      /\ q.cause = r.cause /\ q.origin = r.origin
  BY <1>2, <1>3 DEF EventRecord
<1> QED
  BY <1>2, <1>4

\* An event of no consequence for the others only has to be on its branch.
PlainTypes == {"human.input", "human.keep", "oracle.request", "worker.task",
               "worker.run_completed"}

LEMMA PlainKeeps ==
  ASSUME Growing, NEW q \in EventRecord, Happens(q), UNCHANGED retries,
         q.type \in PlainTypes, q.parent \in Event(session),
         session.log[q.parent].branch = q.branch,
         {q.cause} \cup q.cites \subseteq Event(session) \cup {NoEvent}
  PROVE  BundleTypeOK' /\ BundleStory'
<1>1. /\ Len(session.log) \in Nat /\ Event(session) = 1 .. Len(session.log)
      /\ retries \in 0 .. MaxRetries
  BY GrowingIs
<1>2. Len(session.log) + 1 # 1 /\ 1 .. Len(session.log) + 1 - 1 = Event(session)
  BY <1>1
<1>3. Fits(session, Len(session.log) + 1, q)
  <2>1. PICK n : n = Len(session.log) + 1
    OBVIOUS
  <2>2. n # 1 /\ 1 .. n - 1 = Event(session)
    BY <1>2, <2>1
  <2>3. /\ q.type # "session.created" /\ q.type # "session.forked"
        /\ q.type # "oracle.context_built" /\ q.type # "oracle.output" /\ q.type # "job"
    BY DEF PlainTypes
  <2>4. {q.parent, q.cause} \cup q.cites \subseteq Event(session) \cup {NoEvent}
    OBVIOUS
  <2>5. Fits(session, n, q)
    BY <2>2, <2>3, <2>4 DEF Fits
  <2> QED
    BY <2>1, <2>5
<1>4. /\ BundleTypeOK /\ BundleStory /\ bundle = Nothing /\ steps < MaxSteps
      /\ retries' \in 0 .. MaxRetries /\ (retries' = 0 => retries = 0 /\ FirstContext(session, q))
      /\ q.type # "session.forked"
  BY <1>1 DEF Growing, PlainTypes, FirstContext
<1> QED
  BY <1>3, <1>4, HappensKeeps

\* What is said, asked or given to do on a branch.
LEMMA SayKeeps ==
  ASSUME Growing, NEW b \in Branch, Exists(session, b),
         NEW type \in {"human.input", "oracle.request", "worker.task"},
         Happens(Record(type, b, LastEvent(session, b), 0)), UNCHANGED retries
  PROVE  BundleTypeOK' /\ BundleStory'
<1>1. PICK p : p = LastEvent(session, b)
  OBVIOUS
<1>2. p \in Event(session) /\ session.log[p].branch = b /\ p \in Nat
  BY <1>1, GrowingIs, LastIs
<1>3. PICK q : q = Record(type, b, p, 0)
  OBVIOUS
<1>4. type \in Types /\ type \in PlainTypes
  BY DEF Types, PlainTypes
<1>5. /\ q \in EventRecord /\ q.type = type /\ q.branch = b /\ q.parent = p /\ q.cause = 0
      /\ q.cites = {}
  BY <1>2, <1>3, <1>4, RecordIs
<1>6. Happens(q)
  BY <1>1, <1>3
<1> QED
  BY <1>2, <1>4, <1>5, <1>6, PlainKeeps DEF NoEvent

LEMMA KeepKeeps ==
  ASSUME Growing, NEW e \in Event(session), Keep(e)
  PROVE  BundleTypeOK' /\ BundleStory'
<1>1. PICK b : b = session.log[e].branch
  OBVIOUS
<1>2. b \in Branch /\ e \in Own(session, b)
  BY <1>1, GrowingIs DEF Own
<1>3. Exists(session, b)
  BY <1>2, GrowingIs DEF SessionSound
<1>4. PICK p : p = LastEvent(session, b)
  OBVIOUS
<1>5. p \in Event(session) /\ session.log[p].branch = b /\ p \in Nat /\ e \in Nat
  BY <1>2, <1>3, <1>4, GrowingIs, LastIs
<1>6. PICK C : C = {e}
  OBVIOUS
<1>7. PICK q : q = About("human.keep", b, p, e, C)
  OBVIOUS
<1>8. C \in SUBSET Nat /\ "human.keep" \in Types
  BY <1>5, <1>6, NamesAre
<1>9. /\ q \in EventRecord /\ q.type = "human.keep" /\ q.branch = b /\ q.parent = p
      /\ q.cause = e /\ q.cites = C
  BY <1>2, <1>5, <1>7, <1>8, AboutIs
<1>10. Happens(q) /\ UNCHANGED retries
  BY <1>1, <1>4, <1>6, <1>7 DEF Keep, About
<1> QED
  BY <1>5, <1>6, <1>9, <1>10, PlainKeeps DEF PlainTypes

LEMMA RunEndsKeeps ==
  ASSUME Growing, NEW e \in Event(session), RunEnds(e)
  PROVE  BundleTypeOK' /\ BundleStory'
<1>1. PICK b : b = session.log[e].branch
  OBVIOUS
<1>2. b \in Branch /\ e \in Nat
  BY <1>1, GrowingIs
<1>3. PICK C : C = {e}
  OBVIOUS
<1>4. PICK q : q = About("worker.run_completed", b, e, e, C)
  OBVIOUS
<1>5. C \in SUBSET Nat /\ "worker.run_completed" \in Types
  BY <1>2, <1>3, NamesAre
<1>6. /\ q \in EventRecord /\ q.type = "worker.run_completed" /\ q.branch = b
      /\ q.parent = e /\ q.cause = e /\ q.cites = C
  BY <1>2, <1>4, <1>5, AboutIs
<1>7. Happens(q) /\ UNCHANGED retries
  BY <1>1, <1>3, <1>4 DEF RunEnds, About
<1> QED
  BY <1>1, <1>3, <1>6, <1>7, PlainKeeps DEF PlainTypes
\* A fork starts a branch that is not there.
LEMMA ForkKeeps ==
  ASSUME Growing, NEW e \in Event(session), NEW b \in Branch, Fork(e, b)
  PROVE  BundleTypeOK' /\ BundleStory'
<1>1. /\ SessionSound(session) /\ Len(session.log) \in Nat
      /\ Event(session) = 1 .. Len(session.log) /\ e \in Nat /\ retries \in 0 .. MaxRetries
  BY GrowingIs
<1>2. b # Main
  <2>1. 1 \in Event(session) /\ Fits(session, 1, session.log[1])
    BY <1>1, SessionIs
  <2>2. 1 \in Own(session, Main) /\ Main \in Branch
    BY <2>1, LogAssumption DEF Fits, Own
  <2>3. Exists(session, Main)
    BY <1>1, <2>2 DEF SessionSound
  <2> QED
    BY <2>3 DEF Fork
<1>3. PICK C : C = {e}
  OBVIOUS
<1>4. PICK q : q = About("session.forked", b, e, e, C)
  OBVIOUS
<1>5. C \in SUBSET Nat /\ "session.forked" \in Types
  BY <1>1, <1>3, NamesAre
<1>6. /\ q \in EventRecord /\ q.type = "session.forked" /\ q.branch = b /\ q.parent = e
      /\ q.cause = e /\ q.cites = C
  BY <1>1, <1>4, <1>5, AboutIs
<1>7. Happens(q) /\ UNCHANGED retries /\ ~ Exists(session, b)
  BY <1>3, <1>4 DEF Fork, About
<1>8. Fits(session, Len(session.log) + 1, q)
  <2>1. PICK n : n = Len(session.log) + 1
    OBVIOUS
  <2>2. n # 1 /\ 1 .. n - 1 = Event(session)
    BY <1>1, <2>1
  <2>3. {q.parent, q.cause} \cup q.cites \subseteq Event(session) \cup {NoEvent}
    BY <1>3, <1>6
  <2>4. Fits(session, n, q)
    BY <1>2, <1>6, <2>2, <2>3 DEF Fits
  <2> QED
    BY <2>1, <2>4
<1>9. /\ BundleTypeOK /\ BundleStory /\ bundle = Nothing /\ steps < MaxSteps
      /\ retries' \in 0 .. MaxRetries /\ (retries' = 0 => retries = 0 /\ FirstContext(session, q))
      /\ q.type = "session.forked" => ~ Exists(session, q.branch)
  BY <1>1, <1>6, <1>7 DEF Growing, FirstContext
<1> QED
  BY <1>6, <1>7, <1>8, <1>9, HappensKeeps

\* A context is of the chain of its request, and the first one unless it was run before.
LEMMA BuildKeeps ==
  ASSUME Growing, NEW x \in OfType("oracle.request"), Build(x)
  PROVE  BundleTypeOK' /\ BundleStory'
<1>1. /\ SessionSound(session) /\ Len(session.log) \in Nat
      /\ Event(session) = 1 .. Len(session.log) /\ retries \in 0 .. MaxRetries
      /\ \A e \in Event(session) : e \in Nat /\ session.log[e].branch \in Branch
  BY GrowingIs
<1>2. x \in Event(session) /\ session.log[x].type = "oracle.request"
  BY DEF OfType
<1>3. PICK chain : chain = ParentChain(session, x)
  OBVIOUS
<1>4. chain \subseteq Event(session)
  <2>1. session.log \in Seq(EventRecord) /\ Descends(session)
    BY <1>1, SessionIs
  <2>2. chain \subseteq 1 .. x
    BY <1>2, <1>3, <2>1, ChainBelow
  <2> QED
    BY <1>1, <1>2, <2>2
<1>5. PICK C : C = {e \in chain : session.log[e].type \in {"human.input", "oracle.output"}}
  OBVIOUS
<1>6. C \subseteq chain
  BY <1>5
<1>7. PICK b : b = session.log[x].branch
  OBVIOUS
<1>8. b \in Branch /\ x \in Nat /\ C \in SUBSET Nat /\ "oracle.context_built" \in Types
  BY <1>1, <1>2, <1>4, <1>6, <1>7, NamesAre
<1>9. PICK q : q = About("oracle.context_built", b, x, x, C)
  OBVIOUS
<1>10. /\ q \in EventRecord /\ q.type = "oracle.context_built" /\ q.branch = b
       /\ q.parent = x /\ q.cause = x /\ q.cites = C
  BY <1>8, <1>9, AboutIs
<1>11. Happens(q)
  <2>1. PICK D : D = {e \in ParentChain(session, x) :
                        session.log[e].type \in {"human.input", "oracle.output"}}
    OBVIOUS
  <2>2. D = C
    BY <1>3, <1>5, <2>1
  <2>3. Happens(About("oracle.context_built", session.log[x].branch, x, x, D))
    BY <2>1 DEF Build, About
  <2> QED
    BY <1>7, <1>9, <2>2, <2>3
<1>12. Fits(session, Len(session.log) + 1, q)
  <2>1. PICK n : n = Len(session.log) + 1
    OBVIOUS
  <2>2. n # 1 /\ 1 .. n - 1 = Event(session)
    BY <1>1, <1>2, <2>1
  <2>3. {q.parent, q.cause} \cup q.cites \subseteq Event(session) \cup {NoEvent}
    BY <1>2, <1>4, <1>6, <1>10
  <2>4. /\ q.cites \subseteq ParentChain(session, q.parent) /\ q.cause \in Event(session)
        /\ session.log[q.parent].branch = q.branch /\ session.log[q.cause].branch = q.branch
    BY <1>2, <1>3, <1>6, <1>7, <1>10
  <2>5. Fits(session, n, q)
    BY <1>2, <1>10, <2>2, <2>3, <2>4 DEF Fits
  <2> QED
    BY <2>1, <2>5
<1>13. ASSUME retries' = 0
       PROVE  retries = 0 /\ FirstContext(session, q)
  <2>1. /\ retries' = IF Caused("oracle.context_built", x) = {} THEN retries ELSE retries + 1
    BY DEF Build
  <2>2. Caused("oracle.context_built", x) = {} /\ retries = 0
    BY <1>1, <1>13, <2>1
  <2> QED
    BY <1>10, <2>2 DEF FirstContext, Caused, OfType
<1>14. retries' \in 0 .. MaxRetries
  <2>1. /\ retries' = IF Caused("oracle.context_built", x) = {} THEN retries ELSE retries + 1
        /\ retries' <= MaxRetries
    BY DEF Build
  <2> QED
    BY <1>1, <2>1, BundleAssumption
<1>15. /\ BundleTypeOK /\ BundleStory /\ bundle = Nothing /\ steps < MaxSteps
       /\ q.type # "session.forked"
  BY <1>10 DEF Growing
<1> QED
  BY <1>10, <1>11, <1>12, <1>13, <1>14, <1>15, HappensKeeps

\* What the provider answered in context c of request q.
AnswerIn(b, c, q, origin) == [Record("oracle.output", b, c, q) EXCEPT !.origin = origin]

\* An answer is behind a context of its request, on the branch of both.
LEMMA AnswerKeeps ==
  ASSUME Growing, NEW x \in OfType("oracle.request"), NEW origin \in Origins, Answer(x, origin)
  PROVE  BundleTypeOK' /\ BundleStory'
<1>1. /\ SessionSound(session) /\ Len(session.log) \in Nat
      /\ Event(session) = 1 .. Len(session.log) /\ retries \in 0 .. MaxRetries
      /\ \A e \in Event(session) : e \in Nat /\ session.log[e].branch \in Branch
  BY GrowingIs
<1>2. x \in Event(session) /\ session.log[x].type = "oracle.request"
  BY DEF OfType
<1>3. PICK c \in Caused("oracle.context_built", x) :
        Happens(AnswerIn(session.log[x].branch, c, x, origin))
  BY DEF Answer, AnswerIn
<1>4. /\ c \in Event(session) /\ session.log[c].type = "oracle.context_built"
      /\ session.log[c].cause = x
  BY <1>3 DEF Caused, OfType
<1>5. PICK b : b = session.log[x].branch
  OBVIOUS
<1>6. session.log[c].branch = b
  <2>1. Fits(session, c, session.log[c])
    BY <1>1, <1>4, SessionIs
  <2> QED
    BY <1>2, <1>4, <1>5, <2>1 DEF Fits
<1>7. PICK r : r = Record("oracle.output", b, c, x)
  OBVIOUS
<1>8. /\ r \in EventRecord /\ r.type = "oracle.output" /\ r.branch = b /\ r.parent = c
      /\ r.cause = x /\ r.cites = {}
  <2>1. "oracle.output" \in Types /\ b \in Branch /\ c \in Nat /\ x \in Nat
    BY <1>1, <1>2, <1>4, <1>5, NamesAre
  <2> QED
    BY <1>7, <2>1, RecordIs
<1>9. PICK q : q = [r EXCEPT !.origin = origin]
  OBVIOUS
<1>10. /\ q \in EventRecord /\ q.type = "oracle.output" /\ q.branch = b /\ q.parent = c
       /\ q.cause = x /\ q.cites = {}
  <2>1. origin \in {"genuine", "historical", "synthetic"}
    BY BundleAssumption
  <2> QED
    BY <1>8, <1>9, <2>1 DEF EventRecord
<1>11. Happens(q) /\ UNCHANGED retries
  <2>1. q = AnswerIn(b, c, x, origin)
    BY <1>7, <1>9 DEF AnswerIn
  <2> QED
    BY <1>3, <1>5, <2>1 DEF Answer
<1>12. Fits(session, Len(session.log) + 1, q)
  <2>1. PICK n : n = Len(session.log) + 1
    OBVIOUS
  <2>2. n # 1 /\ 1 .. n - 1 = Event(session)
    BY <1>1, <1>2, <2>1
  <2>3. {q.parent, q.cause} \cup q.cites \subseteq Event(session) \cup {NoEvent}
    BY <1>2, <1>4, <1>10
  <2>4. /\ session.log[q.parent].branch = q.branch /\ q.parent \in Event(session)
        /\ session.log[q.parent].type = "oracle.context_built"
        /\ session.log[q.parent].cause = q.cause
    BY <1>4, <1>6, <1>10
  <2>5. Fits(session, n, q)
    BY <1>10, <2>2, <2>3, <2>4 DEF Fits
  <2> QED
    BY <2>1, <2>5
<1>13. /\ BundleTypeOK /\ BundleStory /\ bundle = Nothing /\ steps < MaxSteps
       /\ retries' \in 0 .. MaxRetries /\ (retries' = 0 => retries = 0 /\ FirstContext(session, q))
       /\ q.type # "session.forked"
  BY <1>1, <1>10, <1>11 DEF Growing, FirstContext
<1> QED
  BY <1>10, <1>11, <1>12, <1>13, HappensKeeps

\* The snapshots of a job are on the branch of its task, and have a last one.
LEMMA SnapshotsAre ==
  ASSUME NEW t, SessionSound(session), Snapshots(t) # {}
  PROVE  /\ LastSnapshot(t) \in Snapshots(t) /\ \A e \in Snapshots(t) : e <= LastSnapshot(t)
         /\ \A e \in Snapshots(t) :
              /\ e \in Event(session) /\ session.log[e].branch = session.log[t].branch
              /\ session.log[e].type = "job" /\ session.log[e].job = t
              /\ session.log[e].status # "none" /\ t \in 1 .. e - 1
<1>1. /\ Len(session.log) \in Nat /\ Event(session) = 1 .. Len(session.log)
      /\ \A e \in Event(session) : Fits(session, e, session.log[e])
  BY SessionIs
<1>2. \A e \in Snapshots(t) : /\ e \in Event(session)
                              /\ session.log[e].type = "job" /\ session.log[e].job = t
  BY DEF Snapshots, OfType
<1>3. \E e \in Snapshots(t) : \A x \in Snapshots(t) : x <= e
  BY <1>1, <1>2, GreatestElement
<1>4. /\ LastSnapshot(t) \in Snapshots(t)
      /\ \A e \in Snapshots(t) : e <= LastSnapshot(t)
  BY <1>3 DEF LastSnapshot
<1>5. ASSUME NEW e \in Snapshots(t)
      PROVE  /\ session.log[e].branch = session.log[t].branch
             /\ session.log[e].status # "none" /\ t \in 1 .. e - 1
  BY <1>1, <1>2 DEF Fits
<1> QED
  BY <1>2, <1>4, <1>5

\* A snapshot of the job of a task is on its branch.
LEMMA SnapshotKeeps ==
  ASSUME Growing, NEW t \in Event(session), NEW x \in Event(session),
         session.log[x].branch = session.log[t].branch,
         NEW status \in {"pending", "leased", "completed"},
         Happens(Snapshot(t, x, status)), UNCHANGED retries
  PROVE  BundleTypeOK' /\ BundleStory'
<1>1. /\ SessionSound(session) /\ Len(session.log) \in Nat
      /\ Event(session) = 1 .. Len(session.log) /\ retries \in 0 .. MaxRetries
      /\ \A e \in Event(session) : e \in Nat /\ session.log[e].branch \in Branch
  BY GrowingIs
<1>2. PICK b : b = session.log[t].branch
  OBVIOUS
<1>3. PICK C : C = {t}
  OBVIOUS
<1>4. PICK r : r = About("job", b, x, x, C)
  OBVIOUS
<1>5. /\ r \in EventRecord /\ r.type = "job" /\ r.branch = b /\ r.parent = x
      /\ r.cause = x /\ r.cites = C
  <2>1. "job" \in Types /\ b \in Branch /\ x \in Nat /\ C \in SUBSET Nat
    BY <1>1, <1>2, <1>3, NamesAre
  <2> QED
    BY <1>4, <2>1, AboutIs
<1>6. PICK q : q = [r EXCEPT !.job = t, !.status = status]
  OBVIOUS
<1>7. /\ q \in EventRecord /\ q.type = "job" /\ q.branch = b /\ q.parent = x
      /\ q.cause = x /\ q.cites = C /\ q.job = t /\ q.status = status
  <2>1. t \in Nat /\ status \in {"none", "pending", "leased", "completed"}
    BY <1>1
  <2> QED
    BY <1>5, <1>6, <2>1 DEF EventRecord
<1>8. q = Snapshot(t, x, status)
  <2>1. q = [About("job", b, x, x, C) EXCEPT !.job = t, !.status = status]
    BY <1>4, <1>6
  <2> QED
    BY <1>2, <1>3, <2>1 DEF Snapshot, About, Record
<1>9. Fits(session, Len(session.log) + 1, q)
  <2>1. PICK n : n = Len(session.log) + 1
    OBVIOUS
  <2>2. n # 1 /\ 1 .. n - 1 = Event(session)
    BY <1>1, <2>1
  <2>3. {q.parent, q.cause} \cup q.cites \subseteq Event(session) \cup {NoEvent}
    BY <1>3, <1>7
  <2>4. /\ session.log[q.parent].branch = q.branch /\ q.parent \in Event(session)
        /\ q.status # "none" /\ q.job \in Event(session)
        /\ session.log[q.job].branch = q.branch
    BY <1>2, <1>7
  <2>5. Fits(session, n, q)
    BY <1>7, <2>2, <2>3, <2>4 DEF Fits
  <2> QED
    BY <2>1, <2>5
<1>10. /\ BundleTypeOK /\ BundleStory /\ bundle = Nothing /\ steps < MaxSteps
       /\ retries' \in 0 .. MaxRetries /\ (retries' = 0 => retries = 0 /\ FirstContext(session, q))
       /\ q.type # "session.forked" /\ Happens(q)
  BY <1>1, <1>7, <1>8 DEF Growing, FirstContext
<1> QED
  BY <1>7, <1>9, <1>10, HappensKeeps

\* Every operation of the session keeps the invariant.
LEMMA GrowKeeps ==
  ASSUME Growing, Grow
  PROVE  BundleTypeOK' /\ BundleStory'
<1>1. SessionSound(session) /\ \A type : OfType(type) \subseteq Event(session)
  BY GrowingIs DEF OfType
<1>2. ASSUME NEW b \in Branch, Say(b) \/ Ask(b) \/ Task(b)
      PROVE  BundleTypeOK' /\ BundleStory'
  <2>1. PICK type \in {"human.input", "oracle.request", "worker.task"} :
          /\ Exists(session, b) /\ Happens(Record(type, b, LastEvent(session, b), 0))
          /\ UNCHANGED retries
    BY <1>2 DEF Say, Ask, Task
  <2> QED
    BY <2>1, SayKeeps
<1>3. ASSUME NEW q \in OfType("oracle.request"),
             Build(q) \/ \E origin \in Origins : Answer(q, origin)
      PROVE  BundleTypeOK' /\ BundleStory'
  BY <1>3, BuildKeeps, AnswerKeeps
<1>4. ASSUME NEW e \in OfType("oracle.output"), Keep(e)
      PROVE  BundleTypeOK' /\ BundleStory'
  BY <1>1, <1>4, KeepKeeps
<1>5. ASSUME NEW e \in Event(session), NEW b \in Branch, Fork(e, b)
      PROVE  BundleTypeOK' /\ BundleStory'
  BY <1>5, ForkKeeps
<1>6. ASSUME NEW t \in OfType("worker.task"), Enqueue(t) \/ Lease(t) \/ RunEnds(t) \/ Complete(t)
      PROVE  BundleTypeOK' /\ BundleStory'
  <2>1. t \in Event(session)
    BY <1>1
  <2>2. CASE Enqueue(t)
    BY <2>1, <2>2, SnapshotKeeps DEF Enqueue
  <2>3. CASE RunEnds(t)
    BY <2>1, <2>3, RunEndsKeeps
  <2>4. CASE Lease(t) \/ Complete(t)
    <3>1. Snapshots(t) # {}
      BY <2>4 DEF Lease, Complete
    <3>2. PICK status \in {"leased", "completed"} :
            Happens(Snapshot(t, LastSnapshot(t), status)) /\ UNCHANGED retries
      BY <2>4 DEF Lease, Complete
    <3>3. /\ LastSnapshot(t) \in Event(session)
          /\ session.log[LastSnapshot(t)].branch = session.log[t].branch
      BY <1>1, <3>1, SnapshotsAre
    <3> QED
      BY <2>1, <3>2, <3>3, SnapshotKeeps
  <2> QED
    BY <1>6, <2>2, <2>3, <2>4
<1> QED
  BY <1>2, <1>3, <1>4, <1>5, <1>6 DEF Grow
-----------------------------------------------------------------------------
(* The export *)

LEMMA ExportedIs ==
  ASSUME NEW s, SessionSound(s)
  PROVE  /\ Exported(s).events \subseteq Event(s) /\ Exported(s).current \in Branch
         /\ Exported(s) # Nothing
<1>1. s.log[Len(s.log)] \in EventRecord
  BY SessionIs
<1>2. CurrentBranch(s) \in Branch
  BY <1>1 DEF CurrentBranch, EventRecord
<1>3. GenuineEvents(s) \subseteq Event(s)
  BY DEF GenuineEvents
<1>4. PICK x : x = Exported(s)
  OBVIOUS
<1>5. x.events = GenuineEvents(s) /\ x.current = CurrentBranch(s) /\ "events" \in DOMAIN x
  BY <1>4 DEF Exported
<1>6. "events" \notin DOMAIN Nothing
  BY DEF Nothing
<1> QED
  BY <1>2, <1>3, <1>4, <1>5, <1>6

LEMMA ExportKeeps ==
  ASSUME BundleTypeOK, BundleStory, Export
  PROVE  BundleTypeOK' /\ BundleStory'
<1>1. bundle = Nothing /\ bundle' = Exported(session)
  BY DEF Export
<1>2. SessionSound(session) /\ Untouched /\ (retries = 0 => OneContext(session))
  BY <1>1, BeforeExport
<1>3. /\ session' = session /\ steps' = steps /\ retries' = retries /\ db' = db
      /\ lock' = lock /\ disk' = disk /\ torn' = torn /\ importer' = importer
      /\ errors' = errors /\ crashes' = crashes
  BY DEF Export, grownVars, labVars
<1>4. /\ bundle'.events \subseteq Event(session) /\ bundle'.current \in Branch
      /\ bundle' # Nothing
  BY <1>1, <1>2, ExportedIs
<1>5. /\ db = <<>> /\ disk = {} /\ lock = NoImporter
      /\ \A i \in Importer : importer[i] = Idle
  BY <1>2 DEF Untouched
<1>6. torn = {}
  BY <1>5 DEF BundleTypeOK
<1>7. BundleTypeOK'
  BY <1>3, <1>4, <1>5 DEF BundleTypeOK
<1>8. /\ Idle.step = "idle" /\ Idle.todo = {} /\ Idle.reuse = {} /\ Idle.foreign = {}
      /\ Idle.made = <<>> /\ DOMAIN Idle.made = {}
  BY DEF Idle
<1>9. \A i \in Importer : importer'[i] = Idle /\ MadeBy(i)' = {}
  BY <1>3, <1>5, <1>8 DEF MadeBy
<1>10. \A i \in Importer : ~ At(i, "write")'
  BY <1>8, <1>9 DEF At
<1>11. MadeApart'
  <2>1. \A i \in Importer : At(i, "write")' <=> lock' = i
    BY <1>3, <1>5, <1>10, BundleAssumption DEF NoImporter
  <2> QED
    BY <1>8, <1>9, <2>1 DEF MadeApart
<1>12. CopiesFollowed'
  BY <1>8, <1>9, <1>10 DEF CopiesFollowed
<1>13. Committed'
  BY <1>3, <1>5 DEF Committed
<1>14. NothingLost'
  BY <1>3, <1>5 DEF NothingLost
<1>15. SessionSound(session)' /\ (retries' = 0 => OneContext(session)')
  BY <1>2, <1>3
<1>16. bundle' = Exported(session)'
  BY <1>1, <1>3
<1> QED
  BY <1>4, <1>7, <1>11, <1>12, <1>13, <1>14, <1>15, <1>16 DEF BundleStory

-----------------------------------------------------------------------------
(* The session at the start *)

\* A session in one line: every event is behind the one before, on the first branch.
Line(s) ==
  /\ SessionSound(s) /\ OneContext(s)
  /\ \A x \in Event(s) : s.log[x].parent = x - 1 /\ s.log[x].branch = Main

LEMMA LineChain ==
  ASSUME NEW s, Line(s)
  PROVE  \A x \in Event(s) : ParentChain(s, x) = 1 .. x
<1>1. /\ s.log \in Seq(EventRecord) /\ Len(s.log) \in Nat /\ Event(s) = 1 .. Len(s.log)
      /\ Rooted(s)
  BY SessionIs DEF Line
<1>2. PICK n \in Nat : n = Len(s.log)
  BY <1>1
<1>3. ParentChain(s, 0) = {}
  BY <1>1, ChainIs DEF NoEvent
<1>4. \A x \in 1 .. n : ParentChain(s, x) = {x} \cup ParentChain(s, x - 1)
  <2>1. \A x \in Event(s) : ParentChain(s, x) = {x} \cup ParentChain(s, s.log[x].parent)
    BY <1>1, ChainIs
  <2> QED
    BY <1>1, <1>2, <2>1 DEF Line
<1> DEFINE P == {k \in 0 .. n : ParentChain(s, k) = 1 .. k}
<1>5. ASSUME NEW k \in 0 .. n, \A i \in 0 .. n : i < k => i \in P
      PROVE  k \in P
  <2>1. CASE k = 0
    BY <1>3, <2>1
  <2>2. CASE k # 0
    <3>1. k - 1 \in P
      BY <1>5, <2>2
    <3>2. ParentChain(s, k) = {k} \cup 1 .. k - 1
      BY <1>4, <2>2, <3>1
    <3>3. {k} \cup 1 .. k - 1 = 1 .. k
      BY <2>2
    <3> QED
      BY <3>2, <3>3
  <2> QED
    BY <2>1, <2>2
<1> HIDE DEF P
<1>6. 0 .. n \subseteq P
  BY <1>5, StrongInduction
<1> QED
  BY <1>1, <1>2, <1>6 DEF P

\* The types of what a historical log becomes.
ToldTypes == {"human.input", "oracle.request", "oracle.context_built", "oracle.output",
              "session.imported"}

\* An event r that may come behind a line, and what it makes of it.
Continues(s, n, r) ==
  /\ n = Len(s.log) + 1 /\ r \in EventRecord /\ r.at = n
  /\ r.parent = n - 1 /\ r.branch = Main /\ r.type \in ToldTypes
  /\ r.cause \in Event(s) /\ r.cites \subseteq Event(s) /\ FirstContext(s, r)
  /\ r.type = "oracle.output" => /\ s.log[n - 1].type = "oracle.context_built"
                                 /\ s.log[n - 1].cause = r.cause
Continued(s, r) == [log |-> Append(s.log, r), branch |-> s.branch]

\* One more event of the log.
LEMMA LineGrows ==
  ASSUME NEW s, Line(s), NEW n, NEW r, Continues(s, n, r), NEW t, t = Continued(s, r)
  PROVE  Line(t) /\ Event(s) = 1 .. n - 1 /\ t.log[n] = r /\ n \in Nat /\ Begins(s, t)
<1>0. /\ n = Len(s.log) + 1 /\ r \in EventRecord /\ r.at = n
      /\ r.parent = n - 1 /\ r.branch = Main /\ r.type \in ToldTypes
      /\ r.cause \in Event(s) /\ r.cites \subseteq Event(s) /\ FirstContext(s, r)
      /\ r.type = "oracle.output" => /\ s.log[n - 1].type = "oracle.context_built"
                                     /\ s.log[n - 1].cause = r.cause
  BY DEF Continues
<1>1. /\ SessionSound(s) /\ s.log \in Seq(EventRecord) /\ Len(s.log) \in Nat
      /\ Event(s) = 1 .. Len(s.log) /\ 1 \in Event(s)
  BY SessionIs DEF Line
<1>2. n \in Nat /\ n # 1 /\ Event(s) = 1 .. n - 1 /\ n - 1 \in Event(s)
  BY <1>0, <1>1
<1>3. Fits(s, n, r)
  <2>1. ParentChain(s, r.parent) = Event(s)
    BY <1>0, <1>2, LineChain
  <2>2. /\ s.log[r.parent].branch = r.branch /\ s.log[r.cause].branch = r.branch
        /\ r.parent \in Event(s) /\ r.cause \in Event(s) /\ r.cites \subseteq Event(s)
    BY <1>0, <1>2 DEF Line
  <2>3. /\ r.type # "session.created" /\ r.type # "session.forked" /\ r.type # "job"
    BY <1>0 DEF ToldTypes
  <2> QED
    BY <1>0, <1>2, <2>1, <2>2, <2>3 DEF Fits
<1>4. Grown(s, t, r)
  <2>1. BranchRows(s, r) = s.branch
    BY <1>0 DEF BranchRows, ToldTypes
  <2> QED
    BY <1>0, <2>1 DEF Grown, Continued
<1>5. SessionSound(t) /\ Begins(s, t)
  <2>1. r.type # "session.forked"
    BY <1>0 DEF ToldTypes
  <2> QED
    BY <1>0, <1>1, <1>3, <1>4, <2>1, AppendIsSound
<1>6. OneContext(t)
  <2>1. OneContext(s)
    BY DEF Line
  <2>2. Fits(s, Len(s.log) + 1, r)
    BY <1>0, <1>3
  <2> QED
    BY <1>0, <1>1, <1>4, <2>1, <2>2, ContextsStayOne
<1>7. t.log[n] = r /\ Event(t) = Event(s) \cup {n}
  BY <1>0, <1>1, <1>4, GrownIs
<1>8. \A x \in Event(t) : t.log[x].parent = x - 1 /\ t.log[x].branch = Main
  <2>1. \A x \in Event(s) : t.log[x] = s.log[x]
    BY <1>5 DEF Begins
  <2> QED
    BY <1>0, <1>7, <2>1 DEF Line
<1> QED
  BY <1>0, <1>2, <1>5, <1>6, <1>7, <1>8 DEF Line
\* What the log told is not from this program, and is about C.
Seen(r, at, C) == [Told(r, at) EXCEPT !.cites = C]
\* What the import adds of its own.
Noted(r, at, C) == [r EXCEPT !.at = at, !.cites = C]

LEMMA ToldIs ==
  ASSUME NEW type \in Types, NEW parent \in Nat, NEW cause \in Nat, NEW at \in Nat,
         NEW q, q = Told(Record(type, Main, parent, cause), at)
  PROVE  /\ q \in EventRecord /\ q.at = at /\ q.type = type /\ q.branch = Main
         /\ q.parent = parent /\ q.cause = cause /\ q.cites = {}
<1>1. PICK r : r = Record(type, Main, parent, cause)
  OBVIOUS
<1>2. /\ r \in EventRecord /\ r.type = type /\ r.branch = Main /\ r.parent = parent
      /\ r.cause = cause /\ r.cites = {}
  BY <1>1, RecordIs, LogAssumption
<1>3. q = [r EXCEPT !.at = at, !.origin = "historical"]
  BY <1>1 DEF Told
<1> QED
  BY <1>2, <1>3 DEF EventRecord

LEMMA SeenIs ==
  ASSUME NEW type \in Types, NEW parent \in Nat, NEW cause \in Nat, NEW at \in Nat,
         NEW C \in SUBSET Nat, NEW q, q = Seen(Record(type, Main, parent, cause), at, C)
  PROVE  /\ q \in EventRecord /\ q.at = at /\ q.type = type /\ q.branch = Main
         /\ q.parent = parent /\ q.cause = cause /\ q.cites = C
<1>1. PICK w : w = Told(Record(type, Main, parent, cause), at)
  OBVIOUS
<1>2. /\ w \in EventRecord /\ w.at = at /\ w.type = type /\ w.branch = Main
      /\ w.parent = parent /\ w.cause = cause
  BY <1>1, ToldIs
<1>3. q = [w EXCEPT !.cites = C]
  BY <1>1 DEF Seen
<1> QED
  BY <1>2, <1>3 DEF EventRecord

LEMMA NotedIs ==
  ASSUME NEW type \in Types, NEW parent \in Nat, NEW cause \in Nat, NEW at \in Nat,
         NEW C \in SUBSET Nat, NEW q, q = Noted(Record(type, Main, parent, cause), at, C)
  PROVE  /\ q \in EventRecord /\ q.at = at /\ q.type = type /\ q.branch = Main
         /\ q.parent = parent /\ q.cause = cause /\ q.cites = C
<1>1. PICK r : r = Record(type, Main, parent, cause)
  OBVIOUS
<1>2. /\ r \in EventRecord /\ r.type = type /\ r.branch = Main /\ r.parent = parent
      /\ r.cause = cause /\ r.cites = {}
  BY <1>1, RecordIs, LogAssumption
<1>3. q = [r EXCEPT !.at = at, !.cites = C]
  BY <1>1 DEF Noted
<1> QED
  BY <1>2, <1>3 DEF EventRecord

\* The rows of a session that was just made.
MainOnly == [b \in Branch |-> IF b = Main THEN MainRow ELSE NoRow]

LEMMA RowsOfMain ==
  /\ MainOnly \in [Branch -> BranchRow \cup {NoRow}]
  /\ \A b \in Branch : MainOnly[b] # NoRow <=> b = Main
<1>1. MainRow \in BranchRow
  BY DEF MainRow, BranchRow, NoEvent
<1>2. MainRow # NoRow
  <2>1. PICK m, n : m = MainRow /\ n = NoRow
    OBVIOUS
  <2>2. DOMAIN m = {"parent", "fork", "open"} /\ "absent" \in DOMAIN n
    BY <2>1 DEF MainRow, NoRow
  <2> QED
    BY <2>1, <2>2
<1> QED
  BY <1>1, <1>2 DEF MainOnly

\* A session is created with one event.
LEMMA RootIsLine ==
  ASSUME NEW s, s = [log |-> <<Root>>, branch |-> MainOnly]
  PROVE  /\ Line(s) /\ Event(s) = {1} /\ Len(s.log) = 1
         /\ s.log[1].type = "session.created"
<1>1. PICK r : r = Root
  OBVIOUS
<1>2. /\ r \in EventRecord /\ r.type = "session.created" /\ r.branch = Main /\ r.parent = 0
      /\ r.cause = 0 /\ r.cites = {} /\ r.origin = "genuine" /\ r.at = 1
  <2>1. PICK q : q = Record("session.created", Main, 0, 0)
    OBVIOUS
  <2>2. "session.created" \in Types
    BY NamesAre
  <2>3. /\ q \in EventRecord /\ q.type = "session.created" /\ q.branch = Main /\ q.parent = 0
        /\ q.cause = 0 /\ q.cites = {} /\ q.origin = "genuine"
    BY <2>1, <2>2, RecordIs, LogAssumption
  <2>4. r = [q EXCEPT !.at = 1]
    BY <1>1, <2>1 DEF Root
  <2> QED
    BY <2>3, <2>4 DEF EventRecord
<1>3. s.log = <<r>> /\ s.branch = MainOnly
  BY <1>1
<1>4. s.log \in Seq(EventRecord) /\ Len(s.log) = 1 /\ Event(s) = {1} /\ s.log[1] = r
  BY <1>2, <1>3 DEF Event
<1>5. \A e \in Event(s) : s.log[e].at = e /\ Fits(s, e, s.log[e])
  <2>1. {r.parent, r.cause} \cup r.cites \subseteq 1 .. 1 - 1 \cup {NoEvent}
    BY <1>2 DEF NoEvent
  <2>2. Fits(s, 1, r)
    BY <1>2, <2>1 DEF Fits
  <2> QED
    BY <1>2, <1>4, <2>2
<1>6. \A b \in Branch : Exists(s, b) <=> Own(s, b) # {}
  <2>1. \A b : Own(s, b) # {} <=> b = Main
    BY <1>2, <1>4 DEF Own
  <2> QED
    BY <1>3, <2>1, RowsOfMain DEF Exists
<1>7. SessionSound(s)
  <2>1. s.log # <<>>
    BY <1>4
  <2> QED
    BY <1>2, <1>3, <1>4, <1>5, <1>6, <2>1, RowsOfMain DEF SessionSound
<1>8. OneContext(s)
  BY <1>2, <1>4 DEF OneContext
<1>9. s.log[1].parent = 1 - 1 /\ s.log[1].branch = Main
  BY <1>2, <1>4
<1> QED
  BY <1>2, <1>4, <1>7, <1>8, <1>9 DEF Line
\* What is caused by the last event of a line is the first of it to be.
LEMMA LastIsNew ==
  ASSUME NEW s, Line(s), NEW r, r.cause = Len(s.log)
  PROVE  FirstContext(s, r)
<1>1. /\ Event(s) = 1 .. Len(s.log) /\ Len(s.log) \in Nat
      /\ \A x \in Event(s) : Fits(s, x, s.log[x])
  BY SessionIs DEF Line
<1>2. ASSUME NEW x \in Event(s), s.log[x].type = "oracle.context_built",
             s.log[x].cause = r.cause
      PROVE  FALSE
  <2>1. s.log[x].cause \in 1 .. x - 1
    BY <1>1, <1>2 DEF Fits
  <2> QED
    BY <1>1, <1>2, <2>1
<1> QED
  BY <1>2 DEF FirstContext

LEMMA MessagesAre ==
  ASSUME NEW s
  PROVE  Messages(s.log) \subseteq Event(s)
BY DEF Messages, Event

\* One message more is a line again.
LEMMA HeardIsLine ==
  ASSUME NEW s, Line(s), NEW t, t = [log |-> Said(s.log, "user"), branch |-> s.branch]
  PROVE  Line(t)
<1>1. PICK n : n = Len(s.log)
  OBVIOUS
<1>2. /\ s.log \in Seq(EventRecord) /\ n \in Nat /\ Event(s) = 1 .. n /\ 1 \in Event(s)
  BY <1>1, SessionIs DEF Line
<1>3. PICK r : r = Told(Record("human.input", Main, n, n), n + 1)
  OBVIOUS
<1>4. "human.input" \in Types /\ {} \in SUBSET Nat /\ n + 1 \in Nat
  BY <1>2, NamesAre
<1>5. /\ r \in EventRecord /\ r.at = n + 1 /\ r.type = "human.input" /\ r.branch = Main
      /\ r.parent = n /\ r.cause = n /\ r.cites = {}
  BY <1>2, <1>3, <1>4, ToldIs
<1>6. t = Continued(s, r)
  <2>1. Said(s.log, "user") = s.log \o <<r>>
    BY <1>1, <1>3 DEF Said, Heard
  <2>2. s.log \o <<r>> = Append(s.log, r)
    BY <1>2, <1>5
  <2> QED
    BY <2>1, <2>2 DEF Continued
<1>7. PICK k : k = n + 1
  OBVIOUS
<1>8. Continues(s, k, r)
  <2>1. /\ k = Len(s.log) + 1 /\ r.at = k /\ r.parent = k - 1 /\ r.type \in ToldTypes
        /\ r.cause \in Event(s) /\ r.cites \subseteq Event(s) /\ r.type # "oracle.output"
        /\ FirstContext(s, r)
    BY <1>1, <1>2, <1>5, <1>7 DEF ToldTypes, FirstContext
  <2> QED
    BY <1>5, <2>1 DEF Continues
<1> QED
  BY <1>6, <1>8, LineGrows

LEMMA AnsweredIsLine ==
  ASSUME NEW s, Line(s), NEW t, t = [log |-> Said(s.log, "assistant"), branch |-> s.branch]
  PROVE  Line(t)
<1>1. PICK n : n = Len(s.log)
  OBVIOUS
<1>2. /\ s.log \in Seq(EventRecord) /\ n \in Nat /\ Event(s) = 1 .. n /\ 1 \in Event(s)
  BY <1>1, SessionIs DEF Line
<1>3. PICK C : C = Messages(s.log)
  OBVIOUS
<1>4. C \subseteq Event(s) /\ C \in SUBSET Nat
  <2>1. C \subseteq Event(s)
    BY <1>3, MessagesAre
  <2> QED
    BY <1>2, <2>1
<1>a. PICK n1 : n1 = n + 1
  OBVIOUS
<1>b. PICK n2 : n2 = n + 2
  OBVIOUS
<1>c. PICK n3 : n3 = n + 3
  OBVIOUS
<1>5. /\ "oracle.request" \in Types /\ "oracle.context_built" \in Types
      /\ "oracle.output" \in Types
  BY NamesAre
<1>d. n1 \in Nat /\ n2 \in Nat /\ n3 \in Nat /\ n2 - 1 = n1 /\ n3 - 1 = n2 /\ n1 - 1 = n
  BY <1>2, <1>a, <1>b, <1>c
<1>e. /\ 1 .. n \subseteq 1 .. n1 /\ 1 .. n1 \subseteq 1 .. n2
      /\ n \in 1 .. n /\ n1 \in 1 .. n1
  BY <1>2, <1>a, <1>b
<1>6. PICK q : q = Seen(Record("oracle.request", Main, n, n), n1, C)
  OBVIOUS
<1>7. /\ q \in EventRecord /\ q.at = n1 /\ q.type = "oracle.request" /\ q.branch = Main
      /\ q.parent = n /\ q.cause = n /\ q.cites = C
  <2>1. "oracle.request" \in Types /\ C \in SUBSET Nat /\ n \in Nat /\ n1 \in Nat
    BY <1>2, <1>4, <1>5, <1>d
  <2> QED
    BY <1>6, <2>1, SeenIs
<1>8. PICK c : c = Seen(Record("oracle.context_built", Main, n1, n1), n2, C)
  OBVIOUS
<1>9. /\ c \in EventRecord /\ c.at = n2 /\ c.type = "oracle.context_built"
      /\ c.branch = Main /\ c.parent = n1 /\ c.cause = n1 /\ c.cites = C
  <2>1. "oracle.context_built" \in Types /\ C \in SUBSET Nat /\ n1 \in Nat /\ n2 \in Nat
    BY <1>4, <1>5, <1>d
  <2> QED
    BY <1>8, <2>1, SeenIs
<1>10. PICK o : o = Told(Record("oracle.output", Main, n2, n1), n3)
  OBVIOUS
<1>11. /\ o \in EventRecord /\ o.at = n3 /\ o.type = "oracle.output" /\ o.branch = Main
       /\ o.parent = n2 /\ o.cause = n1 /\ o.cites = {}
  <2>1. "oracle.output" \in Types /\ n1 \in Nat /\ n2 \in Nat /\ n3 \in Nat
    BY <1>5, <1>d
  <2> QED
    BY <1>10, <2>1, ToldIs
<1>12. PICK s1 : s1 = Continued(s, q)
  OBVIOUS
<1>13. Line(s1) /\ Len(s1.log) = n1 /\ s1.log \in Seq(EventRecord) /\ Event(s1) = 1 .. n1
  <2>1. q.cause \in Event(s) /\ q.cites \subseteq Event(s)
    BY <1>2, <1>4, <1>7, <1>e
  <2>2. /\ n1 = Len(s.log) + 1 /\ q.parent = n1 - 1 /\ q.type \in ToldTypes
        /\ q.type # "oracle.output" /\ FirstContext(s, q)
    BY <1>1, <1>7, <1>a, <1>d DEF ToldTypes, FirstContext
  <2>3. Line(s1)
    <3>1. Continues(s, n1, q)
      BY <1>7, <2>1, <2>2 DEF Continues
    <3> QED
      BY <1>12, <3>1, LineGrows
  <2>4. Len(s1.log) = n1
    BY <1>1, <1>2, <1>7, <1>12, <1>a DEF Continued
  <2> QED
    BY <2>3, <2>4, SessionIs DEF Line
<1>14. PICK s2 : s2 = Continued(s1, c)
  OBVIOUS
<1>15. /\ Line(s2) /\ Len(s2.log) = n2 /\ s2.log \in Seq(EventRecord)
       /\ Event(s2) = 1 .. n2 /\ s2.log[n2] = c
  <2>1. c.cause \in Event(s1) /\ c.cites \subseteq Event(s1)
    BY <1>2, <1>4, <1>9, <1>13, <1>e
  <2>2. FirstContext(s1, c)
    BY <1>9, <1>13, LastIsNew
  <2>3. /\ n2 = Len(s1.log) + 1 /\ c.parent = n2 - 1 /\ c.type \in ToldTypes
        /\ c.type # "oracle.output"
    BY <1>2, <1>9, <1>13, <1>a, <1>b, <1>d DEF ToldTypes
  <2>4. Line(s2) /\ s2.log[n2] = c
    <3>1. Continues(s1, n2, c)
      BY <1>9, <2>1, <2>2, <2>3 DEF Continues
    <3> QED
      BY <1>13, <1>14, <3>1, LineGrows
  <2>5. Len(s2.log) = n2
    BY <1>9, <1>13, <1>14, <2>3 DEF Continued
  <2> QED
    BY <2>4, <2>5, SessionIs DEF Line
<1>16. PICK s3 : s3 = Continued(s2, o)
  OBVIOUS
<1>17. Line(s3)
  <2>1. o.cause \in Event(s2) /\ o.cites \subseteq Event(s2)
    BY <1>11, <1>15, <1>e
  <2>2. /\ n3 = Len(s2.log) + 1 /\ o.parent = n3 - 1 /\ o.type \in ToldTypes
    BY <1>2, <1>11, <1>15, <1>b, <1>c, <1>d DEF ToldTypes
  <2>3. s2.log[n3 - 1].type = "oracle.context_built" /\ s2.log[n3 - 1].cause = o.cause
    BY <1>9, <1>11, <1>15, <1>d
  <2>4. FirstContext(s2, o)
    BY <1>11 DEF FirstContext
  <2> QED
    <3>1. Continues(s2, n3, o)
      BY <1>11, <2>1, <2>2, <2>3, <2>4 DEF Continues
    <3> QED
      BY <1>15, <1>16, <3>1, LineGrows
<1>18. t = s3
  <2>1. Said(s.log, "assistant") = s.log \o <<q, c, o>>
    <3>1. /\ q = [Told(Record("oracle.request", Main, n, n), n + 1) EXCEPT !.cites = C]
          /\ c = [Told(Record("oracle.context_built", Main, n + 1, n + 1), n + 2) EXCEPT
                    !.cites = C]
          /\ o = Told(Record("oracle.output", Main, n + 2, n + 1), n + 3)
      BY <1>6, <1>8, <1>10, <1>a, <1>b, <1>c DEF Seen
    <3>2. Answered(s.log) = <<q, c, o>>
      BY <1>1, <1>3, <3>1 DEF Answered
    <3> QED
      BY <3>2, SMTT(30) DEF Said
  <2>2. s.log \o <<q, c, o>> = Append(Append(Append(s.log, q), c), o)
    BY <1>2, <1>7, <1>9, <1>11
  <2> QED
    BY <1>12, <1>14, <1>16, <2>1, <2>2 DEF Continued
<1> QED
  BY <1>17, <1>18
\* Two more events, at once and one after the other.
LEMMA TwoAppended ==
  ASSUME NEW l \in Seq(EventRecord), NEW x \in EventRecord, NEW y \in EventRecord
  PROVE  l \o <<x, y>> = Append(Append(l, x), y)
OBVIOUS

\* The two events the import of a transcript ends in: `n` is the last event told, `C` are
\* the messages.
Notes(n, C) == <<Noted(Record("oracle.context_built", Main, n, n), n + 1, C),
                 Noted(Record("session.imported", Main, n + 1, 1), n + 2,
                       C \cup {1, n, n + 1})>>

\* The note of the import, behind the context of all that was said.
LEMMA NotedIsLine ==
  ASSUME NEW s, Line(s), NEW n, n = Len(s.log), NEW C, C = Messages(s.log),
         NEW t, t = [log |-> s.log \o Notes(n, C), branch |-> s.branch]
  PROVE  Line(t)
<1>1. /\ s.log \in Seq(EventRecord) /\ n \in Nat /\ Event(s) = 1 .. n /\ 1 \in Event(s)
  BY SessionIs DEF Line
<1>2. C \subseteq Event(s)
  BY MessagesAre
<1>3. PICK n1 : n1 = n + 1
  OBVIOUS
<1>4. PICK n2 : n2 = n + 2
  OBVIOUS
<1>5. PICK D : D = C \cup {1, n, n + 1}
  OBVIOUS
<1>6. n1 \in Nat /\ n2 \in Nat /\ n1 - 1 = n /\ n2 - 1 = n1 /\ n \in Event(s)
  BY <1>1, <1>3, <1>4
<1>7. C \in SUBSET Nat
  BY <1>1, <1>2
<1>8. D \subseteq 1 .. n1 /\ D \in SUBSET Nat
  BY <1>1, <1>2, <1>3, <1>5
<1>9. "oracle.context_built" \in Types /\ "session.imported" \in Types
  BY NamesAre
<1>10. PICK c : c = Noted(Record("oracle.context_built", Main, n, n), n1, C)
  OBVIOUS
<1>11. /\ c \in EventRecord /\ c.at = n1 /\ c.type = "oracle.context_built"
       /\ c.branch = Main /\ c.parent = n /\ c.cause = n /\ c.cites = C
  <2>1. PICK type : type = "oracle.context_built"
    OBVIOUS
  <2>2. PICK cause : cause = n
    OBVIOUS
  <2>3. /\ type \in Types /\ n \in Nat /\ cause \in Nat /\ n1 \in Nat /\ C \in SUBSET Nat
        /\ c = Noted(Record(type, Main, n, cause), n1, C)
    BY <1>1, <1>6, <1>7, <1>9, <1>10, <2>1, <2>2
  <2>4. /\ c \in EventRecord /\ c.at = n1 /\ c.type = type
        /\ c.branch = Main /\ c.parent = n /\ c.cause = cause /\ c.cites = C
    BY <2>3, NotedIs, SMTT(30)
  <2> QED
    BY <2>1, <2>2, <2>4
<1>12. PICK m : m = Noted(Record("session.imported", Main, n1, 1), n2, D)
  OBVIOUS
<1>13. /\ m \in EventRecord /\ m.at = n2 /\ m.type = "session.imported"
       /\ m.branch = Main /\ m.parent = n1 /\ m.cause = 1 /\ m.cites = D
  <2>1. PICK type : type = "session.imported"
    OBVIOUS
  <2>2. PICK root : root = 1
    OBVIOUS
  <2>3. /\ type \in Types /\ root \in Nat /\ n1 \in Nat /\ n2 \in Nat /\ D \in SUBSET Nat
        /\ m = Noted(Record(type, Main, n1, root), n2, D)
    BY <1>6, <1>8, <1>9, <1>12, <2>1, <2>2
  <2>4. /\ m \in EventRecord /\ m.at = n2 /\ m.type = type
        /\ m.branch = Main /\ m.parent = n1 /\ m.cause = root /\ m.cites = D
    BY <2>3, NotedIs, SMTT(30)
  <2> QED
    BY <2>1, <2>2, <2>4
<1>14. PICK s1 : s1 = Continued(s, c)
  OBVIOUS
<1>15. Line(s1) /\ Len(s1.log) = n1 /\ s1.log \in Seq(EventRecord) /\ Event(s1) = 1 .. n1
  <2>1. FirstContext(s, c)
    BY <1>11, LastIsNew
  <2>2. /\ c.cause \in Event(s) /\ c.cites \subseteq Event(s)
    BY <1>2, <1>6, <1>11
  <2>3. /\ n1 = Len(s.log) + 1 /\ c.parent = n1 - 1 /\ c.type \in ToldTypes
        /\ c.type # "oracle.output"
    BY <1>3, <1>6, <1>11 DEF ToldTypes
  <2>4. Continues(s, n1, c)
    BY <1>11, <2>1, <2>2, <2>3 DEF Continues
  <2>5. Line(s1)
    BY <1>14, <2>4, LineGrows
  <2>6. Len(s1.log) = n1
    BY <1>1, <1>3, <1>11, <1>14 DEF Continued
  <2> QED
    BY <2>5, <2>6, SessionIs DEF Line
<1>16. PICK s2 : s2 = Continued(s1, m)
  OBVIOUS
<1>17. Line(s2)
  <2>1. FirstContext(s1, m)
    BY <1>13 DEF FirstContext
  <2>2. m.cause \in Event(s1) /\ m.cites \subseteq Event(s1)
    BY <1>1, <1>3, <1>8, <1>13, <1>15
  <2>3. /\ n2 = Len(s1.log) + 1 /\ m.parent = n2 - 1 /\ m.type \in ToldTypes
        /\ m.type # "oracle.output"
    BY <1>1, <1>3, <1>4, <1>6, <1>13, <1>15 DEF ToldTypes
  <2>4. Continues(s1, n2, m)
    BY <1>13, <2>1, <2>2, <2>3 DEF Continues
  <2> QED
    BY <1>15, <1>16, <2>4, LineGrows
<1>18. t = s2
  <2>1. t = [log |-> s.log \o <<c, m>>, branch |-> s.branch]
    BY <1>3, <1>4, <1>5, <1>10, <1>12 DEF Notes
  <2>2. s.log \o <<c, m>> = Append(Append(s.log, c), m)
    <3>1. s.log \in Seq(EventRecord) /\ c \in EventRecord /\ m \in EventRecord
      BY <1>1, <1>11, <1>13
    <3> QED
      BY <3>1, TwoAppended
  <2> QED
    BY <1>14, <1>16, <2>1, <2>2 DEF Continued
<1> QED
  BY <1>17, <1>18

\* Whatever the log told, it becomes a line.
LEMMA HistoryIsLine ==
  ASSUME NEW roles \in Seq({"user", "assistant"}),
         NEW s, s = [log |-> HistoricalLog(roles), branch |-> MainOnly]
  PROVE  Line(s)
<1>1. PICK n \in Nat : n = Len(roles)
  OBVIOUS
<1> DEFINE V == {l \in Seq(EventRecord) : Line([log |-> l, branch |-> MainOnly])}
           F == [x \in (1 .. n) \X V |-> Said(x[2], roles[x[1]])]
           said == CHOOSE f : f = [k \in 0 .. Len(roles) |->
                     IF k = 0 THEN <<Root>> ELSE Said(f[k - 1], roles[k])]
<1>2. <<Root>> \in V
  <2>1. PICK r : r = [log |-> <<Root>>, branch |-> MainOnly]
    OBVIOUS
  <2>2. Line(r) /\ r.log = <<Root>>
    BY <2>1, RootIsLine
  <2>3. r.log \in Seq(EventRecord)
    BY <2>2, SessionIs DEF Line
  <2> QED
    BY <2>1, <2>2, <2>3
<1>3. ASSUME NEW k \in 1 .. n, NEW l \in V
      PROVE  Said(l, roles[k]) \in V
  <2>1. PICK r : r = [log |-> l, branch |-> MainOnly]
    OBVIOUS
  <2>2. PICK t : t = [log |-> Said(r.log, roles[k]), branch |-> r.branch]
    OBVIOUS
  <2>3. roles[k] = "user" \/ roles[k] = "assistant"
    BY <1>1
  <2>4. Line(r)
    BY <2>1
  <2>5. Line(t)
    BY <2>2, <2>3, <2>4, HeardIsLine, AnsweredIsLine
  <2>6. t.log \in Seq(EventRecord)
    BY <2>5, SessionIs DEF Line
  <2>7. t = [log |-> Said(l, roles[k]), branch |-> MainOnly]
    BY <2>1, <2>2
  <2> QED
    BY <2>5, <2>6, <2>7
<1> HIDE DEF V
<1>4. F \in [(1 .. n) \X V -> V]
  BY <1>3
<1>5. PICK g \in [0 .. n -> V] : Follows(g, n, <<Root>>, F)
  BY <1>2, <1>4, Recursion
<1>6. g = [k \in 0 .. Len(roles) |-> IF k = 0 THEN <<Root>> ELSE Said(g[k - 1], roles[k])]
  <2>1. ASSUME NEW k \in 0 .. n
        PROVE  g[k] = IF k = 0 THEN <<Root>> ELSE Said(g[k - 1], roles[k])
    <3>1. CASE k = 0
      BY <1>5, <3>1 DEF Follows
    <3>2. CASE k # 0
      <4>1. k \in 1 .. n /\ k - 1 \in 0 .. n
        BY <3>2
      <4>2. g[k - 1] \in V /\ g[k] = F[<<k, g[k - 1]>>]
        BY <1>5, <4>1 DEF Follows
      <4>3. <<k, g[k - 1]>> \in (1 .. n) \X V
        BY <4>1, <4>2
      <4> QED
        BY <3>2, <4>2, <4>3
    <3> QED
      BY <3>1, <3>2
  <2>2. g = [k \in 0 .. n |-> g[k]]
    BY <1>5
  <2>3. \A k \in 0 .. n : g[k] = IF k = 0 THEN <<Root>> ELSE Said(g[k - 1], roles[k])
    BY <2>1
  <2> QED
    BY <1>1, <2>2, <2>3
<1>7. said = [k \in 0 .. Len(roles) |->
                IF k = 0 THEN <<Root>> ELSE Said(said[k - 1], roles[k])]
  BY <1>6, Zenon
<1>a. HistoricalLog(roles) =
        said[Len(roles)] \o Notes(Len(said[Len(roles)]), Messages(said[Len(roles)]))
  BY Zenon DEF HistoricalLog, Noted, Notes
<1> HIDE DEF said
<1>8. PICK log : log = said[Len(roles)]
  OBVIOUS
<1>9. PICK tip : tip = Len(log)
  OBVIOUS
<1>10. HistoricalLog(roles) = log \o Notes(tip, Messages(log))
  BY <1>a, <1>8, <1>9
<1> DEFINE P == {k \in 0 .. n : said[k] \in V}
<1>11. ASSUME NEW k \in 0 .. n, \A i \in 0 .. n : i < k => i \in P
       PROVE  k \in P
  <2>1. said[k] = IF k = 0 THEN <<Root>> ELSE Said(said[k - 1], roles[k])
    BY <1>1, <1>7
  <2>2. CASE k = 0
    BY <1>2, <2>1, <2>2
  <2>3. CASE k # 0
    <3>1. k - 1 \in P /\ k \in 1 .. n
      BY <1>11, <2>3
    <3>2. Said(said[k - 1], roles[k]) \in V
      BY <1>3, <3>1
    <3> QED
      BY <2>1, <2>3, <3>2
  <2> QED
    BY <2>2, <2>3
<1> HIDE DEF P
<1>12. 0 .. n \subseteq P
  BY <1>11, StrongInduction
<1>13. log \in V
  BY <1>1, <1>8, <1>12 DEF P
<1>14. PICK r : r = [log |-> log, branch |-> MainOnly]
  OBVIOUS
<1>15. Line(r) /\ r.log = log /\ r.branch = MainOnly
  BY <1>13, <1>14 DEF V
<1>16. PICK C : C = Messages(r.log)
  OBVIOUS
<1>17. s = [log |-> r.log \o Notes(tip, C), branch |-> r.branch]
  BY <1>10, <1>15, <1>16
<1>18. tip = Len(r.log)
  BY <1>9, <1>15
<1>19. Line(r)
  BY <1>15
<1> QED
  BY <1>16, <1>17, <1>18, <1>19, NotedIsLine

\* The invariant at the start.
LEMMA InitIsSound ==
  ASSUME BundleInit
  PROVE  BundleTypeOK /\ BundleStory
<1>1. PICK roles \in {<<>>, <<"user", "assistant">>} :
        /\ session = [log |-> IF roles = <<>> THEN <<Root>> ELSE HistoricalLog(roles),
                      branch |-> MainOnly]
        /\ steps = Len(roles) /\ steps <= MaxSteps
  BY DEF BundleInit, MainOnly
<1>2. Line(session)
  <2>1. CASE roles = <<>>
    BY <1>1, <2>1, RootIsLine
  <2>2. CASE roles = <<"user", "assistant">>
    <3>1. roles \in Seq({"user", "assistant"}) /\ roles # <<>>
      BY <2>2
    <3> QED
      BY <1>1, <3>1, HistoryIsLine
  <2> QED
    BY <1>1, <2>1, <2>2
<1>3. SessionSound(session) /\ OneContext(session)
  BY <1>2 DEF Line
<1>4. /\ retries = 0 /\ bundle = Nothing /\ db = <<>> /\ lock = NoImporter /\ disk = {}
      /\ torn = {} /\ importer = [i \in Importer |-> Idle] /\ errors = 0 /\ crashes = 0
  BY DEF BundleInit
<1>5. session \in [log : Seq(EventRecord), branch : [Branch -> BranchRow \cup {NoRow}]]
  BY <1>1, <1>3 DEF SessionSound
<1>6. steps \in 0 .. MaxSteps
  <2>1. Len(roles) \in Nat
    OBVIOUS
  <2> QED
    BY <1>1, <2>1, BundleAssumption
<1>7. BundleTypeOK
  <2>1. Idle \in ImporterState
    BY IdleIs
  <2> QED
    BY <1>4, <1>5, <1>6, <2>1, BundleAssumption DEF BundleTypeOK
<1>8. Untouched
  BY <1>4 DEF Untouched
<1> QED
  BY <1>3, <1>4, <1>7, <1>8 DEF BundleStory
-----------------------------------------------------------------------------
(* The invariant *)

\* Nor does a step of nobody disturb it.
LEMMA NothingKeeps ==
  ASSUME BundleTypeOK, BundleStory, UNCHANGED bundleVars
  PROVE  BundleTypeOK' /\ BundleStory'
<1>1. /\ session' = session /\ steps' = steps /\ retries' = retries /\ bundle' = bundle
      /\ db' = db /\ lock' = lock /\ disk' = disk /\ torn' = torn /\ importer' = importer
      /\ errors' = errors /\ crashes' = crashes
  BY DEF bundleVars, grownVars, labVars
<1>2. BundleTypeOK'
  BY <1>1 DEF BundleTypeOK
<1>3. \A i : MadeBy(i)' = MadeBy(i)
  BY <1>1 DEF MadeBy
<1>4. Copies' = Copies
  BY <1>1 DEF Copies
<1>5. \A e : FilesOf(e)' = FilesOf(e)
  BY <1>1 DEF FilesOf
<1>6. \A e : Stays(e)' <=> Stays(e)
  BY <1>1, <1>3, <1>5 DEF Stays, Whole
<1>7. Quarantined' = Quarantined
  BY <1>1 DEF Quarantined, Kept, Unfinished, LastSnapshot, Snapshots, OfType
<1>8. MadeApart => MadeApart'
  BY <1>1, <1>3 DEF MadeApart, At
<1>9. CopiesFollowed => CopiesFollowed'
  BY <1>1, <1>3, <1>4, <1>5, <1>6 DEF CopiesFollowed, At
<1>10. Committed => Committed'
  BY <1>1, <1>4, <1>6, <1>7 DEF Committed
<1>11. NothingLost => NothingLost'
  BY <1>1, <1>3 DEF NothingLost
<1>12. Untouched => Untouched'
  BY <1>1 DEF Untouched
<1>13. /\ SessionSound(session)' <=> SessionSound(session)
       /\ (retries = 0 => OneContext(session))' <=> (retries = 0 => OneContext(session))
       /\ Exported(session)' = Exported(session)
  BY <1>1
<1> QED
  BY <1>1, <1>2, <1>8, <1>9, <1>10, <1>11, <1>12, <1>13 DEF BundleStory

\* What holds of every session that is exported and of every laboratory that imports it,
\* by bundle_import.py and exporting.py: whatever the importers do at once, and wherever
\* they fail or die, nobody's files are taken by another.
THEOREM BundleInvariant == BundleSpec => [](BundleTypeOK /\ BundleStory)
<1>1. BundleInit => BundleTypeOK /\ BundleStory
  BY InitIsSound
<1>2. BundleTypeOK /\ BundleStory /\ [BundleNext]_bundleVars =>
        BundleTypeOK' /\ BundleStory'
  <2> SUFFICES ASSUME BundleTypeOK, BundleStory, [BundleNext]_bundleVars
               PROVE  BundleTypeOK' /\ BundleStory'
    OBVIOUS
  <2>1. CASE bundle = Nothing /\ steps < MaxSteps /\ Grow
    BY <2>1, GrowKeeps DEF Growing
  <2>2. CASE steps = MaxSteps /\ Export
    BY <2>2, ExportKeeps
  <2>3. CASE \E i \in Importer : Import(i)
    BY <2>3, ImportKeeps
  <2>4. CASE UNCHANGED bundleVars
    BY <2>4, NothingKeeps
  <2> QED
    BY <2>1, <2>2, <2>3, <2>4 DEF BundleNext
<1> QED
  BY <1>1, <1>2, PTL DEF BundleSpec

\* An import that fails takes back every file it made, so that it can be repeated; only
\* an importer that dies leaves a part of an archive (bundle_import.py, the undo of what
\* the importer created).
THEOREM FailuresAreUndone == BundleSpec => []FailureIsUndone
<1>1. BundleTypeOK /\ BundleStory => FailureIsUndone
  <2> SUFFICES ASSUME BundleTypeOK, BundleStory, crashes = 0, db = <<>>,
                      \A i \in Importer : importer[i].step \in {"idle", "plan"}
               PROVE  disk = {}
    BY DEF FailureIsUndone
  <2>1. CASE bundle = Nothing
    BY <2>1 DEF BundleStory, Untouched
  <2>2. CASE bundle # Nothing
    <3>1. MadeApart /\ NothingLost
      BY <2>2 DEF BundleStory
    <3>2. \A i \in Importer : MadeBy(i) = {}
      BY <3>1 DEF MadeApart, MadeBy
    <3> QED
      BY <3>1, <3>2 DEF NothingLost
  <2> QED
    BY <2>1, <2>2
<1> QED
  BY <1>1, BundleInvariant, PTL

\* A session is imported once, the jobs that were left where it comes from are taken out
\* of every queue here, and its archives stay (bundle_import.py, _pending_imported_worker_jobs
\* and the collision check in the transaction).
THEOREM ImportIsSound == BundleSpec => []ImportInv
<1>1. BundleTypeOK /\ BundleStory => ImportedOnce
  <2> SUFFICES ASSUME BundleTypeOK, BundleStory
               PROVE  ImportedOnce
    OBVIOUS
  <2>1. CASE bundle = Nothing
    BY <2>1 DEF BundleStory, Untouched, ImportedOnce
  <2>2. CASE bundle # Nothing
    <3>1. Committed /\ SessionSound(session)
      BY <2>2 DEF BundleStory
    <3>2. Len(db) <= 1 /\ \A n \in DOMAIN db : db[n].quarantined = Quarantined
      BY <3>1 DEF Committed
    <3>3. ASSUME NEW t, Snapshots(t) \cap bundle.events # {}
          PROVE  t \in Quarantined \/ \E e \in Snapshots(t) : session.log[e].status = "completed"
      <4>1. PICK e \in Snapshots(t) : e \in bundle.events
        BY <3>3
      <4>2. /\ LastSnapshot(t) \in Snapshots(t) /\ session.log[e].job = t
            /\ session.log[e].type = "job"
        BY <3>1, <4>1, SnapshotsAre
      <4>3. t \in {session.log[x].job : x \in Kept("job")}
        BY <4>1, <4>2 DEF Kept
      <4>4. session.log[LastSnapshot(t)].status \in {"pending", "leased", "completed"}
        <5>1. /\ session.log[LastSnapshot(t)].status # "none"
              /\ LastSnapshot(t) \in Event(session)
          BY <3>1, <4>1, <4>2, SnapshotsAre
        <5>2. session.log[LastSnapshot(t)] \in EventRecord
          BY <3>1, <5>1, SessionIs
        <5> QED
          BY <5>1, <5>2 DEF EventRecord
      <4> QED
        BY <4>2, <4>3, <4>4 DEF Quarantined, Unfinished
    <3> QED
      BY <3>2, <3>3 DEF ImportedOnce
  <2> QED
    BY <2>1, <2>2
<1>2. BundleTypeOK /\ BundleStory => ArchivesStay
  BY DEF BundleStory, Untouched, Committed, Stays, ArchivesStay
<1> QED
  BY <1>1, <1>2, BundleInvariant, PTL DEF ImportInv
-----------------------------------------------------------------------------
(* What is exported is accepted *)

\* An event is left out exactly when it is a fixture or cites what is left out.
LEMMA GenuineIs ==
  ASSUME NEW s, SessionSound(s), NEW e \in Event(s)
  PROVE  e \in GenuineEvents(s) <=> /\ s.log[e].origin # "synthetic"
                                    /\ References(s, e) \subseteq GenuineEvents(s)
<1>1. PICK n \in Nat : n = Len(s.log)
  BY SessionIs
<1>2. Event(s) = 1 .. n
  BY <1>1, SessionIs
<1>3. \A k \in 1 .. n : References(s, k) \subseteq 1 .. k - 1
  <2>1. ASSUME NEW k \in 1 .. n
        PROVE  References(s, k) \subseteq 1 .. k - 1
    <3>1. Fits(s, k, s.log[k])
      BY <1>2, SessionIs
    <3> QED
      BY <3>1 DEF Fits, References
  <2> QED
    BY <2>1
<1> DEFINE Taints(k, before) ==
             s.log[k].origin = "synthetic" \/ References(s, k) \cap before # {}
           V == SUBSET (1 .. n)
           F == [x \in (1 .. n) \X V |-> IF Taints(x[1], x[2]) THEN x[2] \cup {x[1]} ELSE x[2]]
           derived == CHOOSE f : f = [k \in 0 .. Len(s.log) |->
             IF k = 0 THEN {}
             ELSE IF s.log[k].origin = "synthetic" \/ References(s, k) \cap f[k - 1] # {}
                  THEN f[k - 1] \cup {k} ELSE f[k - 1]]
<1>4. F \in [(1 .. n) \X V -> V]
  OBVIOUS
<1>5. {} \in V
  OBVIOUS
<1>6. PICK g \in [0 .. n -> V] : Follows(g, n, {}, F)
  BY <1>4, <1>5, Recursion
<1>7. g = [k \in 0 .. Len(s.log) |->
             IF k = 0 THEN {}
             ELSE IF s.log[k].origin = "synthetic" \/ References(s, k) \cap g[k - 1] # {}
                  THEN g[k - 1] \cup {k} ELSE g[k - 1]]
  <2>1. ASSUME NEW k \in 0 .. n
        PROVE  g[k] = IF k = 0 THEN {}
                      ELSE IF s.log[k].origin = "synthetic" \/ References(s, k) \cap g[k - 1] # {}
                           THEN g[k - 1] \cup {k} ELSE g[k - 1]
    <3>1. CASE k = 0
      BY <1>6, <3>1 DEF Follows
    <3>2. CASE k # 0
      <4>1. k \in 1 .. n /\ k - 1 \in 0 .. n
        BY <3>2
      <4>2. g[k - 1] \in V /\ g[k] = F[<<k, g[k - 1]>>]
        BY <1>6, <4>1 DEF Follows
      <4>3. <<k, g[k - 1]>> \in (1 .. n) \X V
        BY <4>1, <4>2
      <4>4. g[k] = IF Taints(k, g[k - 1]) THEN g[k - 1] \cup {k} ELSE g[k - 1]
        BY <4>2, <4>3
      <4> QED
        BY <3>2, <4>4
    <3> QED
      BY <3>1, <3>2
  <2>2. g = [k \in 0 .. n |-> g[k]]
    BY <1>6
  <2>3. \A k \in 0 .. n :
          g[k] = IF k = 0 THEN {}
                 ELSE IF s.log[k].origin = "synthetic" \/ References(s, k) \cap g[k - 1] # {}
                      THEN g[k - 1] \cup {k} ELSE g[k - 1]
    BY <2>1
  <2> QED
    BY <1>1, <2>2, <2>3
<1>8. derived = [k \in 0 .. Len(s.log) |->
             IF k = 0 THEN {}
             ELSE IF s.log[k].origin = "synthetic" \/ References(s, k) \cap derived[k - 1] # {}
                  THEN derived[k - 1] \cup {k} ELSE derived[k - 1]]
  BY <1>7, Zenon
<1>9. GenuineEvents(s) = Event(s) \ derived[Len(s.log)]
  BY DEF GenuineEvents
<1> HIDE DEF derived
<1>10. /\ derived[0] = {}
       /\ \A k \in 1 .. n : derived[k] = IF Taints(k, derived[k - 1])
                                         THEN derived[k - 1] \cup {k} ELSE derived[k - 1]
  <2>1. \A k \in 1 .. n : k # 0 /\ k \in 0 .. Len(s.log)
    BY <1>1
  <2>2. 0 \in 0 .. Len(s.log)
    BY <1>1
  <2> QED
    BY <1>8, <2>1, <2>2
<1> HIDE DEF Taints
<1> DEFINE P == {k \in 0 .. n : /\ derived[k] \subseteq 1 .. k
                                /\ \A j \in 0 .. k : derived[k] \cap (1 .. j) = derived[j]}
<1>11. ASSUME NEW k \in 0 .. n, \A i \in 0 .. n : i < k => i \in P
       PROVE  k \in P
  <2>1. CASE k = 0
    BY <1>10, <2>1
  <2>2. CASE k # 0
    <3>1. PICK p : p = k - 1
      OBVIOUS
    <3>2. p \in P /\ k \in 1 .. n /\ p \in Nat /\ k = p + 1
      BY <1>11, <2>2, <3>1
    <3>3. PICK before : before = derived[p]
      OBVIOUS
    <3>4. before \subseteq 1 .. p /\ \A j \in 0 .. p : before \cap (1 .. j) = derived[j]
      BY <3>2, <3>3
    <3>5. derived[k] = before \/ derived[k] = before \cup {k}
      BY <1>10, <3>1, <3>2, <3>3
    <3>6. derived[k] \subseteq 1 .. k
      BY <3>2, <3>4, <3>5
    <3>7. ASSUME NEW j \in 0 .. k
          PROVE  derived[k] \cap (1 .. j) = derived[j]
      <4>1. CASE j = k
        BY <3>6, <4>1
      <4>2. CASE j # k
        <5>1. j \in 0 .. p /\ k \notin 1 .. j
          BY <3>2, <4>2
        <5> QED
          BY <3>4, <3>5, <5>1
      <4> QED
        BY <4>1, <4>2
    <3> QED
      BY <3>6, <3>7
  <2> QED
    BY <2>1, <2>2
<1> HIDE DEF P
<1>12. 0 .. n \subseteq P
  BY <1>11, StrongInduction
<1>13. PICK out : out = derived[n]
  OBVIOUS
<1>14. PICK p : p = e - 1
  OBVIOUS
<1>15. e \in 1 .. n /\ p \in 0 .. n /\ n \in 0 .. n /\ e \in Nat /\ e \in 0 .. n
  BY <1>2, <1>14
<1>16. /\ derived[p] = out \cap (1 .. p) /\ derived[e] = out \cap (1 .. e)
       /\ derived[p] \subseteq 1 .. p
  <2>1. n \in P /\ p \in P
    BY <1>12, <1>15
  <2> QED
    BY <1>13, <1>15, <2>1 DEF P
<1>17. e \in out <=> Taints(e, derived[p])
  <2>1. e \in out <=> e \in derived[e]
    BY <1>15, <1>16
  <2>2. e \notin derived[p]
    BY <1>14, <1>15, <1>16
  <2>3. derived[e] = IF Taints(e, derived[p]) THEN derived[p] \cup {e} ELSE derived[p]
    BY <1>10, <1>14, <1>15
  <2> QED
    BY <2>1, <2>2, <2>3
<1>18. References(s, e) \subseteq 1 .. p
  BY <1>3, <1>14, <1>15
<1>19. References(s, e) \cap derived[p] = {} <=> References(s, e) \subseteq Event(s) \ out
  <2>1. 1 .. p \subseteq Event(s)
    BY <1>2, <1>15
  <2> QED
    BY <1>16, <1>18, <2>1
<1>20. GenuineEvents(s) = Event(s) \ out
  BY <1>1, <1>9, <1>13
<1> QED
  BY <1>17, <1>19, <1>20 DEF Taints
\* What of a session is exported: it begins with its first event and leaves no parent out.
LEMMA GenuineAre ==
  ASSUME NEW s, SessionSound(s), NEW G, G = GenuineEvents(s), G # {}
  PROVE  /\ G \subseteq Event(s) /\ 1 \in G
         /\ \A e \in G : References(s, e) \subseteq G
         /\ \A e \in G : e # 1 => s.log[e].parent \in G /\ s.log[e].parent \in 1 .. e - 1
<1>1. /\ Event(s) = 1 .. Len(s.log) /\ Len(s.log) \in Nat
      /\ \A e \in Event(s) : e \in Nat /\ Fits(s, e, s.log[e])
  BY SessionIs
<1>2. G \subseteq Event(s)
  BY DEF GenuineEvents
<1>3. \A e \in G : References(s, e) \subseteq G
  BY <1>2, GenuineIs
<1>4. ASSUME NEW e \in G, e # 1
      PROVE  s.log[e].parent \in G /\ s.log[e].parent \in 1 .. e - 1
  <2>1. s.log[e].parent \in 1 .. e - 1
    BY <1>1, <1>2, <1>4 DEF Fits
  <2>2. s.log[e].parent \in References(s, e)
    BY <2>1 DEF References, NoEvent
  <2> QED
    BY <1>3, <2>1, <2>2
<1>5. 1 \in G
  <2>1. G \in SUBSET Nat
    BY <1>1, <1>2
  <2>2. PICK m \in G : \A x \in G : m <= x
    BY <2>1, LeastElement
  <2>3. m = 1
    BY <1>4, <2>1, <2>2
  <2> QED
    BY <2>2, <2>3
<1> QED
  BY <1>2, <1>3, <1>4, <1>5

\* What of it is on a branch begins with its fork.
LEMMA GenuineFork ==
  ASSUME NEW s, SessionSound(s), NEW G, G = GenuineEvents(s), NEW e \in G, NEW b, b # Main,
         s.log[e].branch = b
  PROVE  \E f \in G : s.log[f].type = "session.forked" /\ s.log[f].branch = b
<1>1. /\ Event(s) = 1 .. Len(s.log) /\ Len(s.log) \in Nat
      /\ \A x \in Event(s) : x \in Nat /\ Fits(s, x, s.log[x])
  BY SessionIs
<1>2. G \subseteq Event(s) /\ \A x \in G : x # 1 => s.log[x].parent \in G
  BY GenuineAre
<1> DEFINE T == {x \in G : s.log[x].branch = b}
<1>3. T \in SUBSET Nat /\ e \in T
  BY <1>1, <1>2
<1>4. PICK m \in T : \A x \in T : m <= x
  BY <1>3, LeastElement
<1>5. m \in Event(s) /\ m \in Nat /\ Fits(s, m, s.log[m]) /\ s.log[m].branch = b
  BY <1>1, <1>2, <1>4
<1>6. m # 1
  BY <1>5 DEF Fits
<1>7. s.log[m].type = "session.forked"
  <2>1. SUFFICES ASSUME s.log[m].type # "session.forked"
                 PROVE  FALSE
    OBVIOUS
  <2>2. PICK p : p = s.log[m].parent
    OBVIOUS
  <2>3. p \in 1 .. m - 1 /\ s.log[p].branch = b
    BY <1>5, <1>6, <2>1, <2>2 DEF Fits
  <2>4. p \in T
    BY <1>2, <1>4, <1>6, <2>2, <2>3
  <2> QED
    BY <1>4, <1>5, <2>3, <2>4
<1> QED
  BY <1>4, <1>7

\* What is exported is a whole session: one root, and one fork for each other branch.
LEMMA ExportedLineage ==
  ASSUME SessionSound(session), bundle = Exported(session), bundle.events # {}
  PROVE  LineageHolds
<1>1. PICK G : G = GenuineEvents(session)
  OBVIOUS
<1>2. bundle.events = G /\ G # {}
  BY <1>1 DEF Exported
<1>3. /\ G \subseteq Event(session) /\ 1 \in G
      /\ \A e \in G : e # 1 => session.log[e].parent \in G
  BY <1>1, <1>2, GenuineAre
<1>4. \A e \in G : Fits(session, e, session.log[e])
  BY <1>3, SessionIs
<1>5. Kept("session.created") = {1}
  <2>1. \A e \in G : session.log[e].type = "session.created" <=> e = 1
    BY <1>4 DEF Fits
  <2> QED
    BY <1>2, <1>3, <2>1 DEF Kept
<1>6. session.log[1].branch = Main
  BY <1>3, <1>4 DEF Fits
<1>7. ASSUME NEW b \in BranchesOf(bundle.events)
      PROVE  Cardinality({e \in Kept("session.forked") : session.log[e].branch = b})
               = IF b = session.log[1].branch THEN 0 ELSE 1
  <2>1. PICK forks : forks = {e \in Kept("session.forked") : session.log[e].branch = b}
    OBVIOUS
  <2>2. \A e \in forks : /\ e \in G /\ session.log[e].type = "session.forked"
                         /\ session.log[e].branch = b
    BY <1>2, <2>1 DEF Kept
  <2>3. CASE b = Main
    <3>1. \A e \in G : session.log[e].type = "session.forked" => session.log[e].branch # Main
      <4>1. ASSUME NEW e \in G, session.log[e].type = "session.forked"
            PROVE  session.log[e].branch # Main
        BY <1>4, <4>1 DEF Fits
      <4> QED
        BY <4>1
    <3>2. forks = {}
      BY <2>2, <2>3, <3>1
    <3> QED
      BY <1>6, <2>1, <2>3, <3>2, FS_EmptySet
  <2>4. CASE b # Main
    <3>1. PICK e \in G : session.log[e].branch = b
      BY <1>2 DEF BranchesOf
    <3>2. PICK f \in G : session.log[f].type = "session.forked" /\ session.log[f].branch = b
      BY <1>1, <2>4, <3>1, GenuineFork
    <3>3. f \in forks
      BY <1>2, <2>1, <3>2 DEF Kept
    <3>4. \A x \in forks : x = f
      BY <1>3, <2>2, <3>2 DEF SessionSound
    <3>5. forks = {f}
      BY <3>3, <3>4
    <3> QED
      BY <1>6, <2>1, <2>4, <3>5, FS_Singleton
  <2> QED
    BY <2>3, <2>4
<1>8. ASSUME NEW e \in bundle.events, session.log[e].parent \in bundle.events,
             session.log[session.log[e].parent].branch # session.log[e].branch
      PROVE  session.log[e].type = "session.forked"
  <2>1. Fits(session, e, session.log[e])
    BY <1>2, <1>4
  <2>2. e # 1
    <3>1. \A x \in G : x # 0
      BY <1>3, SessionIs
    <3>2. e = 1 => session.log[e].parent \in 1 .. 1 - 1 \cup {NoEvent}
      BY <2>1 DEF Fits
    <3> QED
      BY <1>2, <1>8, <3>1, <3>2 DEF NoEvent
  <2> QED
    BY <1>8, <2>1, <2>2 DEF Fits
<1> QED
  BY <1>2, <1>3, <1>5, <1>7, <1>8 DEF LineageHolds

\* Its contexts are of what is before them, one for each request, and each answer has one.
LEMMA ExportedContexts ==
  ASSUME SessionSound(session), OneContext(session), bundle = Exported(session)
  PROVE  ContextsHold
<1>1. PICK G : G = GenuineEvents(session)
  OBVIOUS
<1>2. bundle.events = G
  BY <1>1 DEF Exported
<1>3. /\ session.log \in Seq(EventRecord) /\ Rooted(session) /\ Descends(session)
      /\ \A e \in Event(session) : e \in Nat /\ Fits(session, e, session.log[e])
      /\ Event(session) = 1 .. Len(session.log) /\ Len(session.log) \in Nat
  BY SessionIs
<1>4. \A e \in G : /\ e \in Event(session)
                   /\ e # 1 => session.log[e].parent \in G /\ session.log[e].parent \in 1 .. e - 1
  BY <1>1, GenuineAre
<1>5. ASSUME NEW c \in Kept("oracle.context_built")
      PROVE  session.log[c].cites \subseteq ParentChain(session, c) \ {c}
  <2>1. /\ c \in G /\ c \in Event(session) /\ c \in Nat /\ c # 1
        /\ session.log[c].type = "oracle.context_built"
        /\ Fits(session, c, session.log[c])
    BY <1>2, <1>3, <1>4 DEF Kept, Fits
  <2>2. PICK p : p = session.log[c].parent
    OBVIOUS
  <2>3. PICK C : C = session.log[c].cites
    OBVIOUS
  <2>4. C \subseteq ParentChain(session, p) /\ p \in 1 .. c - 1 /\ p \in Event(session)
    BY <1>4, <2>1, <2>2, <2>3 DEF Fits
  <2>5. ParentChain(session, c) = {c} \cup ParentChain(session, p)
    BY <1>3, <2>1, <2>2, ChainIs
  <2>6. ParentChain(session, p) \subseteq 1 .. p
    BY <1>3, <2>4, ChainBelow
  <2>7. c \notin C
    BY <2>1, <2>4, <2>6
  <2> QED
    BY <2>3, <2>4, <2>5, <2>7
<1>6. ASSUME NEW c \in Kept("oracle.context_built"), NEW x \in Kept("oracle.context_built"),
             session.log[x].cause = session.log[c].cause,
             session.log[c].cause \in Kept("oracle.request")
      PROVE  x = c
  <2>1. /\ c \in Event(session) /\ x \in Event(session)
        /\ session.log[c].type = "oracle.context_built"
        /\ session.log[x].type = "oracle.context_built"
    BY <1>2, <1>4 DEF Kept
  <2>2. session.log[session.log[x].cause].type = "oracle.request"
    BY <1>6 DEF Kept
  <2> QED
    BY <1>6, <2>1, <2>2 DEF OneContext
<1>7. ASSUME NEW e \in Kept("oracle.output")
      PROVE  \E c \in Kept("oracle.context_built") : session.log[c].cause = session.log[e].cause
  <2>1. e \in G /\ session.log[e].type = "oracle.output" /\ Fits(session, e, session.log[e])
    BY <1>2, <1>3, <1>4 DEF Kept
  <2>2. PICK p : p = session.log[e].parent
    OBVIOUS
  <2>3. session.log[p].type = "oracle.context_built" /\ session.log[p].cause = session.log[e].cause
    BY <2>1, <2>2 DEF Fits
  <2>4. e # 1
    BY <2>1 DEF Fits
  <2>5. p \in G
    BY <1>4, <2>1, <2>2, <2>4
  <2> QED
    BY <1>2, <2>3, <2>5 DEF Kept
<1> QED
  BY <1>5, <1>6, <1>7 DEF ContextsHold

\* An event is exported with all it cites, which is before it.
LEMMA ExportedReferences ==
  ASSUME SessionSound(session), bundle = Exported(session)
  PROVE  ReferencesHold
<1>1. PICK G : G = GenuineEvents(session)
  OBVIOUS
<1>2. bundle.events = G
  BY <1>1 DEF Exported
<1>3. G \subseteq Event(session) /\ \A e \in G : References(session, e) \subseteq G
  BY <1>1, GenuineAre
<1>4. ASSUME NEW e \in G, NEW x \in References(session, e)
      PROVE  x < e
  <2>1. e \in Nat /\ Fits(session, e, session.log[e])
    BY <1>3, SessionIs
  <2>2. x \in 1 .. e - 1
    BY <2>1 DEF Fits, References
  <2> QED
    BY <2>1, <2>2
<1> QED
  BY <1>2, <1>3, <1>4 DEF ReferencesHold

\* "export bundle is the private canonical, importable format" (README.md:381): where
\* requests were run once and something genuine is on the current branch, exporting.py
\* leaves out nothing that bundle_import.py would miss.
THEOREM ExportsAreImportable == BundleSpec => []ExportIsImportable
<1>1. BundleTypeOK /\ BundleStory => ExportIsImportable
  <2> SUFFICES ASSUME BundleTypeOK, BundleStory, bundle # Nothing, retries = 0,
                      bundle.current \in BranchesOf(bundle.events)
               PROVE  Acceptable(TRUE)
    BY DEF ExportIsImportable
  <2>1. SessionSound(session) /\ OneContext(session) /\ bundle = Exported(session)
    BY DEF BundleStory
  <2>2. bundle.events # {}
    BY DEF BranchesOf
  <2> QED
    BY <2>1, <2>2, ExportedLineage, ExportedContexts, ExportedReferences DEF Acceptable
<1> QED
  BY <1>1, BundleInvariant, PTL

===============================================================================
