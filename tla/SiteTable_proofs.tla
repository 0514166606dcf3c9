--------------------------- MODULE SiteTable_proofs ---------------------------
(* Proofs about the merge of raw sites, for every set of URLs, usernames and *)
(* texts and every bound on the number of sites; then about the built table: *)
(* the order of the keys, the two indexes and what find_site answers.        *)
EXTENDS SiteTable, Recursion, FiniteSetTheorems, TLAPS

(* A raw site whose URL normalizes has a key of the map. *)
LEMMA KeyOfIsKey ==
    ASSUME NEW r \in RawSites, NormalOf[r.url] # InvalidUrl
    PROVE  KeyOf(r) \in Keys
BY SiteAssumption, UrlAssumption DEF KeyOf, Keys, RawSiteType, NormalUrls, Users

(* What is inserted for a vacant key, and what an occupied one becomes, are  *)
(* entries again.                                                            *)
LEMMA NewEntryType ==
    ASSUME NEW r \in RawSites
    PROVE  NewEntry(r) \in EntryType
BY SiteAssumption DEF NewEntry, EntryType, RawSiteType

LEMMA MergedEntryType ==
    ASSUME NEW r \in RawSites, NEW e \in EntryType
    PROVE  MergedEntry(e, r) \in EntryType
<1>1. r \in RawSiteType
  BY SiteAssumption
<1>2. Greater(e.increment, r.increment) \in Nat
  BY <1>1 DEF Greater, EntryType, RawSiteType
<1>3. /\ Override(e.schema, r.schema) \in Maybe(Texts)
      /\ Override(e.comment, r.comment) \in Maybe(Texts)
      /\ Override(e.data, r.data) \in Maybe(Texts)
  BY <1>1 DEF Override, EntryType, RawSiteType
<1> QED
  BY <1>1, <1>2, <1>3 DEF MergedEntry, EntryType, RawSiteType

(* Each step of the merge keeps the types. *)
LEMMA MergeTypeStep ==
    MergeTypeOK /\ [Next]_vars => MergeTypeOK'
<1> SUFFICES ASSUME MergeTypeOK, [Next]_vars
             PROVE  MergeTypeOK'
  OBVIOUS
<1> USE DEF MergeTypeOK, Stages
<1>1. ASSUME NEW r \in RawSites, Consume(r)
      PROVE  seen' \in Seq(RawSites) /\ Len(seen') <= MaxSites /\ global' \in Globals
  BY <1>1, BoundAssumption DEF Consume
<1>2. ASSUME NEW r \in RawSites, RejectUrl(r)
      PROVE  MergeTypeOK'
  BY <1>1, <1>2 DEF RejectUrl
<1>3. ASSUME NEW r \in RawSites, InsertSite(r)
      PROVE  MergeTypeOK'
  BY <1>1, <1>3, NewEntryType DEF InsertSite
<1>4. ASSUME NEW r \in RawSites, MergeSite(r)
      PROVE  MergeTypeOK'
  <2>1. map[KeyOf(r)] \in EntryType
    BY <1>4, KeyOfIsKey DEF MergeSite
  <2> QED
    BY <1>1, <1>4, <2>1, MergedEntryType DEF MergeSite
<1>5. ASSUME NEW r \in RawSites, DataConflict(r)
      PROVE  MergeTypeOK'
  BY <1>1, <1>5 DEF DataConflict
<1>6. CASE Build
  BY <1>6 DEF Build
<1>7. CASE UNCHANGED vars
  BY <1>7 DEF vars
<1> QED
  BY <1>2, <1>3, <1>4, <1>5, <1>6, <1>7 DEF Next

(* The types of the variables the merge loop changes. *)
THEOREM MergeTypeCorrect == Spec => []MergeTypeOK
<1>1. Init => MergeTypeOK
  BY BoundAssumption DEF Init, MergeTypeOK, Stages
<1> QED
  BY <1>1, MergeTypeStep, PTL DEF Spec

-----------------------------------------------------------------------------
(* The increments and schemas of MergeInv.  This part is inductive relative  *)
(* to the types: one key's part of it is EntryInv, and a step touches the    *)
(* part of one key only.                                                     *)

KeptInv ==
    stage \in {"merging", "built"} =>
        /\ \A i \in DOMAIN seen : NormalOf[seen[i].url] # InvalidUrl
        /\ \A k \in Keys :
             /\ map[k] = None => \A i \in DOMAIN seen : KeyOf(seen[i]) # k
             /\ map[k] # None =>
                  /\ \A i \in DOMAIN seen :
                        KeyOf(seen[i]) = k => seen[i].increment <= map[k].increment
                  /\ \E i \in DOMAIN seen :
                        KeyOf(seen[i]) = k /\ seen[i].increment = map[k].increment
                  /\ \/ /\ map[k].schema = None
                        /\ \A i \in DOMAIN seen : KeyOf(seen[i]) = k => seen[i].schema = None
                     \/ \E i \in DOMAIN seen :
                          /\ KeyOf(seen[i]) = k
                          /\ seen[i].schema # None
                          /\ map[k].schema = seen[i].schema
                          /\ \A j \in DOMAIN seen :
                               j > i /\ KeyOf(seen[j]) = k => seen[j].schema = None

EntryInv(m, s, k) ==
    /\ m[k] = None => \A i \in DOMAIN s : KeyOf(s[i]) # k
    /\ m[k] # None =>
         /\ \A i \in DOMAIN s : KeyOf(s[i]) = k => s[i].increment <= m[k].increment
         /\ \E i \in DOMAIN s : KeyOf(s[i]) = k /\ s[i].increment = m[k].increment
         /\ \/ /\ m[k].schema = None
               /\ \A i \in DOMAIN s : KeyOf(s[i]) = k => s[i].schema = None
            \/ \E i \in DOMAIN s :
                 /\ KeyOf(s[i]) = k
                 /\ s[i].schema # None
                 /\ m[k].schema = s[i].schema
                 /\ \A j \in DOMAIN s : j > i /\ KeyOf(s[j]) = k => s[j].schema = None

LEMMA KeptInvByKey ==
    KeptInv <=>
        (stage \in {"merging", "built"} =>
            /\ \A i \in DOMAIN seen : NormalOf[seen[i].url] # InvalidUrl
            /\ \A k \in Keys : EntryInv(map, seen, k))
BY DEF KeptInv, EntryInv

(* A raw site of another key leaves the part of a key as it was. *)
LEMMA OtherKey ==
    ASSUME NEW s \in Seq(RawSites), NEW r \in RawSites,
           NEW m, NEW n, NEW k,
           KeyOf(r) # k, n[k] = m[k], EntryInv(m, s, k)
    PROVE  EntryInv(n, Append(s, r), k)
<1> DEFINE t == Append(s, r)
<1>1. /\ DOMAIN t = 1 .. Len(s) + 1
      /\ DOMAIN s = 1 .. Len(s)
      /\ Len(s) \in Nat
      /\ \A i \in DOMAIN s : i \in DOMAIN t /\ t[i] = s[i]
      /\ t[Len(s) + 1] = r
  OBVIOUS
<1>2. \A i \in DOMAIN t : KeyOf(t[i]) = k => i \in DOMAIN s /\ t[i] = s[i]
  BY <1>1
<1> HIDE DEF t
<1> QED
  BY <1>1, <1>2 DEF EntryInv, t

(* The first raw site of a key makes its entry. *)
LEMMA FirstOfKey ==
    ASSUME NEW s \in Seq(RawSites), NEW r \in RawSites,
           NEW m, NEW n,
           m[KeyOf(r)] = None, n[KeyOf(r)] = NewEntry(r), NewEntry(r) # None,
           EntryInv(m, s, KeyOf(r))
    PROVE  EntryInv(n, Append(s, r), KeyOf(r))
<1> DEFINE t == Append(s, r)
           k == KeyOf(r)
<1>1. /\ DOMAIN t = 1 .. Len(s) + 1
      /\ DOMAIN s = 1 .. Len(s)
      /\ Len(s) \in Nat
      /\ \A i \in DOMAIN s : t[i] = s[i]
      /\ t[Len(s) + 1] = r
  OBVIOUS
<1>2. \A i \in DOMAIN t : KeyOf(t[i]) = k => i = Len(s) + 1
  BY <1>1 DEF EntryInv
<1>3. r.increment <= r.increment
  BY SiteAssumption DEF RawSiteType
<1>4. n[k].increment = r.increment /\ n[k].schema = r.schema
  BY DEF NewEntry
<1> HIDE DEF t, k
<1> QED
  BY <1>1, <1>2, <1>3, <1>4 DEF EntryInv, t, k

(* A later raw site of a key is merged into its entry. *)
LEMMA NextOfKey ==
    ASSUME NEW s \in Seq(RawSites), NEW r \in RawSites,
           NEW m, NEW n,
           m[KeyOf(r)] \in EntryType,
           m[KeyOf(r)] # None,
           n[KeyOf(r)] = MergedEntry(m[KeyOf(r)], r),
           n[KeyOf(r)] # None,
           EntryInv(m, s, KeyOf(r))
    PROVE  EntryInv(n, Append(s, r), KeyOf(r))
<1> DEFINE t == Append(s, r)
           k == KeyOf(r)
           last == Len(s) + 1
           e == m[k]
<1>1. /\ DOMAIN t = 1 .. last
      /\ DOMAIN s = 1 .. Len(s)
      /\ Len(s) \in Nat
      /\ \A i \in DOMAIN s : i \in DOMAIN t /\ t[i] = s[i] /\ i < last
      /\ t[last] = r
      /\ last \in DOMAIN t
  OBVIOUS
<1>2. \A i \in DOMAIN t : i \in DOMAIN s \/ i = last
  BY <1>1
<1>3. /\ n[k].increment = Greater(e.increment, r.increment)
      /\ n[k].schema = Override(e.schema, r.schema)
  BY DEF MergedEntry
<1>4. /\ e.increment \in Nat
      /\ r.increment \in Nat
      /\ \A i \in DOMAIN s : s[i].increment \in Nat
  BY SiteAssumption DEF EntryType, RawSiteType
<1>5. /\ \A i \in DOMAIN s : KeyOf(s[i]) = k => s[i].increment <= e.increment
      /\ \E i \in DOMAIN s : KeyOf(s[i]) = k /\ s[i].increment = e.increment
  BY DEF EntryInv
<1>6. \/ /\ e.schema = None
         /\ \A i \in DOMAIN s : KeyOf(s[i]) = k => s[i].schema = None
      \/ \E i \in DOMAIN s :
           /\ KeyOf(s[i]) = k
           /\ s[i].schema # None
           /\ e.schema = s[i].schema
           /\ \A j \in DOMAIN s : j > i /\ KeyOf(s[j]) = k => s[j].schema = None
  BY DEF EntryInv
<1>7. k = KeyOf(r)
  OBVIOUS
<1> HIDE DEF t, k, last, e
<1>8. \A i \in DOMAIN t : KeyOf(t[i]) = k => t[i].increment <= n[k].increment
  BY <1>1, <1>2, <1>3, <1>4, <1>5 DEF Greater
<1>9. \E i \in DOMAIN t : KeyOf(t[i]) = k /\ t[i].increment = n[k].increment
  <2>1. CASE e.increment >= r.increment
    BY <2>1, <1>1, <1>3, <1>5 DEF Greater
  <2>2. CASE ~ (e.increment >= r.increment)
    BY <2>2, <1>1, <1>3, <1>7 DEF Greater
  <2> QED
    BY <2>1, <2>2
<1>10. \/ /\ n[k].schema = None
          /\ \A i \in DOMAIN t : KeyOf(t[i]) = k => t[i].schema = None
       \/ \E i \in DOMAIN t :
            /\ KeyOf(t[i]) = k
            /\ t[i].schema # None
            /\ n[k].schema = t[i].schema
            /\ \A j \in DOMAIN t : j > i /\ KeyOf(t[j]) = k => t[j].schema = None
  <2>1. CASE r.schema # None
    <3>1. n[k].schema = r.schema
      BY <2>1, <1>3 DEF Override
    <3>2. \A j \in DOMAIN t : ~ (j > last)
      BY <1>1, <1>2
    <3> QED
      BY <2>1, <3>1, <3>2, <1>1, <1>7
  <2>2. CASE r.schema = None
    <3>1. n[k].schema = e.schema
      BY <2>2, <1>3 DEF Override
    <3> QED
      BY <2>2, <3>1, <1>1, <1>2, <1>6
  <2> QED
    BY <2>1, <2>2
<1> QED
  BY <1>8, <1>9, <1>10 DEF EntryInv, t, k

(* Each step keeps what an entry says of the raw sites seen. *)
LEMMA MergeStep ==
    MergeTypeOK /\ KeptInv /\ [Next]_vars => KeptInv'
<1> SUFFICES ASSUME MergeTypeOK, KeptInv, [Next]_vars
             PROVE  KeptInv'
  OBVIOUS
<1>1. ASSUME NEW r \in RawSites, RejectUrl(r)
      PROVE  KeptInv'
  BY <1>1 DEF RejectUrl, KeptInv
<1>2. ASSUME NEW r \in RawSites, InsertSite(r)
      PROVE  KeptInv'
  <2>1. KeyOf(r) \in Keys /\ NewEntry(r) # None
    BY <1>2, KeyOfIsKey, NewEntryType, TextAssumption DEF InsertSite
  <2>2. /\ seen \in Seq(RawSites)
        /\ seen' = Append(seen, r)
        /\ stage = "merging" /\ stage' = "merging"
        /\ NormalOf[r.url] # InvalidUrl
        /\ map[KeyOf(r)] = None
        /\ map' = [map EXCEPT ![KeyOf(r)] = NewEntry(r)]
        /\ map \in [Keys -> EntryType \cup {None}]
    BY <1>2 DEF InsertSite, Consume, MergeTypeOK
  <2>3. \A i \in DOMAIN seen' : NormalOf[seen'[i].url] # InvalidUrl
    BY <2>2 DEF KeptInv
  <2>4. \A k \in Keys : EntryInv(map, seen, k)
    BY <2>2, KeptInvByKey
  <2>5. EntryInv(map', seen', KeyOf(r))
    BY <2>1, <2>2, <2>4, FirstOfKey
  <2>6. ASSUME NEW k \in Keys, k # KeyOf(r)
        PROVE  EntryInv(map', seen', k)
    BY <2>1, <2>2, <2>4, <2>6, OtherKey
  <2> QED
    BY <2>3, <2>5, <2>6 DEF KeptInv, EntryInv
<1>3. ASSUME NEW r \in RawSites, MergeSite(r)
      PROVE  KeptInv'
  <2>1. KeyOf(r) \in Keys
    BY <1>3, KeyOfIsKey DEF MergeSite
  <2>2. /\ seen \in Seq(RawSites)
        /\ seen' = Append(seen, r)
        /\ stage = "merging" /\ stage' = "merging"
        /\ NormalOf[r.url] # InvalidUrl
        /\ map[KeyOf(r)] # None
        /\ map' = [map EXCEPT ![KeyOf(r)] = MergedEntry(map[KeyOf(r)], r)]
        /\ map \in [Keys -> EntryType \cup {None}]
    BY <1>3 DEF MergeSite, Consume, MergeTypeOK
  <2>3. map[KeyOf(r)] \in EntryType
    BY <2>1, <2>2
  <2>4. map'[KeyOf(r)] = MergedEntry(map[KeyOf(r)], r) /\ map'[KeyOf(r)] # None
    BY <2>1, <2>2, <2>3, MergedEntryType, TextAssumption
  <2>5. \A i \in DOMAIN seen' : NormalOf[seen'[i].url] # InvalidUrl
    BY <2>2 DEF KeptInv
  <2>6. \A k \in Keys : EntryInv(map, seen, k)
    BY <2>2, KeptInvByKey
  <2>7. EntryInv(map', seen', KeyOf(r))
    BY <2>1, <2>2, <2>3, <2>4, <2>6, NextOfKey
  <2>8. ASSUME NEW k \in Keys, k # KeyOf(r)
        PROVE  EntryInv(map', seen', k)
    BY <2>1, <2>2, <2>6, <2>8, OtherKey
  <2> QED
    BY <2>5, <2>7, <2>8 DEF KeptInv, EntryInv
<1>4. ASSUME NEW r \in RawSites, DataConflict(r)
      PROVE  KeptInv'
  BY <1>4 DEF DataConflict, KeptInv
<1>5. CASE Build
  BY <1>5 DEF Build, KeptInv, KeyOf
<1>6. CASE UNCHANGED vars
  BY <1>6 DEF vars, KeptInv, KeyOf
<1> QED
  BY <1>1, <1>2, <1>3, <1>4, <1>5, <1>6 DEF Next

LEMMA KeptCorrect == Spec => []KeptInv
<1>1. Init => KeptInv
  BY DEF Init, KeptInv
<1> QED
  BY <1>1, MergeStep, MergeTypeCorrect, PTL DEF Spec

(* The merge never drops an entry and never lowers an increment: a rotated   *)
(* password is not brought back by a file that is included later.            *)
THEOREM IncrementsOnlyRiseCorrect == Spec => IncrementsOnlyRise
<1>1. MergeTypeOK /\ [Next]_vars => [IncrementsRise]_vars
  <2> SUFFICES ASSUME MergeTypeOK, Next
               PROVE  IncrementsRise
    OBVIOUS
  <2> SUFFICES ASSUME NEW k \in Keys, map[k] # None
               PROVE  map'[k] # None /\ map'[k].increment >= map[k].increment
    BY DEF IncrementsRise
  <2>1. map[k] \in EntryType /\ map[k].increment \in Nat
    BY DEF MergeTypeOK, EntryType
  <2>2. CASE map'[k] = map[k]
    BY <2>1, <2>2
  <2>3. ASSUME NEW r \in RawSites, InsertSite(r)
        PROVE  map'[k] = map[k]
    BY <2>3, KeyOfIsKey DEF InsertSite, MergeTypeOK
  <2>4. ASSUME NEW r \in RawSites, MergeSite(r), KeyOf(r) = k
        PROVE  map'[k] # None /\ map'[k].increment >= map[k].increment
    <3>1. map'[k] = MergedEntry(map[k], r)
      BY <2>4 DEF MergeSite, MergeTypeOK
    <3>2. MergedEntry(map[k], r) \in EntryType /\ r.increment \in Nat
      BY <2>1, MergedEntryType, SiteAssumption DEF RawSiteType
    <3> QED
      BY <2>1, <3>1, <3>2, TextAssumption DEF MergedEntry, Greater
  <2>5. ASSUME NEW r \in RawSites, MergeSite(r), KeyOf(r) # k
        PROVE  map'[k] = map[k]
    BY <2>5, KeyOfIsKey DEF MergeSite, MergeTypeOK
  <2>6. ASSUME NEW r \in RawSites, RejectUrl(r) \/ DataConflict(r)
        PROVE  map'[k] = map[k]
    BY <2>6 DEF RejectUrl, DataConflict
  <2>7. CASE Build
    BY <2>2, <2>7 DEF Build
  <2>8. CASE \E r \in RawSites :
               RejectUrl(r) \/ InsertSite(r) \/ MergeSite(r) \/ DataConflict(r)
    BY <2>2, <2>3, <2>4, <2>5, <2>6, <2>8
  <2> QED
    BY <2>7, <2>8 DEF Next
<1> QED
  BY <1>1, MergeTypeCorrect, PTL DEF Spec, IncrementsOnlyRise

-----------------------------------------------------------------------------
(* The data fields.  One key's part of the invariant: every raw site of the  *)
(* key agrees with the entry, whose data some raw site of the key gave.      *)

DataOfKey(m, s, k) ==
    /\ \A i \in DOMAIN s : KeyOf(s[i]) = k => s[i].data \in {None, m[k].data}
    /\ m[k].data # None => \E i \in DOMAIN s : KeyOf(s[i]) = k /\ s[i].data = m[k].data

Disagree(s, i, j) ==
    /\ KeyOf(s[i]) = KeyOf(s[j])
    /\ NormalOf[s[i].url] # InvalidUrl
    /\ NormalOf[s[j].url] # InvalidUrl
    /\ s[i].data # None
    /\ s[j].data # None
    /\ s[i].data # s[j].data

DataInv ==
    /\ stage \in {"merging", "built"} =>
         \A k \in Keys : map[k] # None => DataOfKey(map, seen, k)
    /\ stage = "data conflict" => \E i, j \in DOMAIN seen : Disagree(seen, i, j)

(* A raw site of another key leaves the data of a key as they were. *)
LEMMA DataOfOtherKey ==
    ASSUME NEW s \in Seq(RawSites), NEW r \in RawSites, NEW m, NEW n, NEW k,
           KeyOf(r) # k, n[k] = m[k], DataOfKey(m, s, k)
    PROVE  DataOfKey(n, Append(s, r), k)
<1> DEFINE t == Append(s, r)
<1>1. /\ \A i \in DOMAIN s : i \in DOMAIN t /\ t[i] = s[i]
      /\ \A i \in DOMAIN t : i \in DOMAIN s \/ t[i] = r
  OBVIOUS
<1> HIDE DEF t
<1> QED
  BY <1>1 DEF DataOfKey, t

(* The first raw site of a key gives the entry its data. *)
LEMMA DataOfFirst ==
    ASSUME NEW s \in Seq(RawSites), NEW r \in RawSites, NEW n,
           \A i \in DOMAIN s : KeyOf(s[i]) # KeyOf(r),
           n[KeyOf(r)] = NewEntry(r)
    PROVE  DataOfKey(n, Append(s, r), KeyOf(r))
<1> DEFINE t == Append(s, r)
           k == KeyOf(r)
           last == Len(s) + 1
<1>1. /\ last \in DOMAIN t /\ t[last] = r
      /\ \A i \in DOMAIN t : KeyOf(t[i]) = k => t[i] = r
  OBVIOUS
<1>2. n[k].data = r.data /\ k = KeyOf(r)
  BY DEF NewEntry
<1> HIDE DEF t, k, last
<1> QED
  BY <1>1, <1>2 DEF DataOfKey, t, k

(* A later one agrees with the entry it is merged into. *)
LEMMA DataOfNext ==
    ASSUME NEW s \in Seq(RawSites), NEW r \in RawSites, NEW m, NEW n,
           DataAgrees(m[KeyOf(r)], r),
           n[KeyOf(r)] = MergedEntry(m[KeyOf(r)], r),
           DataOfKey(m, s, KeyOf(r))
    PROVE  DataOfKey(n, Append(s, r), KeyOf(r))
<1> DEFINE t == Append(s, r)
           k == KeyOf(r)
           last == Len(s) + 1
<1>1. /\ last \in DOMAIN t /\ t[last] = r
      /\ \A i \in DOMAIN s : i \in DOMAIN t /\ t[i] = s[i]
      /\ \A i \in DOMAIN t : i \in DOMAIN s \/ t[i] = r
  OBVIOUS
<1>2. /\ n[k].data = Override(m[k].data, r.data)
      /\ k = KeyOf(r)
      /\ r.data = None \/ m[k].data = None \/ m[k].data = r.data
  BY DEF MergedEntry, DataAgrees
<1>3. /\ \A i \in DOMAIN s : KeyOf(s[i]) = k => s[i].data \in {None, m[k].data}
      /\ m[k].data # None => \E i \in DOMAIN s : KeyOf(s[i]) = k /\ s[i].data = m[k].data
  BY DEF DataOfKey
<1> HIDE DEF t, k, last
<1>4. CASE r.data = None
  <2>1. n[k].data = m[k].data
    BY <1>2, <1>4 DEF Override
  <2> QED
    BY <1>1, <1>3, <1>4, <2>1 DEF DataOfKey, t, k
<1>5. CASE r.data # None
  <2>1. n[k].data = r.data
    BY <1>2, <1>5 DEF Override
  <2> QED
    BY <1>1, <1>2, <1>3, <1>5, <2>1 DEF DataOfKey, t, k
<1> QED
  BY <1>4, <1>5

(* The panic names two raw sites that really disagree: the new one, and the  *)
(* one that gave the entry its data.                                         *)
LEMMA ConflictIsReal ==
    ASSUME NEW s \in Seq(RawSites), NEW r \in RawSites, NEW m,
           \A i \in DOMAIN s : NormalOf[s[i].url] # InvalidUrl,
           NormalOf[r.url] # InvalidUrl,
           ~ DataAgrees(m[KeyOf(r)], r),
           DataOfKey(m, s, KeyOf(r))
    PROVE  \E i, j \in DOMAIN Append(s, r) : Disagree(Append(s, r), i, j)
<1> DEFINE t == Append(s, r)
           last == Len(s) + 1
<1>1. /\ last \in DOMAIN t /\ t[last] = r
      /\ \A i \in DOMAIN s : i \in DOMAIN t /\ t[i] = s[i]
  OBVIOUS
<1>2. r.data # None /\ m[KeyOf(r)].data # None /\ m[KeyOf(r)].data # r.data
  BY DEF DataAgrees
<1>3. PICK i \in DOMAIN s : KeyOf(s[i]) = KeyOf(r) /\ s[i].data = m[KeyOf(r)].data
  BY <1>2 DEF DataOfKey
<1> HIDE DEF t, last
<1>4. Disagree(t, i, last)
  BY <1>1, <1>2, <1>3 DEF Disagree
<1> QED
  BY <1>1, <1>3, <1>4 DEF t

(* Each step keeps the data of an entry that of its raw sites. *)
LEMMA DataStep ==
    MergeTypeOK /\ KeptInv /\ DataInv /\ [Next]_vars => DataInv'
<1> SUFFICES ASSUME MergeTypeOK, KeptInv, DataInv, [Next]_vars
             PROVE  DataInv'
  OBVIOUS
<1>1. seen \in Seq(RawSites) /\ map \in [Keys -> EntryType \cup {None}]
  BY DEF MergeTypeOK
<1>2. stage = "merging" =>
          /\ \A k \in Keys : map[k] # None => DataOfKey(map, seen, k)
          /\ \A k \in Keys : map[k] = None => \A i \in DOMAIN seen : KeyOf(seen[i]) # k
          /\ \A i \in DOMAIN seen : NormalOf[seen[i].url] # InvalidUrl
  BY DEF DataInv, KeptInv
<1>3. ASSUME NEW r \in RawSites, RejectUrl(r)
      PROVE  DataInv'
  BY <1>3 DEF RejectUrl, DataInv
<1>4. ASSUME NEW r \in RawSites, InsertSite(r)
      PROVE  DataInv'
  <2>1. /\ KeyOf(r) \in Keys
        /\ seen' = Append(seen, r)
        /\ stage = "merging" /\ stage' = "merging"
        /\ map[KeyOf(r)] = None
        /\ map' = [map EXCEPT ![KeyOf(r)] = NewEntry(r)]
    BY <1>4, KeyOfIsKey DEF InsertSite, Consume
  <2>2. DataOfKey(map', seen', KeyOf(r))
    BY <1>1, <1>2, <2>1, DataOfFirst
  <2>3. ASSUME NEW k \in Keys, k # KeyOf(r), map'[k] # None
        PROVE  DataOfKey(map', seen', k)
    BY <1>1, <1>2, <2>1, <2>3, DataOfOtherKey
  <2> QED
    BY <2>1, <2>2, <2>3 DEF DataInv
<1>5. ASSUME NEW r \in RawSites, MergeSite(r)
      PROVE  DataInv'
  <2>1. /\ KeyOf(r) \in Keys
        /\ seen' = Append(seen, r)
        /\ stage = "merging" /\ stage' = "merging"
        /\ map[KeyOf(r)] # None
        /\ DataAgrees(map[KeyOf(r)], r)
        /\ map' = [map EXCEPT ![KeyOf(r)] = MergedEntry(map[KeyOf(r)], r)]
    BY <1>5, KeyOfIsKey DEF MergeSite, Consume
  <2>2. DataOfKey(map', seen', KeyOf(r))
    BY <1>1, <1>2, <2>1, DataOfNext
  <2>3. ASSUME NEW k \in Keys, k # KeyOf(r), map'[k] # None
        PROVE  DataOfKey(map', seen', k)
    BY <1>1, <1>2, <2>1, <2>3, DataOfOtherKey
  <2> QED
    BY <2>1, <2>2, <2>3 DEF DataInv
<1>6. ASSUME NEW r \in RawSites, DataConflict(r)
      PROVE  DataInv'
  <2>1. /\ KeyOf(r) \in Keys
        /\ seen' = Append(seen, r)
        /\ stage = "merging" /\ stage' = "data conflict"
        /\ NormalOf[r.url] # InvalidUrl
        /\ map[KeyOf(r)] # None
        /\ ~ DataAgrees(map[KeyOf(r)], r)
    BY <1>6, KeyOfIsKey DEF DataConflict, Consume
  <2>2. \E i, j \in DOMAIN seen' : Disagree(seen', i, j)
    BY <1>1, <1>2, <2>1, ConflictIsReal
  <2> QED
    BY <2>1, <2>2 DEF DataInv
<1>7. CASE Build
  BY <1>2, <1>7 DEF Build, DataInv
<1>8. CASE UNCHANGED vars
  BY <1>8 DEF vars, DataInv
<1> QED
  BY <1>3, <1>4, <1>5, <1>6, <1>7, <1>8 DEF Next

LEMMA DataCorrect == Spec => []DataInv
<1>1. Init => DataInv
  BY DEF Init, DataInv
<1> QED
  BY <1>1, DataStep, MergeTypeCorrect, KeptCorrect, PTL DEF Spec

(* The entry a password is looked up in holds data every raw site of its key *)
(* agrees with, and the merge panics only over two sites that disagree.      *)
THEOREM DataNeverMixedCorrect == Spec => []DataNeverMixed
<1>1. MergeTypeOK /\ KeptInv /\ DataInv => DataNeverMixed
  <2> SUFFICES ASSUME MergeTypeOK, KeptInv, DataInv
               PROVE  DataNeverMixed
    OBVIOUS
  <2>1. ASSUME stage \in {"merging", "built"}, NEW k \in Known, NEW i \in Given(k)
        PROVE  seen[i].data \in {None, map[k].data}
    <3>1. k \in Keys /\ i \in DOMAIN seen /\ KeyOf(seen[i]) = k
      BY DEF Known, Given
    <3>2. map[k] # None
      BY <2>1, <3>1 DEF KeptInv
    <3> QED
      BY <2>1, <3>1, <3>2 DEF DataInv, DataOfKey
  <2>2. ASSUME stage = "data conflict"
        PROVE  \E k \in Known : \E i, j \in Given(k) :
                  None \notin {seen[i].data, seen[j].data} /\ seen[i].data # seen[j].data
    <3>1. PICK i, j \in DOMAIN seen : Disagree(seen, i, j)
      BY <2>2 DEF DataInv
    <3>2. seen[i] \in RawSites
      BY <3>1 DEF MergeTypeOK
    <3>3. KeyOf(seen[i]) \in Keys
      BY <3>1, <3>2, KeyOfIsKey DEF Disagree
    <3>4. i \in Given(KeyOf(seen[i])) /\ j \in Given(KeyOf(seen[i]))
      BY <3>1 DEF Given, Disagree
    <3>5. KeyOf(seen[i]) \in Known
      BY <3>3, <3>4 DEF Known
    <3> QED
      BY <3>1, <3>4, <3>5 DEF Disagree
  <2> QED
    BY <2>1, <2>2 DEF DataNeverMixed
<1> QED
  BY <1>1, DataCorrect, MergeTypeCorrect, KeptCorrect, PTL

-----------------------------------------------------------------------------
(* The built table *)

KnownIn(m) == {k \in Keys : m[k] # None}

-----------------------------------------------------------------------------
(* The order of a BTreeMap's keys *)

(* Before is a strict total order of the keys. *)
LEMMA KeysAreOrdered ==
    ASSUME NEW j \in Keys, NEW k \in Keys, NEW l \in Keys
    PROVE  /\ ~ Before(k, k)
           /\ Before(j, k) /\ Before(k, l) => Before(j, l)
           /\ j # k => Before(j, k) \/ Before(k, j)
           /\ ~ (Before(j, k) /\ Before(k, j))
<1>1. NormalUrls \subseteq Nat /\ Users \subseteq Nat
  BY UrlAssumption, UserAssumption DEF NormalUrls, Users, NoUser
<1>2. \A x \in Keys : x[1] \in Nat /\ x[2] \in Nat
  BY <1>1 DEF Keys
<1>3. j = k \/ j[1] # k[1] \/ j[2] # k[2]
  BY DEF Keys
<1> QED
  BY <1>2, <1>3 DEF Before

(* The position of a key in a set of keys: how many of them come before it. *)
Rank(K, k) == Cardinality({j \in K : Before(j, k)})

LEMMA RankRises ==
    ASSUME NEW K \in SUBSET Keys, IsFiniteSet(K), NEW j \in K, NEW k \in K, Before(j, k)
    PROVE  Rank(K, j) < Rank(K, k)
<1> DEFINE J == {x \in K : Before(x, j)}
           H == {x \in K : Before(x, k)}
<1>1. J \subseteq H
  BY KeysAreOrdered
<1>2. j \in H /\ j \notin J
  BY KeysAreOrdered
<1>3. IsFiniteSet(H) /\ IsFiniteSet(J)
  BY FS_Subset
<1>4. Cardinality(J) <= Cardinality(H) /\ Cardinality(J) # Cardinality(H)
  <2> HIDE DEF J, H
  <2> QED
    BY <1>1, <1>2, <1>3, FS_Subset
<1>5. Cardinality(J) \in Nat /\ Cardinality(H) \in Nat
  BY <1>3, FS_CardinalityType
<1> QED
  BY <1>4, <1>5 DEF Rank

LEMMA RankInRange ==
    ASSUME NEW K \in SUBSET Keys, IsFiniteSet(K), NEW k \in K
    PROVE  Rank(K, k) \in 0 .. Cardinality(K) - 1
<1> DEFINE H == {x \in K : Before(x, k)}
<1>1. H \subseteq K /\ k \notin H
  BY KeysAreOrdered
<1>2. IsFiniteSet(H) /\ Cardinality(H) <= Cardinality(K) /\ Cardinality(H) # Cardinality(K)
  <2> HIDE DEF H
  <2> QED
    BY <1>1, FS_Subset
<1>3. Cardinality(H) \in Nat /\ Cardinality(K) \in Nat
  BY <1>2, FS_CardinalityType
<1> QED
  BY <1>2, <1>3 DEF Rank

(* Every position is taken: ranking is an injection between sets of the same *)
(* size, so it is onto, and no induction is needed.                          *)
LEMMA RankIsOnto ==
    ASSUME NEW K \in SUBSET Keys, IsFiniteSet(K), NEW i \in 1 .. Cardinality(K)
    PROVE  \E k \in K : Rank(K, k) = i - 1
<1> DEFINE n == Cardinality(K)
           T == 0 .. n - 1
           f == [k \in K |-> Rank(K, k)]
<1>1. n \in Nat
  BY FS_CardinalityType
<1>2. IsFiniteSet(T) /\ Cardinality(T) = n
  <2>1. n - 1 \in Int /\ 0 \in Int
    BY <1>1
  <2>2. /\ IsFiniteSet(0 .. n - 1)
        /\ Cardinality(0 .. n - 1) = IF 0 > n - 1 THEN 0 ELSE n - 1 - 0 + 1
    BY ONLY <2>1, FS_Interval
  <2> QED
    BY <1>1, <2>2
<1>3. f \in [K -> T]
  BY RankInRange
<1>4. ASSUME NEW j \in K, NEW k \in K, j # k
      PROVE  f[j] # f[k]
  <2>1. Before(j, k) \/ Before(k, j)
    BY <1>4, KeysAreOrdered
  <2>2. Rank(K, j) \in Int /\ Rank(K, k) \in Int
    BY RankInRange
  <2> QED
    BY <2>1, <2>2, RankRises
<1>5. f \in Injection(K, T)
  <2> HIDE DEF f, T
  <2> QED
    BY <1>3, <1>4 DEF Injection, IsInjective
<1>6. f \in Surjection(K, T)
  <2> HIDE DEF f, T
  <2> QED
    BY <1>2, <1>5, FS_Injection
<1>7. i - 1 \in T
  BY <1>1
<1>8. PICK k \in K : f[k] = i - 1
  <2> HIDE DEF f, T
  <2> QED
    BY <1>6, <1>7 DEF Surjection
<1> QED
  BY <1>8

(* What KeysInOrder makes: every known key once, in ascending order. *)
Sorted(order, K) ==
    /\ DOMAIN order = 1 .. Cardinality(K)
    /\ \A i \in DOMAIN order : order[i] \in K
    /\ \A k \in K : \E i \in DOMAIN order : order[i] = k
    /\ \A i, j \in DOMAIN order : i < j => Before(order[i], order[j])

LEMMA KeysAreSorted ==
    ASSUME NEW m, IsFiniteSet(KnownIn(m))
    PROVE  Sorted(KeysInOrder(m), KnownIn(m)) /\ Cardinality(KnownIn(m)) \in Nat
<1> DEFINE K == KnownIn(m)
           order == KeysInOrder(m)
<1>1. K \in SUBSET Keys /\ IsFiniteSet(K) /\ Cardinality(K) \in Nat
  BY FS_CardinalityType DEF KnownIn
<1>2. order = [i \in 1 .. Cardinality(K) |-> CHOOSE k \in K : Rank(K, k) = i - 1]
  BY DEF KeysInOrder, KnownIn, Rank
<1> HIDE DEF K, order
<1>3. DOMAIN order = 1 .. Cardinality(K)
  BY <1>2
<1>4. ASSUME NEW i \in DOMAIN order
      PROVE  order[i] \in K /\ Rank(K, order[i]) = i - 1
  <2>1. \E k \in K : Rank(K, k) = i - 1
    BY <1>1, <1>3, RankIsOnto
  <2> QED
    BY <1>2, <1>3, <2>1
<1>5. ASSUME NEW j \in K, NEW k \in K, Rank(K, j) <= Rank(K, k), j # k
      PROVE  Before(j, k)
  <2>1. Before(j, k) \/ Before(k, j)
    BY <1>1, <1>5, KeysAreOrdered
  <2>2. Rank(K, j) \in Int /\ Rank(K, k) \in Int
    BY <1>1, RankInRange
  <2> QED
    BY <1>1, <1>5, <2>1, <2>2, RankRises
<1>6. ASSUME NEW k \in K
      PROVE  \E i \in DOMAIN order : order[i] = k
  <2>1. Rank(K, k) \in 0 .. Cardinality(K) - 1
    BY <1>1, RankInRange
  <2>2. Rank(K, k) + 1 \in DOMAIN order
    BY <1>1, <1>3, <2>1
  <2>3. /\ order[Rank(K, k) + 1] \in K
        /\ Rank(K, order[Rank(K, k) + 1]) = Rank(K, k)
    BY <1>4, <2>1, <2>2
  <2>4. order[Rank(K, k) + 1] = k
    <3> SUFFICES ASSUME order[Rank(K, k) + 1] # k PROVE FALSE
      OBVIOUS
    <3>1. Before(order[Rank(K, k) + 1], k) /\ Before(k, order[Rank(K, k) + 1])
      BY <1>5, <2>1, <2>3
    <3> QED
      BY <1>1, <2>3, <3>1, KeysAreOrdered
  <2> QED
    BY <2>2, <2>4
<1>7. ASSUME NEW i \in DOMAIN order, NEW j \in DOMAIN order, i < j
      PROVE  Before(order[i], order[j])
  BY <1>1, <1>3, <1>4, <1>5, <1>7
<1> QED
  BY <1>1, <1>3, <1>4, <1>6, <1>7 DEF Sorted, K, order

-----------------------------------------------------------------------------
(* Least and greatest numbers *)

LEMMA MinIsLeast ==
    ASSUME NEW S \in SUBSET Nat, S # {}
    PROVE  Min(S) \in S /\ \A y \in S : Min(S) <= y
BY LeastExists DEF Min

LEMMA MaxIs ==
    ASSUME NEW S \in SUBSET Nat, NEW x \in S, \A y \in S : y <= x
    PROVE  Max(S) = x
<1>1. x \in S /\ \A y \in S : x >= y
  OBVIOUS
<1>2. \A z \in S : (\A y \in S : z >= y) => z = x
  OBVIOUS
<1> QED
  BY <1>1, <1>2 DEF Max

-----------------------------------------------------------------------------
(* The two indexes *)

LEMMA KeyIndexCorrect ==
    ASSUME NEW m, IsFiniteSet(KnownIn(m))
    PROVE  /\ DOMAIN KeyIndex(m) = KnownIn(m)
           /\ \A i \in DOMAIN KeysInOrder(m) : KeyIndex(m)[KeysInOrder(m)[i]] = i
<1> DEFINE K == KnownIn(m)
           order == KeysInOrder(m)
<1>1. Sorted(order, K) /\ Cardinality(K) \in Nat /\ K \in SUBSET Keys
  BY KeysAreSorted DEF KnownIn
<1>2. KeyIndex(m) =
        [k \in {order[i] : i \in DOMAIN order} |-> Max({i \in DOMAIN order : order[i] = k})]
  BY DEF KeyIndex
<1> HIDE DEF K, order
<1>3. {order[i] : i \in DOMAIN order} = K
  BY <1>1 DEF Sorted
<1>4. ASSUME NEW i \in DOMAIN order
      PROVE  Max({j \in DOMAIN order : order[j] = order[i]}) = i
  <2>1. DOMAIN order \subseteq Nat
    BY <1>1 DEF Sorted
  <2>2. ASSUME NEW j \in DOMAIN order, order[j] = order[i]
        PROVE  j = i
    <3>1. /\ order[i] \in Keys
          /\ i < j => Before(order[i], order[j])
          /\ j < i => Before(order[j], order[i])
      BY <1>1 DEF Sorted
    <3> QED
      BY <2>1, <2>2, <3>1, KeysAreOrdered
  <2>3. {j \in DOMAIN order : order[j] = order[i]} = {i}
    BY <2>2
  <2> QED
    BY <2>1, <2>3, MaxIs
<1> QED
  BY <1>1, <1>2, <1>3, <1>4 DEF Sorted, K, order

(* Where the keys of a URL start: everything before belongs to a lesser URL. *)
StartsAt(order, u, s) ==
    /\ s \in DOMAIN order
    /\ order[s][1] = u
    /\ \A j \in DOMAIN order : j < s => order[j][1] < u

RunStarts(order) == {i \in DOMAIN order : i = 1 \/ order[i - 1][1] # order[i][1]}

LEMMA UrlsAscend ==
    ASSUME NEW order, NEW K \in SUBSET Keys, Sorted(order, K)
    PROVE  /\ \A i \in DOMAIN order : order[i][1] \in Nat
           /\ \A i, j \in DOMAIN order : i < j => order[i][1] <= order[j][1]
<1>1. \A k \in Keys : k[1] \in Nat
  BY UrlAssumption DEF Keys, NormalUrls
<1>2. \A i \in DOMAIN order : order[i][1] \in Nat
  BY <1>1 DEF Sorted
<1>3. \A i, j \in DOMAIN order : i < j => Before(order[i], order[j])
  BY DEF Sorted
<1> QED
  BY <1>2, <1>3 DEF Before

LEMMA RunsStart ==
    ASSUME NEW order, NEW K \in SUBSET Keys, Sorted(order, K), Cardinality(K) \in Nat,
           NEW u, NEW s
    PROVE  StartsAt(order, u, s) <=> s \in RunStarts(order) /\ order[s][1] = u
<1>1. /\ DOMAIN order = 1 .. Cardinality(K)
      /\ \A i \in DOMAIN order : order[i][1] \in Nat
      /\ \A i, j \in DOMAIN order : i < j => order[i][1] <= order[j][1]
  BY UrlsAscend DEF Sorted
<1>2. ASSUME StartsAt(order, u, s)
      PROVE  s \in RunStarts(order) /\ order[s][1] = u
  <2>1. s \in DOMAIN order /\ order[s][1] = u /\ u \in Nat
    BY <1>1, <1>2 DEF StartsAt
  <2>2. s = 1 \/ (s - 1 \in DOMAIN order /\ s - 1 < s)
    BY <1>1, <2>1
  <2>3. s = 1 \/ order[s - 1][1] < u
    BY <1>2, <2>2 DEF StartsAt
  <2> QED
    BY <1>1, <2>1, <2>2, <2>3 DEF RunStarts
<1>3. ASSUME s \in RunStarts(order), order[s][1] = u
      PROVE  StartsAt(order, u, s)
  <2> SUFFICES ASSUME NEW j \in DOMAIN order, j < s
               PROVE  order[j][1] < u
    BY <1>3 DEF StartsAt, RunStarts
  <2>1. s - 1 \in DOMAIN order /\ j <= s - 1 /\ s \in DOMAIN order /\ s # 1 /\ s - 1 < s
    BY <1>1, <1>3 DEF RunStarts
  <2>2. order[s - 1][1] # u
    BY <1>3, <2>1 DEF RunStarts
  <2>3. order[s - 1][1] <= u
    BY <1>1, <1>3, <2>1
  <2>4. order[j][1] <= order[s - 1][1]
    BY <1>1, <2>1
  <2> QED
    BY <1>1, <1>3, <2>1, <2>2, <2>3, <2>4
<1> QED
  BY <1>2, <1>3

LEMMA UrlIndexCorrect ==
    ASSUME NEW m, IsFiniteSet(KnownIn(m))
    PROVE  /\ DOMAIN UrlIndex(m) = {k[1] : k \in KnownIn(m)}
           /\ \A u \in DOMAIN UrlIndex(m) : StartsAt(KeysInOrder(m), u, UrlIndex(m)[u])
<1> DEFINE K == KnownIn(m)
           order == KeysInOrder(m)
           starts == RunStarts(order)
<1>1. Sorted(order, K) /\ Cardinality(K) \in Nat /\ K \in SUBSET Keys
  BY KeysAreSorted DEF KnownIn
<1>2. UrlIndex(m) =
        [u \in {order[i][1] : i \in starts} |-> Max({i \in starts : order[i][1] = u})]
  BY DEF UrlIndex, RunStarts
<1>3. starts \subseteq DOMAIN order
  BY DEF RunStarts
<1> HIDE DEF K, order, starts
<1>4. /\ DOMAIN order = 1 .. Cardinality(K)
      /\ \A i \in DOMAIN order : order[i][1] \in Nat
      /\ \A i, j \in DOMAIN order : i < j => order[i][1] <= order[j][1]
  BY <1>1, UrlsAscend DEF Sorted
<1>5. ASSUME NEW k \in K
      PROVE  \E s \in starts : order[s][1] = k[1]
  <2> DEFINE S == {i \in DOMAIN order : order[i][1] = k[1]}
  <2>1. S # {}
    BY <1>1 DEF Sorted
  <2>2. S \in SUBSET Nat
    BY <1>4
  <2>3. PICK s \in S : \A j \in S : s <= j
    BY <2>1, <2>2, LeastExists
  <2>4. s \in DOMAIN order /\ order[s][1] = k[1]
    BY <2>3
  <2>5. ASSUME NEW j \in DOMAIN order, j < s
        PROVE  order[j][1] < k[1]
    <3>1. order[j][1] <= k[1] /\ order[j][1] # k[1]
      BY <1>4, <2>3, <2>4, <2>5
    <3> QED
      BY <1>4, <2>4, <3>1
  <2>6. StartsAt(order, k[1], s)
    BY <2>4, <2>5 DEF StartsAt
  <2> QED
    BY <1>1, <2>6, RunsStart DEF starts
<1>6. {order[i][1] : i \in starts} = {k[1] : k \in K}
  <2>1. \A i \in starts : order[i] \in K
    BY <1>1, <1>3 DEF Sorted
  <2> QED
    BY <1>5, <2>1
<1>7. ASSUME NEW s \in starts
      PROVE  Max({i \in starts : order[i][1] = order[s][1]}) = s
  <2>1. ASSUME NEW i \in starts, order[i][1] = order[s][1]
        PROVE  i = s
    <3>1. StartsAt(order, order[s][1], i) /\ StartsAt(order, order[s][1], s)
      BY <1>1, <2>1, RunsStart DEF starts
    <3>2. order[s][1] \in Nat /\ i \in Nat /\ s \in Nat
      BY <1>3, <1>4
    <3>3. ~ (i < s) /\ ~ (s < i)
      BY <2>1, <3>1, <3>2 DEF StartsAt
    <3> QED
      BY <3>2, <3>3
  <2>2. {i \in starts : order[i][1] = order[s][1]} = {s}
    BY <2>1
  <2>3. s \in Nat
    BY <1>3, <1>4
  <2> QED
    BY <2>2, <2>3, MaxIs
<1>8. ASSUME NEW u \in DOMAIN UrlIndex(m)
      PROVE  StartsAt(order, u, UrlIndex(m)[u])
  <2>1. PICK s \in starts : order[s][1] = u
    BY <1>2, <1>8
  <2>2. UrlIndex(m)[u] = s
    BY <1>2, <1>7, <2>1
  <2> QED
    BY <1>1, <2>1, <2>2, RunsStart DEF starts
<1> QED
  BY <1>2, <1>6, <1>8 DEF K, order

-----------------------------------------------------------------------------
(* The URL and the comment of an entry are the last ones given: with         *)
(* KeptInv and DataInv this tells every field of an entry from the history. *)

LastOfKey(m, s, k) ==
    /\ \E i \in DOMAIN s :
         /\ KeyOf(s[i]) = k
         /\ s[i].url = m[k].url
         /\ \A j \in DOMAIN s : j > i => KeyOf(s[j]) # k
    /\ \/ /\ m[k].comment = None
          /\ \A i \in DOMAIN s : KeyOf(s[i]) = k => s[i].comment = None
       \/ \E i \in DOMAIN s :
            /\ KeyOf(s[i]) = k
            /\ s[i].comment # None
            /\ m[k].comment = s[i].comment
            /\ \A j \in DOMAIN s : j > i /\ KeyOf(s[j]) = k => s[j].comment = None

LastInv ==
    stage \in {"merging", "built"} =>
        \A k \in Keys : map[k] # None => LastOfKey(map, seen, k)

LEMMA LastOfOtherKey ==
    ASSUME NEW s \in Seq(RawSites), NEW r \in RawSites, NEW m, NEW n, NEW k,
           KeyOf(r) # k, n[k] = m[k], LastOfKey(m, s, k)
    PROVE  LastOfKey(n, Append(s, r), k)
<1> DEFINE t == Append(s, r)
<1>1. /\ \A i \in DOMAIN s : i \in DOMAIN t /\ t[i] = s[i]
      /\ \A i \in DOMAIN t : KeyOf(t[i]) = k => i \in DOMAIN s
      /\ \A i \in DOMAIN t : i \in DOMAIN s \/ t[i] = r
  OBVIOUS
<1>2. \E i \in DOMAIN s :
        /\ KeyOf(s[i]) = k
        /\ s[i].url = m[k].url
        /\ \A j \in DOMAIN s : j > i => KeyOf(s[j]) # k
  BY DEF LastOfKey
<1>3. \/ /\ m[k].comment = None
         /\ \A i \in DOMAIN s : KeyOf(s[i]) = k => s[i].comment = None
      \/ \E i \in DOMAIN s :
           /\ KeyOf(s[i]) = k
           /\ s[i].comment # None
           /\ m[k].comment = s[i].comment
           /\ \A j \in DOMAIN s : j > i /\ KeyOf(s[j]) = k => s[j].comment = None
  BY DEF LastOfKey
<1> HIDE DEF t
<1>4. \E i \in DOMAIN t :
        /\ KeyOf(t[i]) = k
        /\ t[i].url = n[k].url
        /\ \A j \in DOMAIN t : j > i => KeyOf(t[j]) # k
  BY <1>1, <1>2
<1>5. \/ /\ n[k].comment = None
         /\ \A i \in DOMAIN t : KeyOf(t[i]) = k => t[i].comment = None
      \/ \E i \in DOMAIN t :
           /\ KeyOf(t[i]) = k
           /\ t[i].comment # None
           /\ n[k].comment = t[i].comment
           /\ \A j \in DOMAIN t : j > i /\ KeyOf(t[j]) = k => t[j].comment = None
  BY <1>1, <1>3
<1> QED
  BY <1>4, <1>5 DEF LastOfKey, t

(* The newest raw site of a key: inserted if it is the first, else merged. *)
LEMMA LastOfNewest ==
    ASSUME NEW s \in Seq(RawSites), NEW r \in RawSites, NEW m, NEW n,
           \/ /\ \A i \in DOMAIN s : KeyOf(s[i]) # KeyOf(r)
              /\ n[KeyOf(r)] = NewEntry(r)
           \/ /\ LastOfKey(m, s, KeyOf(r))
              /\ n[KeyOf(r)] = MergedEntry(m[KeyOf(r)], r)
    PROVE  LastOfKey(n, Append(s, r), KeyOf(r))
<1> DEFINE t == Append(s, r)
           k == KeyOf(r)
           last == Len(s) + 1
<1>1. /\ last \in DOMAIN t /\ t[last] = r
      /\ \A i \in DOMAIN s : i \in DOMAIN t /\ t[i] = s[i]
      /\ \A i \in DOMAIN t : i \in DOMAIN s \/ i = last
      /\ \A i \in DOMAIN t : ~ (i > last)
  OBVIOUS
<1>2. k = KeyOf(r) /\ n[k].url = r.url
  BY DEF NewEntry, MergedEntry
<1>3. CASE (\A i \in DOMAIN s : KeyOf(s[i]) # KeyOf(r)) /\ n[KeyOf(r)] = NewEntry(r)
  <2>1. n[k].comment = r.comment
    BY <1>3 DEF NewEntry
  <2>2. \A i \in DOMAIN t : KeyOf(t[i]) = k => i = last
    BY <1>1, <1>3
  <2> HIDE DEF t, k, last
  <2> QED
    BY <1>1, <1>2, <2>1, <2>2 DEF LastOfKey, t, k
<1>4. CASE LastOfKey(m, s, KeyOf(r)) /\ n[KeyOf(r)] = MergedEntry(m[KeyOf(r)], r)
  <2>1. n[k].comment = Override(m[k].comment, r.comment)
    BY <1>4 DEF MergedEntry
  <2>2. \/ /\ m[k].comment = None
           /\ \A i \in DOMAIN s : KeyOf(s[i]) = k => s[i].comment = None
        \/ \E i \in DOMAIN s :
             /\ KeyOf(s[i]) = k
             /\ s[i].comment # None
             /\ m[k].comment = s[i].comment
             /\ \A j \in DOMAIN s : j > i /\ KeyOf(s[j]) = k => s[j].comment = None
    BY <1>4 DEF LastOfKey
  <2> HIDE DEF t, k, last
  <2>3. \E i \in DOMAIN t :
          /\ KeyOf(t[i]) = k
          /\ t[i].url = n[k].url
          /\ \A j \in DOMAIN t : j > i => KeyOf(t[j]) # k
    BY <1>1, <1>2
  <2>4. CASE r.comment = None
    <3>1. n[k].comment = m[k].comment
      BY <2>1, <2>4 DEF Override
    <3> QED
      BY <1>1, <2>2, <2>3, <2>4, <3>1 DEF LastOfKey, t, k
  <2>5. CASE r.comment # None
    <3>1. n[k].comment = r.comment
      BY <2>1, <2>5 DEF Override
    <3> QED
      BY <1>1, <1>2, <2>3, <2>5, <3>1 DEF LastOfKey, t, k
  <2> QED
    BY <2>4, <2>5
<1> QED
  BY <1>3, <1>4

(* Each step keeps the last URL and comment of a key. *)
LEMMA LastStep ==
    MergeTypeOK /\ KeptInv /\ LastInv /\ [Next]_vars => LastInv'
<1> SUFFICES ASSUME MergeTypeOK, KeptInv, LastInv, [Next]_vars
             PROVE  LastInv'
  OBVIOUS
<1>1. seen \in Seq(RawSites) /\ map \in [Keys -> EntryType \cup {None}]
  BY DEF MergeTypeOK
<1>2. stage = "merging" =>
          /\ \A k \in Keys : map[k] # None => LastOfKey(map, seen, k)
          /\ \A k \in Keys : map[k] = None => \A i \in DOMAIN seen : KeyOf(seen[i]) # k
  BY DEF LastInv, KeptInv
<1>3. ASSUME NEW r \in RawSites, RejectUrl(r) \/ DataConflict(r)
      PROVE  LastInv'
  BY <1>3 DEF RejectUrl, DataConflict, LastInv
<1>4. ASSUME NEW r \in RawSites, InsertSite(r)
      PROVE  LastInv'
  <2>1. /\ KeyOf(r) \in Keys
        /\ seen' = Append(seen, r)
        /\ stage = "merging"
        /\ map[KeyOf(r)] = None
        /\ map' = [map EXCEPT ![KeyOf(r)] = NewEntry(r)]
    BY <1>4, KeyOfIsKey DEF InsertSite, Consume
  <2>2. LastOfKey(map', seen', KeyOf(r))
    BY <1>1, <1>2, <2>1, LastOfNewest
  <2>3. ASSUME NEW k \in Keys, k # KeyOf(r), map'[k] # None
        PROVE  LastOfKey(map', seen', k)
    BY <1>1, <1>2, <2>1, <2>3, LastOfOtherKey
  <2> QED
    BY <2>2, <2>3 DEF LastInv
<1>5. ASSUME NEW r \in RawSites, MergeSite(r)
      PROVE  LastInv'
  <2>1. /\ KeyOf(r) \in Keys
        /\ seen' = Append(seen, r)
        /\ stage = "merging"
        /\ map[KeyOf(r)] # None
        /\ map' = [map EXCEPT ![KeyOf(r)] = MergedEntry(map[KeyOf(r)], r)]
    BY <1>5, KeyOfIsKey DEF MergeSite, Consume
  <2>2. LastOfKey(map', seen', KeyOf(r))
    BY <1>1, <1>2, <2>1, LastOfNewest
  <2>3. ASSUME NEW k \in Keys, k # KeyOf(r), map'[k] # None
        PROVE  LastOfKey(map', seen', k)
    BY <1>1, <1>2, <2>1, <2>3, LastOfOtherKey
  <2> QED
    BY <2>2, <2>3 DEF LastInv
<1>6. CASE Build
  BY <1>2, <1>6 DEF Build, LastInv
<1>7. CASE UNCHANGED vars
  BY <1>7 DEF vars, LastInv
<1> QED
  BY <1>3, <1>4, <1>5, <1>6, <1>7 DEF Next

LEMMA LastCorrect == Spec => []LastInv
<1>1. Init => LastInv
  BY DEF Init, LastInv
<1> QED
  BY <1>1, LastStep, MergeTypeCorrect, KeptCorrect, PTL DEF Spec

(* Every entry of the map holds the highest increment given for its key, and *)
(* the last URL, schema and comment: for every list of raw sites.            *)
THEOREM MergeCorrect == Spec => []MergeInv
<1>1. KeptInv /\ LastInv => MergeInv
  BY DEF KeptInv, LastInv, LastOfKey, MergeInv, IsLastGiven, SchemaOf, CommentOf
<1> QED
  BY <1>1, KeptCorrect, LastCorrect, PTL

-----------------------------------------------------------------------------
(* An entry of the map is what the history documents of its key. *)

EntrySite(k) ==
    [url |-> map[k].url, username |-> k[2], schema |-> map[k].schema,
     increment |-> map[k].increment, comment |-> map[k].comment, data |-> map[k].data]

Merged == MergeTypeOK /\ KeptInv /\ DataInv /\ LastInv

LEMMA GivenIs ==
    ASSUME Merged, stage \in {"merging", "built"}, NEW k \in Keys
    PROVE  /\ Given(k) = {i \in DOMAIN seen : KeyOf(seen[i]) = k}
           /\ Given(k) \in SUBSET Nat
           /\ k \in Known <=> map[k] # None
           /\ map[k] # None => map[k] \in EntryType
           /\ \A i \in Given(k) : seen[i] \in RawSiteType
<1>1. seen \in Seq(RawSites) /\ map \in [Keys -> EntryType \cup {None}]
  BY DEF Merged, MergeTypeOK
<1>2. /\ \A i \in DOMAIN seen : NormalOf[seen[i].url] # InvalidUrl
      /\ map[k] = None => \A i \in DOMAIN seen : KeyOf(seen[i]) # k
      /\ map[k] # None => \E i \in DOMAIN seen : KeyOf(seen[i]) = k
  BY DEF Merged, KeptInv
<1>3. \A i \in DOMAIN seen : i \in Nat /\ seen[i] \in RawSiteType
  BY <1>1, SiteAssumption
<1> QED
  BY <1>1, <1>2, <1>3 DEF Given, Known

LEMMA EntryIsDocumented ==
    ASSUME Merged, stage \in {"merging", "built"}, NEW k \in Known
    PROVE  /\ Documented(k) = EntrySite(k)
           /\ EntrySite(k) \in RawSiteType
           /\ NormalOf[map[k].url] = k[1]
<1> DEFINE G == Given(k)
<1>1. /\ k \in Keys
      /\ map[k] # None
      /\ map[k] \in EntryType
      /\ G = {i \in DOMAIN seen : KeyOf(seen[i]) = k}
      /\ G \in SUBSET Nat
      /\ \A i \in G : seen[i] \in RawSiteType
  BY GivenIs DEF Known
<1> HIDE DEF G
<1>2. /\ seen[LastGiven(k)].url = map[k].url
      /\ NormalOf[map[k].url] = k[1]
  <2>1. PICK i \in G : seen[i].url = map[k].url /\ \A j \in G : ~ (j > i)
    BY <1>1 DEF Merged, LastInv, LastOfKey
  <2>2. \A j \in G : j <= i
    BY <1>1, <2>1
  <2>3. Max(G) = i
    BY <1>1, <2>2, MaxIs
  <2> QED
    BY <1>1, <2>1, <2>3 DEF LastGiven, KeyOf, G
<1>3. LastSome(k, SchemaOf) = map[k].schema
  <2> DEFINE some == {i \in G : seen[i].schema # None}
  <2>1. LastSome(k, SchemaOf) = IF some = {} THEN None ELSE seen[Max(some)].schema
    BY DEF LastSome, SchemaOf, G
  <2>2. CASE map[k].schema = None /\ \A i \in G : seen[i].schema = None
    BY <2>1, <2>2
  <2>3. ASSUME NEW i \in G, seen[i].schema # None, map[k].schema = seen[i].schema,
               \A j \in G : j > i => seen[j].schema = None
        PROVE  LastSome(k, SchemaOf) = map[k].schema
    <3>1. i \in some /\ some \in SUBSET Nat /\ \A j \in some : j <= i
      BY <1>1, <2>3
    <3>2. Max(some) = i
      <4> HIDE DEF some
      <4> QED
        BY <3>1, MaxIs
    <3> QED
      BY <2>1, <2>3, <3>1, <3>2
  <2> QED
    BY <1>1, <2>2, <2>3 DEF Merged, KeptInv
<1>4. LastSome(k, CommentOf) = map[k].comment
  <2> DEFINE some == {i \in G : seen[i].comment # None}
  <2>1. LastSome(k, CommentOf) = IF some = {} THEN None ELSE seen[Max(some)].comment
    BY DEF LastSome, CommentOf, G
  <2>2. CASE map[k].comment = None /\ \A i \in G : seen[i].comment = None
    BY <2>1, <2>2
  <2>3. ASSUME NEW i \in G, seen[i].comment # None, map[k].comment = seen[i].comment,
               \A j \in G : j > i => seen[j].comment = None
        PROVE  LastSome(k, CommentOf) = map[k].comment
    <3>1. i \in some /\ some \in SUBSET Nat /\ \A j \in some : j <= i
      BY <1>1, <2>3
    <3>2. Max(some) = i
      <4> HIDE DEF some
      <4> QED
        BY <3>1, MaxIs
    <3> QED
      BY <2>1, <2>3, <3>1, <3>2
  <2> QED
    BY <1>1, <2>2, <2>3 DEF Merged, LastInv, LastOfKey
<1>5. LastSome(k, DataOf) = map[k].data
  <2> DEFINE some == {i \in G : seen[i].data # None}
  <2>1. LastSome(k, DataOf) = IF some = {} THEN None ELSE seen[Max(some)].data
    BY DEF LastSome, DataOf, G
  <2>2. /\ \A i \in G : seen[i].data \in {None, map[k].data}
        /\ map[k].data # None => \E i \in G : seen[i].data = map[k].data
    BY <1>1 DEF Merged, DataInv, DataOfKey
  <2>3. CASE map[k].data = None
    BY <2>1, <2>2, <2>3
  <2>4. CASE map[k].data # None
    <3>1. some # {} /\ some \subseteq G
      BY <2>2, <2>4
    <3>2. Max(some) \in some
      <4>1. some \in SUBSET (1 .. Len(seen)) /\ Len(seen) \in Nat
        BY <1>1 DEF Merged, MergeTypeOK
      <4> HIDE DEF some
      <4>2. PICK x \in some : \A y \in some : y <= x
        BY <3>1, <4>1, GreatestExists
      <4> QED
        BY <4>1, <4>2, MaxIs
    <3> QED
      BY <2>1, <2>2, <3>1, <3>2
  <2> QED
    BY <2>3, <2>4
<1>6. Max({seen[i].increment : i \in G}) = map[k].increment
  <2> DEFINE S == {seen[i].increment : i \in G}
  <2>1. S \in SUBSET Nat
    BY <1>1 DEF RawSiteType
  <2>2. map[k].increment \in S /\ \A x \in S : x <= map[k].increment
    BY <1>1 DEF Merged, KeptInv
  <2> HIDE DEF S
  <2>3. Max(S) = map[k].increment
    BY <2>1, <2>2, MaxIs
  <2> QED
    BY <2>3 DEF S
<1>7. EntrySite(k) \in RawSiteType
  <2>1. k[2] \in Users
    BY <1>1 DEF Keys
  <2> QED
    BY <1>1, <2>1 DEF EntrySite, EntryType, RawSiteType
<1> QED
  BY <1>2, <1>3, <1>4, <1>5, <1>6, <1>7 DEF Documented, EntrySite, G

-----------------------------------------------------------------------------
(* The built table *)

LEMMA KnownIsFinite ==
    ASSUME Merged, stage \in {"merging", "built"}
    PROVE  KnownIn(map) = Known /\ IsFiniteSet(Known)
<1> DEFINE D == {i \in DOMAIN seen : KeyOf(seen[i]) \in Known}
           f == [i \in D |-> KeyOf(seen[i])]
<1>1. Known = KnownIn(map)
  BY GivenIs DEF Known, KnownIn
<1>2. IsFiniteSet(D)
  <2>1. DOMAIN seen = 1 .. Len(seen) /\ Len(seen) \in Int
    BY DEF Merged, MergeTypeOK
  <2>2. IsFiniteSet(DOMAIN seen)
    BY <2>1, FS_Interval
  <2>3. D \subseteq DOMAIN seen
    OBVIOUS
  <2> HIDE DEF D
  <2> QED
    BY <2>2, <2>3, FS_Subset
<1>3. ASSUME NEW k \in Known
      PROVE  \E i \in D : f[i] = k
  BY GivenIs DEF Known
<1>4. f \in [D -> Known]
  OBVIOUS
<1>5. f \in Surjection(D, Known)
  <2> HIDE DEF f, D
  <2> QED
    BY <1>3, <1>4 DEF Surjection
<1>6. IsFiniteSet(Known)
  <2> HIDE DEF f, D
  <2> QED
    BY <1>2, <1>5, FS_Surjection
<1> QED
  BY <1>1, <1>6

(* What the indexes promise to find_site. *)
TableOf(order, n) ==
    /\ n \in Nat
    /\ DOMAIN order = 1 .. n
    /\ Sorted(order, Known)
    /\ DOMAIN site = 1 .. n
    /\ Len(site) = n
    /\ \A i \in 1 .. n : site[i] = Documented(order[i])
    /\ DOMAIN siteByKey = Known
    /\ \A i \in 1 .. n : siteByKey[order[i]] = i
    /\ DOMAIN siteByUrl = {k[1] : k \in Known}
    /\ \A u \in DOMAIN siteByUrl : StartsAt(order, u, siteByUrl[u])

BuiltInv ==
    /\ stage # "built" => site = <<>> /\ siteByUrl = <<>> /\ siteByKey = <<>>
    /\ stage = "built" =>
         site = SiteList(map) /\ siteByUrl = UrlIndex(map) /\ siteByKey = KeyIndex(map)

LEMMA BuiltTable ==
    ASSUME Merged, BuiltInv, stage = "built"
    PROVE  TableOf(KeysInOrder(map), Cardinality(Known))
<1> DEFINE order == KeysInOrder(map)
           n == Cardinality(Known)
<1>1. KnownIn(map) = Known /\ IsFiniteSet(Known)
  BY KnownIsFinite
<1>2. Sorted(order, Known) /\ n \in Nat
  BY <1>1, KeysAreSorted
<1>3. DOMAIN order = 1 .. n /\ \A i \in 1 .. n : order[i] \in Known
  BY <1>2 DEF Sorted
<1>4. site = [i \in 1 .. n |-> EntrySite(order[i])]
  BY <1>3 DEF BuiltInv, SiteList, EntrySite
<1>5. \A i \in 1 .. n : site[i] = Documented(order[i])
  BY <1>3, <1>4, EntryIsDocumented
<1>6. Len(site) = n /\ DOMAIN site = 1 .. n
  <2>1. \A i \in 1 .. n : EntrySite(order[i]) \in RawSiteType
    BY <1>3, EntryIsDocumented
  <2>2. site \in [1 .. n -> RawSiteType]
    BY <1>4, <2>1
  <2> HIDE DEF n
  <2> QED
    BY <1>2, <2>2
<1>7. /\ DOMAIN siteByKey = Known
      /\ \A i \in 1 .. n : siteByKey[order[i]] = i
  BY <1>1, <1>3, KeyIndexCorrect DEF BuiltInv
<1>8. /\ DOMAIN siteByUrl = {k[1] : k \in Known}
      /\ \A u \in DOMAIN siteByUrl : StartsAt(order, u, siteByUrl[u])
  BY <1>1, UrlIndexCorrect DEF BuiltInv
<1> QED
  BY <1>2, <1>3, <1>5, <1>6, <1>7, <1>8 DEF TableOf

(* The sites of a URL are those from its start to where the next URL starts. *)
LEMMA RangeOfUrl ==
    ASSUME NEW order, NEW n, TableOf(order, n), NEW u \in DOMAIN siteByUrl
    PROVE  /\ EndOf(u) \in Nat
           /\ siteByUrl[u] \in 1 .. n
           /\ siteByUrl[u] < EndOf(u)
           /\ EndOf(u) <= n + 1
           /\ \A i \in 1 .. n : order[i][1] = u <=> siteByUrl[u] <= i /\ i < EndOf(u)
<1> DEFINE later == {v \in DOMAIN siteByUrl : v > u}
           s == siteByUrl[u]
<1>1. /\ n \in Nat
      /\ DOMAIN order = 1 .. n
      /\ Len(site) = n
      /\ \A i \in 1 .. n : order[i][1] \in Nat /\ order[i][1] \in DOMAIN siteByUrl
      /\ \A i, j \in 1 .. n : i < j => order[i][1] <= order[j][1]
      /\ \A i \in 1 .. n : order[i] \in Known
  <2>1. Known \in SUBSET Keys
    BY DEF Known
  <2> QED
    BY <2>1, UrlsAscend DEF TableOf, Sorted
<1>2. \A v \in DOMAIN siteByUrl : StartsAt(order, v, siteByUrl[v])
  BY DEF TableOf
<1>3. s \in 1 .. n /\ order[s][1] = u /\ u \in Nat /\ \A j \in 1 .. n : j < s => order[j][1] < u
  <2>1. StartsAt(order, u, s)
    BY <1>2
  <2> QED
    BY <1>1, <2>1 DEF StartsAt
<1>4. DOMAIN siteByUrl \subseteq Nat
  BY <1>1, <1>2 DEF StartsAt
<1>5. CASE later = {}
  <2>1. EndOf(u) = n + 1
    BY <1>1, <1>5 DEF EndOf
  <2>2. \A i \in 1 .. n : order[i][1] <= u
    BY <1>1, <1>3, <1>5
  <2>3. \A i \in 1 .. n : s <= i => order[i][1] = u
    BY <1>1, <1>3, <2>2
  <2> QED
    BY <1>1, <1>3, <2>1, <2>3
<1>6. CASE later # {}
  <2> DEFINE v == Min(later)
             e == siteByUrl[v]
  <2>1. v \in later /\ \A w \in later : v <= w
    <3>1. later \in SUBSET Nat
      BY <1>4
    <3> HIDE DEF later
    <3> QED
      BY <1>6, <3>1, MinIsLeast
  <2>2. EndOf(u) = e
    BY <1>6 DEF EndOf
  <2>3. v \in Nat /\ v > u /\ v \in DOMAIN siteByUrl
    BY <1>4, <2>1
  <2>4. \A w \in DOMAIN siteByUrl : w > u => v <= w
    BY <2>1
  <2> HIDE DEF v, later
  <2>5. e \in 1 .. n /\ order[e][1] = v /\ \A j \in 1 .. n : j < e => order[j][1] < v
    BY <1>1, <1>2, <2>3 DEF StartsAt
  <2>6. s < e
    BY <1>1, <1>3, <2>3, <2>5
  <2>7. ASSUME NEW i \in 1 .. n, s <= i, i < e
        PROVE  order[i][1] = u
    <3>1. order[i][1] < v /\ order[i][1] \in Nat /\ order[i][1] \in DOMAIN siteByUrl
      BY <1>1, <2>5, <2>7
    <3>2. ~ (order[i][1] > u)
      BY <2>3, <2>4, <3>1
    <3>3. u <= order[i][1]
      BY <1>1, <1>3, <2>7
    <3> QED
      BY <1>3, <3>1, <3>2, <3>3
  <2>8. ASSUME NEW i \in 1 .. n, order[i][1] = u
        PROVE  s <= i /\ i < e
    <3>1. ~ (i < s)
      BY <1>3, <2>8
    <3>2. ~ (e < i) /\ i # e
      BY <1>1, <1>3, <2>3, <2>5, <2>8
    <3> QED
      BY <1>1, <1>3, <2>5, <3>1, <3>2
  <2>9. e \in Nat /\ e <= n + 1
    BY <1>1, <2>5
  <2> QED
    BY <1>3, <2>2, <2>6, <2>7, <2>8, <2>9
<1> QED
  BY <1>5, <1>6

-----------------------------------------------------------------------------
(* What find_site answers *)

LEMMA EntriesOfUrl ==
    ASSUME NEW order, NEW n, TableOf(order, n), NEW u \in DOMAIN siteByUrl
    PROVE  /\ Entries(u) = {order[i] : i \in siteByUrl[u] .. EndOf(u) - 1}
           /\ Cardinality(Entries(u)) = EndOf(u) - siteByUrl[u]
           /\ \A i \in siteByUrl[u] .. EndOf(u) - 1 :
                 order[i] \in Entries(u) /\ site[i] = Documented(order[i])
<1> DEFINE s == siteByUrl[u]
           e == EndOf(u)
           I == s .. e - 1
           f == [i \in I |-> order[i]]
<1>1. /\ n \in Nat
      /\ s \in 1 .. n /\ e \in Nat /\ s < e /\ e <= n + 1
      /\ \A i \in 1 .. n : order[i][1] = u <=> s <= i /\ i < e
  BY RangeOfUrl DEF TableOf
<1>2. /\ \A i \in 1 .. n : order[i] \in Known /\ site[i] = Documented(order[i])
      /\ \A k \in Known : \E i \in 1 .. n : order[i] = k
      /\ \A i, j \in 1 .. n : i < j => Before(order[i], order[j])
  BY DEF TableOf, Sorted
<1>3. I \subseteq 1 .. n /\ \A i \in 1 .. n : order[i][1] = u <=> i \in I
  BY <1>1
<1>4. Cardinality(I) = e - s /\ IsFiniteSet(I)
  <2>1. s \in Int /\ e - 1 \in Int /\ ~ (s > e - 1)
    BY <1>1
  <2>2. /\ IsFiniteSet(s .. e - 1)
        /\ Cardinality(s .. e - 1) = IF s > e - 1 THEN 0 ELSE e - 1 - s + 1
    BY ONLY <2>1, FS_Interval
  <2> QED
    BY <1>1, <2>1, <2>2
<1> HIDE DEF I, s, e
<1>5. Entries(u) = {order[i] : i \in I}
  BY <1>2, <1>3 DEF Entries
<1>6. ASSUME NEW i \in I, NEW j \in I, order[i] = order[j]
      PROVE  i = j
  <2>1. i \in Nat /\ j \in Nat /\ order[i] \in Keys
    BY <1>2, <1>3 DEF Known
  <2>2. ~ (i < j) /\ ~ (j < i)
    BY <1>2, <1>3, <1>6, <2>1, KeysAreOrdered
  <2> QED
    BY <2>1, <2>2
<1>7. f \in Bijection(I, Entries(u))
  <2>1. f \in [I -> Entries(u)] /\ DOMAIN f = I
    BY <1>5
  <2>2. \A t \in Entries(u) : \E i \in I : f[i] = t
    BY <1>5
  <2>3. \A i, j \in I : f[i] = f[j] => i = j
    BY <1>6
  <2> HIDE DEF f
  <2> QED
    BY <2>1, <2>2, <2>3 DEF Bijection, Injection, IsInjective, Surjection
<1>8. Cardinality(Entries(u)) = Cardinality(I)
  <2> HIDE DEF f
  <2>1. ExistsBijection(I, Entries(u))
    BY <1>7 DEF ExistsBijection
  <2> QED
    BY <1>4, <2>1, FS_Bijection
<1> QED
  BY <1>2, <1>3, <1>4, <1>5, <1>8 DEF I, s, e

LEMMA FindSiteOfRaw ==
    ASSUME NEW url \in RawUrls, NormalOf[url] # InvalidUrl, NEW user
    PROVE  /\ \A s : FindSiteRaw(NormalOf[url], user) = Found(s) =>
                        FindSite(url, user) = Found(Resolved(s))
           /\ FindSiteRaw(NormalOf[url], user).kind # "site" =>
                        FindSite(url, user) = FindSiteRaw(NormalOf[url], user)
BY DEF FindSite, Found, Resolved

(* Every lookup is answered by the documented rules. *)
LEMMA LookupIsDocumented ==
    ASSUME NEW order, NEW n, TableOf(order, n), NEW url \in RawUrls, NEW user \in Users
    PROVE  Answers(FindSite(url, user), url, user)
<1> DEFINE u == NormalOf[url]
           exact == <<u, user>> \in Known
           plain == <<u, NoUser>> \in Known
           start == siteByUrl[u]
           raw == FindSiteRaw(u, user)
<1>1. /\ n \in Nat
      /\ \A i \in 1 .. n : order[i] \in Known /\ site[i] = Documented(order[i])
      /\ \A k \in Known : \E i \in 1 .. n : order[i] = k
      /\ \A i, j \in 1 .. n : i < j => Before(order[i], order[j])
      /\ DOMAIN siteByKey = Known
      /\ \A i \in 1 .. n : siteByKey[order[i]] = i
      /\ DOMAIN siteByUrl = {k[1] : k \in Known}
  BY DEF TableOf, Sorted
<1>2. /\ \A k \in Known : k = <<k[1], k[2]>> /\ k[1] # InvalidUrl /\ k[2] \in Users /\ k[2] \in Nat
      /\ \A k \in Known : Documented(k).username = k[2]
  <2>1. Users \subseteq Nat
    BY UserAssumption DEF Users, NoUser
  <2>2. \A k \in Keys : k = <<k[1], k[2]>> /\ k[1] # InvalidUrl /\ k[2] \in Users
    BY DEF Keys, NormalUrls
  <2> QED
    BY <2>1, <2>2 DEF Known, Documented
<1>3. Entries(u) # {} <=> u \in DOMAIN siteByUrl
  BY <1>1 DEF Entries
<1>4. exact \/ plain => Entries(u) # {} /\ u # InvalidUrl
  BY <1>2 DEF Entries
<1>5. ASSUME u = InvalidUrl
      PROVE  FindSite(url, user) = Failed("Site") /\ Entries(u) = {}
  BY <1>2, <1>5 DEF FindSite, Entries
<1>6. ASSUME exact
      PROVE  FindSite(url, user) = Found(Resolved(Documented(<<u, user>>)))
  <2>1. PICK i \in 1 .. n : order[i] = <<u, user>>
    BY <1>1, <1>6
  <2>2. raw = Found(site[i])
    BY <1>1, <1>6, <2>1 DEF FindSiteRaw
  <2> QED
    BY <1>1, <1>4, <1>6, <2>1, <2>2, FindSiteOfRaw
<1>7. ASSUME u \in DOMAIN siteByUrl
      PROVE  /\ start \in 1 .. n
             /\ order[start] \in Entries(u)
             /\ order[start] = <<u, site[start].username>>
             /\ site[start] = Documented(order[start])
             /\ plain <=> site[start].username = NoUser
             /\ Cardinality(Entries(u)) = EndOf(u) - start
             /\ EndOf(u) - start >= 1
             /\ EndOf(u) - start \in Nat
  <2>1. start \in 1 .. n /\ start < EndOf(u) /\ EndOf(u) \in Nat
    BY <1>1, <1>7, RangeOfUrl
  <2>2. start \in start .. EndOf(u) - 1
    BY <2>1
  <2>3. /\ order[start] \in Entries(u)
        /\ site[start] = Documented(order[start])
        /\ Cardinality(Entries(u)) = EndOf(u) - start
    BY <1>7, <2>2, EntriesOfUrl
  <2>4. order[start] \in Known /\ order[start][1] = u
    BY <2>3 DEF Entries
  <2>5. order[start] = <<u, site[start].username>>
    BY <1>2, <2>3, <2>4
  <2>6. ASSUME plain
        PROVE  site[start].username = NoUser
    <3>1. PICK i \in 1 .. n : order[i] = <<u, NoUser>>
      BY <1>1, <2>6
    <3>2. start <= i
      BY <1>7, <3>1, RangeOfUrl
    <3>3. start < i => Before(order[start], order[i])
      BY <1>1, <2>1
    <3>4. site[start].username \in Nat /\ u \in Nat
      BY <1>2, <2>3, <2>4, UrlAssumption
    <3>5. ~ (start < i)
      BY <2>5, <3>1, <3>3, <3>4 DEF Before, NoUser
    <3>6. start = i
      BY <2>1, <3>2, <3>5
    <3> QED
      BY <2>5, <3>1, <3>6
  <2> QED
    BY <2>1, <2>3, <2>4, <2>5, <2>6
<1>8. ASSUME u # InvalidUrl, Entries(u) = {}
      PROVE  FindSite(url, user) = Failed("UrlNotFound")
  <2>1. raw = Failed("UrlNotFound")
    BY <1>1, <1>3, <1>4, <1>8 DEF FindSiteRaw
  <2>2. raw.kind # "site"
    BY <2>1 DEF Failed
  <2> QED
    BY <1>8, <2>1, <2>2, FindSiteOfRaw
<1>9. ASSUME plain, ~ exact
      PROVE  FindSite(url, user) =
                Found(Resolved([Documented(<<u, NoUser>>) EXCEPT !.username = user]))
  <2>1. u \in DOMAIN siteByUrl /\ u # InvalidUrl /\ user # NoUser
    BY <1>3, <1>4, <1>9
  <2>2. site[start].username = NoUser /\ site[start] = Documented(<<u, NoUser>>)
    BY <1>7, <1>9, <2>1
  <2>3. raw = Found([site[start] EXCEPT !.username = user])
    BY <1>1, <1>9, <2>1, <2>2 DEF FindSiteRaw
  <2> QED
    BY <2>1, <2>2, <2>3, FindSiteOfRaw
<1>10. ASSUME Entries(u) # {}, user # NoUser, ~ plain, ~ exact
       PROVE  FindSite(url, user) = Failed("UsernameNotFound")
  <2>1. u \in DOMAIN siteByUrl /\ u # InvalidUrl
    BY <1>3, <1>5, <1>10
  <2>2. site[start].username # NoUser
    BY <1>7, <1>10, <2>1
  <2>3. raw = Failed("UsernameNotFound")
    BY <1>1, <1>10, <2>1, <2>2 DEF FindSiteRaw
  <2>4. raw.kind # "site"
    BY <2>3 DEF Failed
  <2> QED
    BY <2>1, <2>3, <2>4, FindSiteOfRaw
<1>11. ASSUME user = NoUser, Cardinality(Entries(u)) = 1, Entries(u) # {}
       PROVE  \E k \in Entries(u) : FindSite(url, user) = Found(Resolved(Documented(k)))
  <2>1. u \in DOMAIN siteByUrl /\ u # InvalidUrl
    BY <1>3, <1>5, <1>11
  <2>2. CASE plain
    BY <1>6, <1>11, <2>2 DEF Entries
  <2>3. CASE ~ plain
    <3>1. EndOf(u) - start = 1
      BY <1>7, <1>11, <2>1
    <3>2. raw = Found(site[start])
      BY <1>1, <1>11, <2>1, <2>3, <3>1 DEF FindSiteRaw
    <3> QED
      BY <1>7, <2>1, <3>2, FindSiteOfRaw
  <2> QED
    BY <2>2, <2>3
<1>12. ASSUME user = NoUser, ~ plain, Cardinality(Entries(u)) > 1, Entries(u) # {}
       PROVE  /\ FindSite(url, user).kind = "MultipleChoices"
              /\ {FindSite(url, user).names[i] : i \in DOMAIN FindSite(url, user).names} =
                    {k[2] : k \in Entries(u)}
              /\ Len(FindSite(url, user).names) = Cardinality(Entries(u))
  <2> DEFINE c == EndOf(u) - start
             names == [i \in 1 .. c |-> site[start + i - 1].username]
  <2>1. u \in DOMAIN siteByUrl /\ u # InvalidUrl
    BY <1>3, <1>5, <1>12
  <2>2. c \in Nat /\ c # 1 /\ c = Cardinality(Entries(u)) /\ start \in Nat
    BY <1>7, <1>12, <2>1
  <2>3. raw = [kind |-> "MultipleChoices", names |-> names]
    BY <1>1, <1>12, <2>1, <2>2 DEF FindSiteRaw
  <2>4. FindSite(url, user) = raw
    BY <2>1, <2>3, FindSiteOfRaw
  <2>5. EndOf(u) \in Nat
    BY <2>1, RangeOfUrl
  <2>6. ASSUME NEW i \in 1 .. c
        PROVE  /\ start + i - 1 \in start .. EndOf(u) - 1
               /\ order[start + i - 1] \in Entries(u)
               /\ names[i] = order[start + i - 1][2]
    <3>1. start + i - 1 \in start .. EndOf(u) - 1
      BY <2>2, <2>5
    <3>2. /\ order[start + i - 1] \in Entries(u)
          /\ site[start + i - 1] = Documented(order[start + i - 1])
      BY <2>1, <3>1, EntriesOfUrl
    <3>3. names[i] = site[start + i - 1].username
      OBVIOUS
    <3> QED
      BY <1>2, <3>1, <3>2, <3>3 DEF Entries
  <2>7. ASSUME NEW k \in Entries(u)
        PROVE  \E i \in 1 .. c : names[i] = k[2]
    <3>1. PICK j \in start .. EndOf(u) - 1 : order[j] = k
      BY <2>1, EntriesOfUrl
    <3>2. j - start + 1 \in 1 .. c /\ start + (j - start + 1) - 1 = j
      BY <2>2, <2>5, <3>1
    <3> HIDE DEF names, c
    <3> QED
      BY <2>6, <3>1, <3>2
  <2>8. DOMAIN names = 1 .. c
    OBVIOUS
  <2>9. Len(names) = c
    <3>1. \A i \in 1 .. c : names[i] \in Users
      BY <1>2, <2>6 DEF Entries
    <3>2. names \in [1 .. c -> Users]
      BY <3>1
    <3> HIDE DEF names, c
    <3> QED
      BY <2>2, <3>2
  <2> HIDE DEF names, c, raw
  <2>10. FindSite(url, user).kind = "MultipleChoices" /\ FindSite(url, user).names = names
    BY <2>3, <2>4
  <2>11. \A i \in DOMAIN names : \E k \in Entries(u) : names[i] = k[2]
    BY <2>6, <2>8
  <2>12. \A k \in Entries(u) : \E i \in DOMAIN names : names[i] = k[2]
    BY <2>7, <2>8
  <2>13. {names[i] : i \in DOMAIN names} = {k[2] : k \in Entries(u)}
    BY <2>11, <2>12
  <2> QED
    BY <2>2, <2>9, <2>10, <2>13
<1>13. Cardinality(Entries(u)) = 1 \/ Cardinality(Entries(u)) > 1 => Entries(u) # {}
  BY FS_EmptySet
<1> HIDE DEF start, raw
<1> QED
  BY <1>5, <1>6, <1>8, <1>9, <1>10, <1>11, <1>12, <1>13, Zenon DEF Answers

-----------------------------------------------------------------------------
(* The theorems *)

(* The indexes are made once, from the map. *)
LEMMA BuiltStep ==
    BuiltInv /\ [Next]_vars => BuiltInv'
<1> SUFFICES ASSUME BuiltInv, [Next]_vars
             PROVE  BuiltInv'
  OBVIOUS
<1>1. ASSUME NEW r \in RawSites, RejectUrl(r) \/ InsertSite(r) \/ MergeSite(r) \/ DataConflict(r)
      PROVE  BuiltInv'
  <2>1. stage = "merging" /\ stage' # "built" /\ UNCHANGED tableVars
    BY <1>1 DEF RejectUrl, InsertSite, MergeSite, DataConflict, Consume
  <2> QED
    BY <2>1 DEF BuiltInv, tableVars
<1>2. CASE Build
  BY <1>2 DEF Build, BuiltInv
<1>3. CASE UNCHANGED vars
  <2>1. UNCHANGED <<map, stage, site, siteByUrl, siteByKey>>
    BY <1>3 DEF vars
  <2>2. SiteList(map)' = SiteList(map) /\ UrlIndex(map)' = UrlIndex(map)
                                       /\ KeyIndex(map)' = KeyIndex(map)
    BY <2>1 DEF SiteList, UrlIndex, KeyIndex, KeysInOrder, Before
  <2> QED
    BY <2>1, <2>2 DEF BuiltInv
<1> QED
  BY <1>1, <1>2, <1>3 DEF Next

TableInv == Merged /\ BuiltInv

LEMMA TableInit == Init => TableInv
<1>1. Init => MergeTypeOK
  BY BoundAssumption DEF Init, MergeTypeOK, Stages
<1> QED
  BY <1>1 DEF Init, TableInv, Merged, KeptInv, DataInv, LastInv, BuiltInv

LEMMA TableStep == TableInv /\ [Next]_vars => TableInv'
BY MergeTypeStep, MergeStep, DataStep, LastStep, BuiltStep DEF TableInv, Merged

LEMMA BuiltCorrect == Spec => [](Merged /\ BuiltInv)
<1>1. TableInv <=> Merged /\ BuiltInv
  BY DEF TableInv
<1> QED
  BY <1>1, TableInit, TableStep, PTL DEF Spec

(* What the documented entries say, told from the raw sites. *)
LEMMA EntriesTell ==
    ASSUME TableInv, stage = "built"
    PROVE  /\ IsFiniteSet(Known)
           /\ Known \subseteq Keys
           /\ \A i \in DOMAIN seen : NormalOf[seen[i].url] # InvalidUrl /\ KeyOf(seen[i]) \in Known
           /\ \A k \in Known :
                /\ Documented(k).username = k[2]
                /\ Documented(k).increment \in Nat
                /\ \A i \in DOMAIN seen :
                      KeyOf(seen[i]) = k => seen[i].increment <= Documented(k).increment
                /\ \E i \in DOMAIN seen :
                      KeyOf(seen[i]) = k /\ seen[i].increment = Documented(k).increment
                /\ \/ /\ Documented(k).schema = None
                      /\ \A i \in DOMAIN seen : KeyOf(seen[i]) = k => seen[i].schema = None
                   \/ /\ Documented(k).schema # None
                      /\ \E i \in DOMAIN seen :
                            KeyOf(seen[i]) = k /\ seen[i].schema = Documented(k).schema
           /\ \A i, j \in DOMAIN seen :
                KeyOf(seen[i]) = KeyOf(seen[j]) =>
                    None \in {seen[i].data, seen[j].data} \/ seen[i].data = seen[j].data
<1>1. Merged /\ seen \in Seq(RawSites)
  BY DEF TableInv, Merged, MergeTypeOK
<1>2. IsFiniteSet(Known) /\ Known \subseteq Keys
  BY <1>1, KnownIsFinite DEF Known
<1>3. ASSUME NEW i \in DOMAIN seen
      PROVE  NormalOf[seen[i].url] # InvalidUrl /\ KeyOf(seen[i]) \in Known
  <2>1. NormalOf[seen[i].url] # InvalidUrl /\ seen[i] \in RawSites
    BY <1>1 DEF Merged, KeptInv
  <2>2. KeyOf(seen[i]) \in Keys /\ i \in Given(KeyOf(seen[i]))
    BY <2>1, KeyOfIsKey DEF Given
  <2> QED
    BY <2>1, <2>2 DEF Known
<1>4. ASSUME NEW k \in Known
      PROVE  /\ map[k] # None /\ map[k].increment \in Nat
             /\ Documented(k) = EntrySite(k)
  <2>1. k \in Keys
    BY DEF Known
  <2>2. map[k] # None /\ map[k] \in EntryType
    BY <1>1, <2>1, GivenIs
  <2> QED
    BY <1>1, <2>2, EntryIsDocumented DEF EntryType
<1>5. ASSUME NEW k \in Known
      PROVE  /\ Documented(k).username = k[2]
             /\ Documented(k).schema = map[k].schema
             /\ Documented(k).increment = map[k].increment
  BY <1>4 DEF EntrySite
<1>6. ASSUME NEW k \in Known
      PROVE  /\ \A i \in DOMAIN seen :
                   KeyOf(seen[i]) = k => seen[i].increment <= map[k].increment
             /\ \E i \in DOMAIN seen :
                   KeyOf(seen[i]) = k /\ seen[i].increment = map[k].increment
             /\ \/ /\ map[k].schema = None
                   /\ \A i \in DOMAIN seen : KeyOf(seen[i]) = k => seen[i].schema = None
                \/ /\ map[k].schema # None
                   /\ \E i \in DOMAIN seen :
                         KeyOf(seen[i]) = k /\ seen[i].schema = map[k].schema
  <2>1. k \in Keys /\ map[k] # None
    BY <1>4 DEF Known
  <2> QED
    BY <1>1, <2>1 DEF Merged, KeptInv
<1>7. ASSUME NEW i \in DOMAIN seen, NEW j \in DOMAIN seen, KeyOf(seen[i]) = KeyOf(seen[j])
      PROVE  None \in {seen[i].data, seen[j].data} \/ seen[i].data = seen[j].data
  <2>1. KeyOf(seen[i]) \in Keys /\ map[KeyOf(seen[i])] # None
    BY <1>3, <1>4 DEF Known
  <2>2. DataOfKey(map, seen, KeyOf(seen[i]))
    BY <1>1, <2>1 DEF Merged, DataInv
  <2> QED
    BY <1>7, <2>2 DEF DataOfKey
<1> QED
  BY <1>2, <1>3, <1>4, <1>5, <1>6, <1>7

LEMMA TypeFromTable ==
    ASSUME Merged, BuiltInv
    PROVE  TypeOK
<1>1. CASE stage # "built"
  BY <1>1 DEF BuiltInv, TypeOK, IndexTypeOK, Merged
<1>2. CASE stage = "built"
  <2> DEFINE order == KeysInOrder(map)
             n == Cardinality(Known)
  <2>1. TableOf(order, n)
    BY <1>2, BuiltTable
  <2>2. /\ \A k \in Known : Documented(k) \in RawSiteType
        /\ \A k \in Known : k \in Keys /\ k[1] \in NormalUrls
    BY <1>2, EntryIsDocumented DEF Known, Keys
  <2> HIDE DEF order, n
  <2>3. \A i \in DOMAIN site : site[i] \in RawSiteType
    BY <2>1, <2>2 DEF TableOf, Sorted
  <2>4. \A u \in DOMAIN siteByUrl : u \in NormalUrls /\ siteByUrl[u] \in DOMAIN site
    BY <2>1, <2>2, RangeOfUrl DEF TableOf
  <2>5. \A k \in DOMAIN siteByKey : k \in Keys /\ siteByKey[k] \in DOMAIN site
    BY <2>1, <2>2 DEF TableOf, Sorted
  <2> QED
    BY <2>3, <2>4, <2>5 DEF TypeOK, IndexTypeOK, Merged
<1> QED
  BY <1>1, <1>2

(* The list of sites holds sites, and both indexes point into it. *)
THEOREM TypeCorrect == Spec => []TypeOK
BY BuiltCorrect, TypeFromTable, PTL

LEMMA BuiltIsDocumented == TableInv => LookupsAreDocumented
BY BuiltTable, LookupIsDocumented DEF LookupsAreDocumented, TableInv

(* find_site answers every URL and username by its documented rules, however *)
(* many files gave however many sites.                                       *)
THEOREM LookupsAreDocumentedCorrect == Spec => []LookupsAreDocumented
BY BuiltIsDocumented, TableInit, TableStep, PTL DEF Spec

LEMMA ExactLookup ==
    ASSUME Merged, BuiltInv, stage = "built",
           NEW k \in Known, NEW url \in RawUrls, NormalOf[url] = k[1]
    PROVE  FindSite(url, k[2]) = Found(Resolved(Documented(k)))
<1>1. k[2] \in Users /\ <<k[1], k[2]>> = k
  BY DEF Known, Keys
<1>2. Answers(FindSite(url, k[2]), url, k[2])
  BY <1>1, BuiltTable, LookupIsDocumented
<1> QED
  BY <1>1, <1>2 DEF Answers

(* A URL offered for completion is found again, alone or with a username the *)
(* ambiguity error names.                                                    *)
THEOREM PrintedSitesAreFoundCorrect == Spec => []PrintedSitesAreFound
<1>1. Merged /\ BuiltInv => PrintedSitesAreFound
  <2> SUFFICES ASSUME Merged, BuiltInv, stage = "built", NEW i \in DOMAIN site
               PROVE  /\ FindSite(site[i].url, NoUser).kind \in {"site", "MultipleChoices"}
                      /\ FindSite(site[i].url, site[i].username).kind = "site"
                      /\ FindSite(site[i].url, site[i].username).site.username =
                            site[i].username
                      /\ FindSite(site[i].url, site[i].username).site.increment =
                            site[i].increment
    BY DEF PrintedSitesAreFound
  <2>1. TableOf(KeysInOrder(map), Cardinality(Known))
    BY BuiltTable
  <2>2. PICK k \in Known : site[i] = Documented(k)
    BY <2>1 DEF TableOf, Sorted
  <2>3. Documented(k) = EntrySite(k) /\ EntrySite(k) \in RawSiteType
        /\ NormalOf[map[k].url] = k[1]
    BY EntryIsDocumented
  <2>4. /\ site[i].url \in RawUrls
        /\ NormalOf[site[i].url] = k[1]
        /\ site[i].username = k[2]
    BY <2>2, <2>3 DEF EntrySite, RawSiteType
  <2>5. FindSite(site[i].url, site[i].username) = Found(Resolved(site[i]))
    BY <2>2, <2>4, ExactLookup
  <2>6. /\ Resolved(site[i]).username = site[i].username
        /\ Resolved(site[i]).increment = site[i].increment
    BY <2>2, <2>3 DEF Resolved, RawSiteType
  <2>7. FindSite(site[i].url, NoUser).kind \in {"site", "MultipleChoices"}
    <3> DEFINE u == k[1]
               answer == FindSite(site[i].url, NoUser)
    <3>1. NoUser \in Users
      BY DEF Users
    <3>2. Answers(answer, site[i].url, NoUser)
      BY <2>1, <2>4, <3>1, LookupIsDocumented
    <3>3. Cardinality(Entries(u)) = 1 \/ Cardinality(Entries(u)) > 1
      <4>1. k \in Entries(u) /\ Entries(u) \subseteq Known
        BY DEF Entries
      <4>2. IsFiniteSet(Entries(u)) /\ Cardinality(Entries(u)) \in Nat
        BY <4>1, KnownIsFinite, FS_Subset, FS_CardinalityType
      <4>3. Cardinality(Entries(u)) # 0
        BY <4>1, <4>2, FS_EmptySet
      <4> QED
        BY <4>2, <4>3
    <3>4. \/ answer.kind = "MultipleChoices"
          \/ \E s : answer = Found(s)
      <4> HIDE DEF answer
      <4> QED
        BY <2>4, <3>2, <3>3 DEF Answers
    <3>5. \A s : Found(s).kind = "site"
      BY DEF Found
    <3> HIDE DEF answer
    <3>6. answer.kind = "MultipleChoices" \/ answer.kind = "site"
      BY <3>4, <3>5
    <3> QED
      BY <3>6 DEF answer
  <2> QED
    BY <2>5, <2>6, <2>7 DEF Found
<1> QED
  BY <1>1, BuiltCorrect, PTL

(* With a schema on the command line, the order in which files gave the raw  *)
(* sites decides nothing: a password rests on the URL, the username and the  *)
(* greatest increment given.                                                 *)
THEOREM OrderOnlyMovesSchemasCorrect == Spec => []OrderOnlyMovesSchemas
<1>1. Merged /\ BuiltInv => OrderOnlyMovesSchemas
  <2> SUFFICES ASSUME Merged, BuiltInv, stage = "built",
                      NEW url \in RawUrls, NEW k \in Known, NEW schema \in Texts,
                      NormalOf[url] = k[1]
               PROVE  \/ /\ LookupSite(url, Overridden(k[2], schema)) = Failed("data")
                         /\ \E i \in Given(k) : seen[i].data # None
                      \/ /\ \A i \in Given(k) : seen[i].data = None
                         /\ LookupSite(url, Overridden(k[2], schema)) =
                            Found([url |-> k[1], username |-> k[2],
                                   schema |-> ResolveSchema(schema),
                                   increment |-> Max({seen[i].increment : i \in Given(k)})])
    BY DEF OrderOnlyMovesSchemas
  <2> DEFINE s == Resolved(Documented(k))
             args == Overridden(k[2], schema)
  <2>1. FindSite(url, args.username) = Found(s) /\ args.schema = schema
                                                /\ args.increment = NoIncrement
    BY ExactLookup DEF Overridden
  <2>2. Documented(k) = EntrySite(k) /\ NormalOf[map[k].url] = k[1]
    BY EntryIsDocumented
  <2>3. /\ s.url = map[k].url
        /\ s.username = k[2]
        /\ s.increment = Max({seen[i].increment : i \in Given(k)})
        /\ s.data = map[k].data
    <3>1. Documented(k).increment = Max({seen[i].increment : i \in Given(k)})
      BY DEF Documented
    <3> QED
      BY <2>2, <3>1 DEF Resolved, EntrySite
  <2>4. schema # None /\ ResolveSchema(schema) # None
    <3>1. global \in Globals
      BY DEF Merged, MergeTypeOK
    <3>2. ResolveSchema(schema) \in Texts
      BY <3>1, GlobalAssumption DEF ResolveSchema
    <3> QED
      BY <3>2, TextAssumption
  <2>5. /\ \A i \in Given(k) : seen[i].data \in {None, map[k].data}
        /\ map[k].data # None => \E i \in Given(k) : seen[i].data = map[k].data
    <3>1. k \in Keys /\ map[k] # None /\ Given(k) = {i \in DOMAIN seen : KeyOf(seen[i]) = k}
      BY GivenIs DEF Known
    <3> QED
      BY <3>1 DEF Merged, DataInv, DataOfKey
  <2> HIDE DEF s, args
  <2>6. CASE map[k].data # None
    <3>1. LookupSite(url, args) = Failed("data")
      BY <2>1, <2>3, <2>6 DEF LookupSite, Found
    <3> QED
      BY <2>5, <2>6, <3>1 DEF args
  <2>7. CASE map[k].data = None
    <3>1. LookupSite(url, args) =
            Found([url |-> k[1], username |-> k[2], schema |-> ResolveSchema(schema),
                   increment |-> s.increment])
      BY <2>1, <2>2, <2>3, <2>4, <2>7 DEF LookupSite, Found
    <3> QED
      BY <2>3, <2>5, <2>7, <3>1 DEF args
  <2> QED
    BY <2>6, <2>7
<1> QED
  BY <1>1, BuiltCorrect, PTL
=============================================================================
