----------------------- MODULE CloudDiskCountsProofs -----------------------
(***************************************************************************)
(* Proofs about the counts CloudDisk keeps in file_info and                *)
(* user_file_count, for any number of users, files and requests, while     *)
(* exchanges do not overlap, pages are not out of date and no program is   *)
(* killed.  When two requests overlap, the run cloud_disk_race shows, a    *)
(* count is lost.                                                          *)
(***************************************************************************)
EXTENDS CloudDiskProofs, FiniteSetTheorems

OneAtATime == Sessions = 1 /\ ~Stale /\ MaxKills = 0 /\ IsFiniteSet(Users) /\ IsFiniteSet(Files)
-----------------------------------------------------------------------------
(* The invariant.  Program p is the only one that may be at work. *)

At(p, places) == run[p].at \in places

\* A reference that file_info counts and no row of a list is there for, not yet or no more.
InFlight(p) == At(p, {"row"}) \/ (p = "dealfile" /\ At(p, {"ref", "ref-1"}))

\* The row of file_info is there, with a count of 0.
Discarding(p) == p = "dealfile" /\ At(p, {"file_id", "del info"})

Counts(p, m) == References(m) + (IF InFlight(p) /\ Md5(p) = m THEN 1 ELSE 0)

RefsAgree(p) ==
    \A m \in Md5s :
        IF Counts(p, m) = 0 /\ ~(Discarding(p) /\ Md5(p) = m) THEN file_info[m] = <<>>
        ELSE Len(file_info[m]) = 1 /\ file_info[m][1].count = Counts(p, m)

\* A row of the user's list that the user's count leaves out, not yet or no more.
Uncounted(p) == IF p = "dealfile" THEN At(p, {"del row"}) ELSE At(p, {"count", "count+1"})

CountRow(n) == IF n = 0 THEN <<>> ELSE <<n>>

UsersAgree(p) ==
    \A u \in Users :
        user_file_count[u] = CountRow(RowsOf(u) - (IF Uncounted(p) /\ User(p) = u THEN 1 ELSE 0))

\* How far the number of shared files may be above the shares there are.
Slack(p) ==
    IF p = "dealfile" /\ At(p, {"count", "count+1"}) THEN 0 - 1
    ELSE IF p = "dealfile" /\ At(p, {"shares", "shares-1"}) THEN 1
    ELSE IF p = "dealsharefile" /\ At(p, {"unshare"}) THEN 0 - 1
    ELSE 0

SharesBounded(p) ==
    \A k \in DOMAIN user_file_count[SHARE_COUNT] :
        user_file_count[SHARE_COUNT][k] <= Cardinality(ShareRows) + Slack(p)

NamedIds == {file_info[m][1].file_id : m \in {x \in Md5s : file_info[x] # <<>>}}

\* A file that is stored and has no row, not yet or no more.
Loose(p) == (p = "upload" /\ At(p, {"info"})) \/ (p = "dealfile" /\ At(p, {"del storage"}))

StorageAgrees(p) == storage = NamedIds \cup (IF Loose(p) THEN {run[p].file_id} ELSE {})

\* What a request has read and relies on: that the user's list has the file or has not, ...
HasNot(p) == \/ At(p, {"ref+1", "row"})
             \/ p = "dealsharefile" /\ At(p, {"ref"})
Has(p) == IF p = "dealfile"
          THEN At(p, {"del", "status?", "unshare", "shares", "shares-1", "zrem", "hdel",
                      "files", "files-1", "del row"})
          ELSE At(p, {"count", "count+1"})
KnowsList(p) == /\ HasNot(p) => user_file_list[Row(p)] = <<>>
                /\ Has(p) => user_file_list[Row(p)] # <<>>

\* ... that its user shares the file, ...
Shares(p) == \/ p = "dealfile" /\ At(p, {"count", "count+1"})
             \/ p = "dealsharefile" /\ At(p, {"cancel", "shares", "shares-1", "unshare"})
KnowsShare(p) == Shares(p) => share_file_list[Row(p)] > 0

\* ... the count, ...
KnowsCount(p) ==
    /\ At(p, {"own", "ref+1", "ref-1"}) => run[p].seen = RefCount(Md5(p))
    /\ At(p, {"count+1"}) => run[p].seen = user_file_count[Owner(p)]
    /\ At(p, {"shares-1"}) => run[p].seen = user_file_count[SHARE_COUNT]
    /\ At(p, {"files-1"}) => run[p].seen = user_file_count[User(p)]

\* ... and that the server does not have the file, or that nobody refers to it and which
\* file is to go.
KnowsInfo(p) ==
    /\ p = "upload" /\ At(p, {"upload", "info"}) => file_info[Md5(p)] = <<>>
    /\ \A r \in pending : file_info[md5[r[2]]] = <<>>
    /\ p = "dealfile" /\ At(p, {"file_id", "del info", "del storage"}) => References(Md5(p)) = 0
    /\ p = "dealfile" /\ At(p, {"del info"}) => run[p].file_id = file_info[Md5(p)][1].file_id

\* Nobody else is at work, and a browser that will upload is alone.
Alone(p) ==
    /\ \A q \in Programs : q # p => run[q].at = "idle"
    /\ pending # {} => run[p].at = "idle"
    /\ \A r, s \in pending : r = s

\* The place of p is one of its own program.
Course(p) ==
    CASE p = "md5" -> At(p, {"idle", "md5", "own", "ref+1", "row", "count", "count+1"})
      [] p = "upload" -> At(p, {"idle", "upload", "info", "row", "count", "count+1"})
      [] p = "dealfile" -> At(p, {"idle", "share", "shared?", "zadd again", "status", "share row",
                                  "count", "count+1", "zadd", "hset", "del", "status?", "unshare",
                                  "shares", "shares-1", "zrem", "hdel", "files", "files-1", "del row",
                                  "ref", "ref-1", "file_id", "del info", "del storage"})
      [] p = "dealsharefile" -> At(p, {"idle", "cancel", "shares", "shares-1", "unshare", "zrem",
                                       "hdel", "save", "ref", "ref+1", "row", "count", "count+1",
                                       "pv", "exit", "zincrby", "zadd", "hset"})
      [] OTHER -> At(p, {"idle", "ranking", "zcard", "del zset", "del hash", "list", "zadd", "hset"})

OneRow == \A r \in Users \X Files : Len(user_file_list[r]) <= 1

Tells(p) == /\ Alone(p) /\ Course(p)
            /\ RefsAgree(p) /\ UsersAgree(p) /\ SharesBounded(p) /\ StorageAgrees(p)
            /\ KnowsList(p) /\ KnowsShare(p) /\ KnowsCount(p) /\ KnowsInfo(p)

CountsInv == IInv /\ OneRow /\ \E p \in Programs : Tells(p)

-----------------------------------------------------------------------------
(* Counting rows *)

LEMMA ListsType ==
    ASSUME IInv, NEW r \in Users \X Files
    PROVE  user_file_list[r] \in Seq({0, 1}) /\ Len(user_file_list[r]) \in Nat
           /\ share_file_list[r] \in Nat
<1>1. user_file_list[r] \in Seq({0, 1}) /\ share_file_list[r] \in Nat
  BY DEF IInv, TypeOK
<1>. QED  BY <1>1

\* Lists of at most one row for a user and a file: a set of rows is a set of pairs.
Lists == {l \in [Users \X Files -> Seq({0, 1})] : \A r \in Users \X Files : Len(l[r]) <= 1}
Pairs(l, S) == {r \in S : l[r] # <<>>} \X {1}

LEMMA RowPairs ==
    ASSUME NEW l \in Lists, NEW S \in SUBSET (Users \X Files)
    PROVE  UNION {{r} \X DOMAIN l[r] : r \in S} = Pairs(l, S)
<1>1. ASSUME NEW r \in S
      PROVE  DOMAIN l[r] = IF l[r] = <<>> THEN {} ELSE {1}
  <2>1. l[r] \in Seq({0, 1}) /\ Len(l[r]) <= 1
    BY DEF Lists
  <2>2. Len(l[r]) \in Nat /\ DOMAIN l[r] = 1..Len(l[r])
    BY <2>1
  <2>3. CASE Len(l[r]) = 0
    BY <2>1, <2>3
  <2>4. CASE Len(l[r]) = 1
    <3>1. DOMAIN l[r] = {1}
      BY <2>2, <2>4
    <3>2. Len(<<>>) = 0
      OBVIOUS
    <3>3. l[r] # <<>>
      BY <2>4, <3>2
    <3>. QED  BY <3>1, <3>3
  <2>5. Len(l[r]) = 0 \/ Len(l[r]) = 1
    <3>1. \A n \in Nat : n <= 1 => n = 0 \/ n = 1
      OBVIOUS
    <3>. QED  BY ONLY <2>1, <2>2, <3>1
  <2>. QED  BY <2>3, <2>4, <2>5
<1>2. ASSUME NEW x \in UNION {{r} \X DOMAIN l[r] : r \in S} PROVE x \in Pairs(l, S)
  <2>1. PICK r \in S : x \in {r} \X DOMAIN l[r]
    OBVIOUS
  <2>. QED  BY <1>1, <2>1 DEF Pairs
<1>3. ASSUME NEW x \in Pairs(l, S) PROVE x \in UNION {{r} \X DOMAIN l[r] : r \in S}
  <2>1. x[1] \in S /\ x \in {x[1]} \X DOMAIN l[x[1]]
    BY <1>1 DEF Pairs
  <2>. QED  BY <2>1
<1>. QED  BY <1>2, <1>3

LEMMA ListIsList == ASSUME IInv, OneRow PROVE user_file_list \in Lists
BY DEF IInv, TypeOK, OneRow, Lists

LEMMA ListRowsPairs ==
    ASSUME user_file_list \in Lists, NEW S \in SUBSET (Users \X Files)
    PROVE  ListRows(S) = Pairs(user_file_list, S)
BY RowPairs DEF ListRows

LEMMA ListRowsPairsNext ==
    ASSUME (user_file_list \in Lists)', NEW S \in SUBSET (Users \X Files)
    PROVE  ListRows(S)' = Pairs(user_file_list', S)
BY RowPairs DEF ListRows, Lists

\* Shares of which there is one at most.
ShareMaps == [Users \X Files -> {0, 1}]
SharePairsOf(s) == {r \in Users \X Files : s[r] = 1} \X {1}

LEMMA SharePairs ==
    ASSUME NEW s \in ShareMaps
    PROVE  UNION {{r} \X (1..s[r]) : r \in Users \X Files} = SharePairsOf(s)
<1>1. 1..0 = {} /\ 1..1 = {1}
  OBVIOUS
<1>2. ASSUME NEW r \in Users \X Files PROVE 1..s[r] = IF s[r] = 1 THEN {1} ELSE {}
  <2>1. s[r] \in {0, 1}
    BY DEF ShareMaps
  <2>. QED  BY <1>1, <2>1
<1>3. ASSUME NEW x \in UNION {{r} \X (1..s[r]) : r \in Users \X Files} PROVE x \in SharePairsOf(s)
  <2>1. PICK r \in Users \X Files : x \in {r} \X (1..s[r])
    OBVIOUS
  <2>. QED  BY <1>2, <2>1 DEF SharePairsOf
<1>4. ASSUME NEW x \in SharePairsOf(s) PROVE x \in UNION {{r} \X (1..s[r]) : r \in Users \X Files}
  <2>1. x[1] \in Users \X Files /\ x \in {x[1]} \X (1..s[x[1]])
    BY <1>2 DEF SharePairsOf
  <2>. QED  BY <2>1
<1>. QED  BY <1>3, <1>4

LEMMA SharesAreMap == ASSUME IInv PROVE share_file_list \in ShareMaps
<1>1. ASSUME NEW r \in Users \X Files PROVE share_file_list[r] \in {0, 1}
  <2>1. PICK u \in Users, f \in Files : r = <<u, f>>
    OBVIOUS
  <2>2. share_file_list[r] \in Nat /\ share_file_list[r] <= 1
    BY <2>1 DEF IInv, TypeOK, ShareInv, UniqueSharer
  <2>. QED  BY <2>2
<1>. QED  BY <1>1 DEF IInv, TypeOK, ShareMaps

LEMMA FinitePairs ==
    ASSUME OneAtATime, NEW S \in SUBSET (Users \X Files)
    PROVE  IsFiniteSet(S \X {1})
<1>1. IsFiniteSet(Users \X Files)
  BY FS_Product DEF OneAtATime
<1>2. IsFiniteSet(S) /\ IsFiniteSet({1})
  BY <1>1, FS_Subset, FS_Singleton
<1>. QED  BY <1>2, FS_Product

LEMMA FiniteRows ==
    ASSUME OneAtATime, IInv, OneRow, NEW S \in SUBSET (Users \X Files)
    PROVE  IsFiniteSet(ListRows(S)) /\ Cardinality(ListRows(S)) \in Nat
<1>1. IsFiniteSet(ListRows(S))
  <2>1. {r \in S : user_file_list[r] # <<>>} \in SUBSET (Users \X Files)
    OBVIOUS
  <2>. QED  BY <2>1, ListIsList, ListRowsPairs, FinitePairs DEF Pairs
<1>. QED  BY <1>1, FS_CardinalityType

LEMMA FiniteShares ==
    ASSUME OneAtATime, IInv
    PROVE  IsFiniteSet(ShareRows) /\ Cardinality(ShareRows) \in Nat
<1>1. IsFiniteSet(ShareRows)
  <2>1. {r \in Users \X Files : share_file_list[r] = 1} \in SUBSET (Users \X Files)
    OBVIOUS
  <2>. QED  BY <2>1, SharesAreMap, SharePairs, FinitePairs DEF SharePairsOf, ShareRows
<1>. QED  BY <1>1, FS_CardinalityType

OfUser(u) == {u} \X Files
OfMd5(m) == Users \X {f \in Files : md5[f] = m}

LEMMA CountsAreRows ==
    /\ \A u \in Users : RowsOf(u) = Cardinality(ListRows(OfUser(u))) /\ OfUser(u) \in SUBSET (Users \X Files)
    /\ \A m : References(m) = Cardinality(ListRows(OfMd5(m))) /\ OfMd5(m) \in SUBSET (Users \X Files)
BY DEF RowsOf, References, OfUser, OfMd5

LEMMA CountsType ==
    ASSUME OneAtATime, IInv, OneRow
    PROVE  /\ \A u \in Users : RowsOf(u) \in Nat
           /\ \A m : References(m) \in Nat
BY CountsAreRows, FiniteRows

\* A row that is there is counted.
LEMMA RowCounted ==
    ASSUME OneAtATime, IInv, OneRow, NEW S \in SUBSET (Users \X Files), NEW r \in S,
           user_file_list[r] # <<>>
    PROVE  Cardinality(ListRows(S)) > 0
<1>1. <<r, 1>> \in ListRows(S)
  BY ListIsList, ListRowsPairs DEF Pairs
<1>2. ListRows(S) # {}
  BY <1>1
<1>. QED  BY <1>2, FiniteRows, FS_EmptySet

LEMMA HasRow ==
    ASSUME OneAtATime, IInv, OneRow, NEW u \in Users, NEW f \in Files, user_file_list[<<u, f>>] # <<>>
    PROVE  RowsOf(u) > 0 /\ References(md5[f]) > 0
<1>1. <<u, f>> \in OfUser(u) /\ <<u, f>> \in OfMd5(md5[f])
  BY DEF OfUser, OfMd5
<1>. QED  BY <1>1, RowCounted, CountsAreRows

\* Lists with rows in the same places are counted alike.
LEMMA SameLists ==
    ASSUME \A r \in Users \X Files : DOMAIN user_file_list'[r] = DOMAIN user_file_list[r]
    PROVE  /\ \A u \in Users : RowsOf(u)' = RowsOf(u)
           /\ \A m : References(m)' = References(m)
<1>1. ASSUME NEW S \in SUBSET (Users \X Files) PROVE ListRows(S)' = ListRows(S)
  <2>1. {{r} \X DOMAIN user_file_list'[r] : r \in S} = {{r} \X DOMAIN user_file_list[r] : r \in S}
    OBVIOUS
  <2>. QED  BY <2>1 DEF ListRows
<1>2. \A u \in Users : OfUser(u) \in SUBSET (Users \X Files)
  BY DEF OfUser
<1>3. \A m : OfMd5(m) \in SUBSET (Users \X Files)
  BY DEF OfMd5
<1>4. \A u \in Users : ListRows(OfUser(u))' = ListRows(OfUser(u))
  BY <1>1, <1>2 DEF OfUser
<1>5. \A m : ListRows(OfMd5(m))' = ListRows(OfMd5(m))
  BY <1>1, <1>3 DEF OfMd5
<1>. QED  BY <1>4, <1>5 DEF RowsOf, References, OfUser, OfMd5

\* A row more, or a row less, in one place.
RowAdded(r) == /\ user_file_list[r] = <<>> /\ user_file_list'[r] # <<>>
               /\ \A s \in Users \X Files : s # r => user_file_list'[s] = user_file_list[s]
RowDropped(r) == /\ user_file_list[r] # <<>> /\ user_file_list'[r] = <<>>
                 /\ \A s \in Users \X Files : s # r => user_file_list'[s] = user_file_list[s]

LEMMA AddedIn ==
    ASSUME OneAtATime, IInv, OneRow, (user_file_list \in Lists)', NEW r \in Users \X Files, RowAdded(r),
           NEW S \in SUBSET (Users \X Files)
    PROVE  Cardinality(ListRows(S)') = Cardinality(ListRows(S)) + (IF r \in S THEN 1 ELSE 0)
<1>1. ListRows(S) = Pairs(user_file_list, S) /\ ListRows(S)' = Pairs(user_file_list', S)
  BY ListIsList, ListRowsPairs, ListRowsPairsNext
<1>2. IsFiniteSet(ListRows(S)) /\ Cardinality(ListRows(S)) \in Nat
  BY FiniteRows
<1>3. CASE r \in S
  <2>1. ListRows(S)' = ListRows(S) \cup {<<r, 1>>} /\ <<r, 1>> \notin ListRows(S)
    BY <1>1, <1>3 DEF Pairs, RowAdded
  <2>. QED  BY <1>2, <1>3, <2>1, FS_AddElement
<1>4. CASE r \notin S
  <2>1. ListRows(S)' = ListRows(S)
    BY <1>1, <1>4 DEF Pairs, RowAdded
  <2>. QED  BY <1>2, <1>4, <2>1
<1>. QED  BY <1>3, <1>4

LEMMA DroppedFrom ==
    ASSUME OneAtATime, IInv, OneRow, (user_file_list \in Lists)', NEW r \in Users \X Files, RowDropped(r),
           NEW S \in SUBSET (Users \X Files)
    PROVE  Cardinality(ListRows(S)') = Cardinality(ListRows(S)) - (IF r \in S THEN 1 ELSE 0)
<1>1. ListRows(S) = Pairs(user_file_list, S) /\ ListRows(S)' = Pairs(user_file_list', S)
  BY ListIsList, ListRowsPairs, ListRowsPairsNext
<1>2. IsFiniteSet(ListRows(S)) /\ Cardinality(ListRows(S)) \in Nat
  BY FiniteRows
<1>3. CASE r \in S
  <2>1. ListRows(S)' = ListRows(S) \ {<<r, 1>>} /\ <<r, 1>> \in ListRows(S)
    BY <1>1, <1>3 DEF Pairs, RowDropped
  <2>2. Cardinality(ListRows(S) \ {<<r, 1>>}) = Cardinality(ListRows(S)) - 1
    <3>1. PICK T, x : T = ListRows(S) /\ x = <<r, 1>>
      OBVIOUS
    <3>2. IsFiniteSet(T) /\ x \in T
      BY <1>2, <2>1, <3>1
    <3>3. Cardinality(T \ {x}) = Cardinality(T) - 1
      BY ONLY <3>2, FS_RemoveElement
    <3>. QED  BY ONLY <3>1, <3>3
  <2>. QED  BY <1>3, <2>1, <2>2
<1>4. CASE r \notin S
  <2>1. ListRows(S)' = ListRows(S)
    BY <1>1, <1>4 DEF Pairs, RowDropped
  <2>. QED  BY <1>2, <1>4, <2>1
<1>. QED  BY <1>3, <1>4

LEMMA RowAddedCounts ==
    ASSUME OneAtATime, IInv, OneRow, (user_file_list \in Lists)', NEW u \in Users, NEW f \in Files,
           RowAdded(<<u, f>>)
    PROVE  /\ \A v \in Users : RowsOf(v)' = RowsOf(v) + (IF v = u THEN 1 ELSE 0)
           /\ \A m : References(m)' = References(m) + (IF m = md5[f] THEN 1 ELSE 0)
<1>1. /\ \A v \in Users : OfUser(v) \in SUBSET (Users \X Files) /\ (<<u, f>> \in OfUser(v) <=> v = u)
      /\ \A m : OfMd5(m) \in SUBSET (Users \X Files) /\ (<<u, f>> \in OfMd5(m) <=> m = md5[f])
  BY DEF OfUser, OfMd5
<1>2. ASSUME NEW v \in Users PROVE RowsOf(v)' = RowsOf(v) + (IF v = u THEN 1 ELSE 0)
  <2>1. Cardinality(ListRows(OfUser(v))') = Cardinality(ListRows(OfUser(v))) + (IF v = u THEN 1 ELSE 0)
    <3>1. PICK S \in SUBSET (Users \X Files) : S = OfUser(v)
      BY <1>1
    <3>2. ListRows(S)' = ListRows(OfUser(v))'
      BY <3>1 DEF OfUser
    <3>. QED  BY <1>1, <3>1, <3>2, AddedIn
  <2>. QED  BY <2>1 DEF RowsOf, OfUser
<1>3. ASSUME NEW m PROVE References(m)' = References(m) + (IF m = md5[f] THEN 1 ELSE 0)
  <2>1. Cardinality(ListRows(OfMd5(m))') = Cardinality(ListRows(OfMd5(m))) + (IF m = md5[f] THEN 1 ELSE 0)
    <3>1. PICK S \in SUBSET (Users \X Files) : S = OfMd5(m)
      BY <1>1
    <3>2. ListRows(S)' = ListRows(OfMd5(m))'
      BY <3>1 DEF OfMd5
    <3>. QED  BY <1>1, <3>1, <3>2, AddedIn
  <2>. QED  BY <2>1 DEF References, OfMd5
<1>. QED  BY <1>2, <1>3

LEMMA RowDroppedCounts ==
    ASSUME OneAtATime, IInv, OneRow, (user_file_list \in Lists)', NEW u \in Users, NEW f \in Files,
           RowDropped(<<u, f>>)
    PROVE  /\ \A v \in Users : RowsOf(v)' = RowsOf(v) - (IF v = u THEN 1 ELSE 0)
           /\ \A m : References(m)' = References(m) - (IF m = md5[f] THEN 1 ELSE 0)
<1>1. /\ \A v \in Users : OfUser(v) \in SUBSET (Users \X Files) /\ (<<u, f>> \in OfUser(v) <=> v = u)
      /\ \A m : OfMd5(m) \in SUBSET (Users \X Files) /\ (<<u, f>> \in OfMd5(m) <=> m = md5[f])
  BY DEF OfUser, OfMd5
<1>2. ASSUME NEW v \in Users PROVE RowsOf(v)' = RowsOf(v) - (IF v = u THEN 1 ELSE 0)
  <2>1. Cardinality(ListRows(OfUser(v))') = Cardinality(ListRows(OfUser(v))) - (IF v = u THEN 1 ELSE 0)
    <3>1. PICK S \in SUBSET (Users \X Files) : S = OfUser(v)
      BY <1>1
    <3>2. ListRows(S)' = ListRows(OfUser(v))'
      BY <3>1 DEF OfUser
    <3>. QED  BY <1>1, <3>1, <3>2, DroppedFrom
  <2>. QED  BY <2>1 DEF RowsOf, OfUser
<1>3. ASSUME NEW m PROVE References(m)' = References(m) - (IF m = md5[f] THEN 1 ELSE 0)
  <2>1. Cardinality(ListRows(OfMd5(m))') = Cardinality(ListRows(OfMd5(m))) - (IF m = md5[f] THEN 1 ELSE 0)
    <3>1. PICK S \in SUBSET (Users \X Files) : S = OfMd5(m)
      BY <1>1
    <3>2. ListRows(S)' = ListRows(OfMd5(m))'
      BY <3>1 DEF OfMd5
    <3>. QED  BY <1>1, <3>1, <3>2, DroppedFrom
  <2>. QED  BY <2>1 DEF References, OfMd5
<1>. QED  BY <1>2, <1>3

\* A share more, and a share less.
LEMMA ShareAddedCount ==
    ASSUME OneAtATime, IInv, (share_file_list \in ShareMaps)', NEW r \in Users \X Files,
           share_file_list[r] = 0, share_file_list' = [share_file_list EXCEPT ![r] = 1]
    PROVE  Cardinality(ShareRows') = Cardinality(ShareRows) + 1
<1>1. share_file_list \in ShareMaps
  BY SharesAreMap
<1>2. ShareRows = SharePairsOf(share_file_list)
  BY <1>1, SharePairs DEF ShareRows
<1>3. ShareRows' = SharePairsOf(share_file_list')
  BY SharePairs DEF ShareRows, ShareMaps
<1>4. ShareRows' = ShareRows \cup {<<r, 1>>} /\ <<r, 1>> \notin ShareRows
  <2>1. \A s \in Users \X Files : share_file_list'[s] = IF s = r THEN 1 ELSE share_file_list[s]
    BY <1>1 DEF ShareMaps
  <2>. QED  BY <1>2, <1>3, <2>1 DEF SharePairsOf
<1>. QED  BY <1>4, FiniteShares, FS_AddElement

LEMMA ShareDroppedCount ==
    ASSUME OneAtATime, IInv, (share_file_list \in ShareMaps)', NEW r \in Users \X Files,
           share_file_list' = [share_file_list EXCEPT ![r] = 0]
    PROVE  Cardinality(ShareRows') = Cardinality(ShareRows) - share_file_list[r]
<1>1. share_file_list \in ShareMaps
  BY SharesAreMap
<1>2. ShareRows = SharePairsOf(share_file_list)
  BY <1>1, SharePairs DEF ShareRows
<1>3. ShareRows' = SharePairsOf(share_file_list')
  BY SharePairs DEF ShareRows, ShareMaps
<1>4. \A s \in Users \X Files : share_file_list'[s] = IF s = r THEN 0 ELSE share_file_list[s]
  BY <1>1 DEF ShareMaps
<1>5. CASE share_file_list[r] = 1
  <2>1. ShareRows' = ShareRows \ {<<r, 1>>} /\ <<r, 1>> \in ShareRows
    BY <1>2, <1>3, <1>4, <1>5 DEF SharePairsOf
  <2>2. Cardinality(ShareRows \ {<<r, 1>>}) = Cardinality(ShareRows) - 1
    BY <2>1, FiniteShares, FS_RemoveElement
  <2>. QED  BY <1>5, <2>1, <2>2
<1>6. CASE share_file_list[r] = 0
  <2>1. ShareRows' = ShareRows
    BY <1>2, <1>3, <1>4, <1>6 DEF SharePairsOf
  <2>. QED  BY <1>6, <2>1, FiniteShares
<1>. QED  BY <1>1, <1>5, <1>6 DEF ShareMaps

-----------------------------------------------------------------------------
(* What a step leaves as it was *)

OthersSame(p) == \A q \in Programs : q # p => run'[q] = run[q]
SameRequest(p) == /\ run'[p].user = run[p].user /\ run'[p].file = run[p].file
                  /\ run'[p].file_id = run[p].file_id

\* Program p moves from one place to another with its local variables.
Moves(p, to) == run'[p].at = to /\ SameRequest(p) /\ run'[p].seen = run[p].seen

\* What is left over belongs to the same user and file.
Carries(p) == InFlight(p) \/ Discarding(p) \/ Uncounted(p) \/ Loose(p)
                => run'[p].at = "idle" \/ SameRequest(p)

LEMMA StepIs ==
    ASSUME IInv, NEW p \in Programs, NEW from, NEW to, Step(p, from, to)
    PROVE  /\ run[p].at = from /\ OthersSame(p)
           /\ to = "END" => run'[p].at = "idle"
           /\ to # "END" => Moves(p, to)
<1>1. run \in [Programs -> Request]
  BY RunIsOK DEF RunOK
<1>2. run[p] \in Request /\ run[p].at = from
  BY <1>1 DEF Step
<1>3. CASE to = "END"
  BY <1>1, <1>2, <1>3, IdleRequest DEF Step, OthersSame
<1>4. CASE to # "END"
  <2>. DEFINE r == [run[p] EXCEPT !.at = to]
  <2>1. /\ r.at = to /\ r.user = run[p].user /\ r.file = run[p].file
        /\ r.file_id = run[p].file_id /\ r.seen = run[p].seen
    BY <1>2 DEF Request
  <2>2. run' = [run EXCEPT ![p] = r]
    BY <1>1, <1>4 DEF Step
  <2>. HIDE DEF r
  <2>3. run'[p] = r /\ OthersSame(p)
    BY <1>1, <2>2 DEF OthersSame
  <2>. QED  BY <1>2, <1>4, <2>1, <2>3 DEF Moves, SameRequest
<1>. QED  BY <1>3, <1>4

LEMMA SelectIs ==
    ASSUME IInv, NEW p \in Programs, NEW from, NEW rows, NEW to, Select(p, from, rows, to)
    PROVE  /\ run[p].at = from /\ OthersSame(p)
           /\ rows = <<>> => run'[p].at = "idle"
           /\ rows # <<>> => run'[p].at = to /\ SameRequest(p) /\ run'[p].seen = rows
<1>1. run \in [Programs -> Request]
  BY RunIsOK DEF RunOK
<1>2. run[p] \in Request /\ run[p].at = from
  BY <1>1 DEF Select
<1>3. CASE rows = <<>>
  BY <1>1, <1>2, <1>3, IdleRequest DEF Select, OthersSame
<1>4. CASE rows # <<>>
  <2>. DEFINE r == [run[p] EXCEPT !.at = to, !.seen = rows]
  <2>1. /\ r.at = to /\ r.user = run[p].user /\ r.file = run[p].file
        /\ r.file_id = run[p].file_id /\ r.seen = rows
    BY <1>2 DEF Request
  <2>2. run' = [run EXCEPT ![p] = r]
    BY <1>1, <1>4 DEF Select
  <2>. HIDE DEF r
  <2>3. run'[p] = r /\ OthersSame(p)
    BY <1>1, <2>2 DEF OthersSame
  <2>. QED  BY <1>2, <1>4, <2>1, <2>3 DEF SameRequest
<1>. QED  BY <1>3, <1>4

LEMMA KeepAlone ==
    ASSUME NEW p \in Programs, Alone(p), OthersSame(p), UNCHANGED pending, run[p].at # "idle"
    PROVE  Alone(p)' /\ pending = {} /\ pending' = {}
BY DEF Alone, OthersSame

LEMMA KeepRefs ==
    ASSUME NEW p \in Programs, RefsAgree(p), UNCHANGED file_info,
           \A m : References(m)' = References(m),
           InFlight(p)' <=> InFlight(p), Discarding(p)' <=> Discarding(p),
           Carries(p)
    PROVE  RefsAgree(p)'
<1>1. (InFlight(p) => run'[p].file = run[p].file) /\ (Discarding(p) => run'[p].file = run[p].file)
  BY DEF Carries, InFlight, Discarding, At, SameRequest
<1>2. ASSUME NEW m \in Md5s
      PROVE  /\ Counts(p, m)' = Counts(p, m)
             /\ (Discarding(p) /\ Md5(p) = m)' <=> (Discarding(p) /\ Md5(p) = m)
  BY <1>1 DEF Counts, Md5
<1>. QED  BY <1>2 DEF RefsAgree

LEMMA KeepUsers ==
    ASSUME NEW p \in Programs, UsersAgree(p),
           \A u \in Users : user_file_count'[u] = user_file_count[u],
           \A u \in Users : RowsOf(u)' = RowsOf(u),
           Uncounted(p)' <=> Uncounted(p), Carries(p)
    PROVE  UsersAgree(p)'
<1>1. Uncounted(p) => run'[p].user = run[p].user
  BY DEF Carries, Uncounted, At, SameRequest
<1>. QED  BY <1>1 DEF UsersAgree, User

LEMMA KeepShares ==
    ASSUME NEW p \in Programs, SharesBounded(p), UNCHANGED share_file_list,
           user_file_count'[SHARE_COUNT] = user_file_count[SHARE_COUNT], Slack(p)' = Slack(p)
    PROVE  SharesBounded(p)'
BY DEF SharesBounded, ShareRows

LEMMA KeepStorage ==
    ASSUME NEW p \in Programs, StorageAgrees(p), UNCHANGED storage, NamedIds' = NamedIds,
           Loose(p)' <=> Loose(p), Carries(p)
    PROVE  StorageAgrees(p)'
<1>1. Loose(p) => run'[p].file_id = run[p].file_id
  BY DEF Carries, Loose, At, SameRequest
<1>. QED  BY <1>1 DEF StorageAgrees

\* The invariant after a step, but for the part that all interleavings have.
After(p) == OneRow' /\ Tells(p)'

\* A step that changes no table and does not make a count, a row or a file left over.
LEMMA ReadOnly ==
    ASSUME OneRow, NEW p \in Programs, Tells(p), run[p].at # "idle", OthersSame(p),
           Carries(p), UNCHANGED <<tables, storage, pending>>,
           InFlight(p)' <=> InFlight(p), Discarding(p)' <=> Discarding(p),
           Uncounted(p)' <=> Uncounted(p), Slack(p)' = Slack(p), Loose(p)' <=> Loose(p),
           Course(p)', KnowsList(p)', KnowsShare(p)', KnowsCount(p)', KnowsInfo(p)'
    PROVE  After(p)
<1>. USE DEF tables
<1>1. OneRow'
  BY DEF OneRow
<1>2. /\ \A u \in Users : RowsOf(u)' = RowsOf(u)
      /\ \A m : References(m)' = References(m)
  BY SameLists
<1>3. NamedIds' = NamedIds
  BY DEF NamedIds
<1>4. Alone(p)' /\ RefsAgree(p)' /\ UsersAgree(p)' /\ SharesBounded(p)' /\ StorageAgrees(p)'
  BY <1>2, <1>3, KeepAlone, KeepRefs, KeepUsers, KeepShares, KeepStorage DEF Tells
<1>. QED  BY <1>1, <1>4 DEF After, Tells

\* Nothing is left over.
Free(p) == ~InFlight(p) /\ ~Discarding(p) /\ ~Uncounted(p) /\ Slack(p) = 0 /\ ~Loose(p)

\* Places that rely on nothing.
Plain(p) ==
    CASE p = "md5" -> {"idle", "md5"}
      [] p = "upload" -> {"idle"}
      [] p = "dealfile" -> {"idle", "share", "shared?", "zadd again", "status", "share row",
                            "zadd", "hset"}
      [] p = "dealsharefile" -> {"idle", "zrem", "hdel", "save", "pv", "exit", "zincrby",
                                 "zadd", "hset"}
      [] OTHER -> {"idle", "ranking", "zcard", "del zset", "del hash", "list", "zadd", "hset"}

LEMMA PlainIs ==
    ASSUME NEW p \in Programs, run[p].at \in Plain(p)
    PROVE  /\ Free(p) /\ Course(p) /\ ~HasNot(p) /\ ~Has(p) /\ ~Shares(p)
           /\ ~At(p, {"own", "ref+1", "ref-1", "count+1", "shares-1", "files-1", "upload", "info",
                      "file_id", "del info", "del storage"})
BY DEF Plain, Free, Course, InFlight, Discarding, Uncounted, Slack, Loose, HasNot, Has, Shares,
       At, Programs

LEMMA PlainIsNext ==
    ASSUME NEW p \in Programs, run'[p].at \in Plain(p)
    PROVE  /\ Free(p)' /\ Course(p)' /\ ~HasNot(p)' /\ ~Has(p)' /\ ~Shares(p)'
           /\ ~At(p, {"own", "ref+1", "ref-1", "count+1", "shares-1", "files-1", "upload", "info",
                      "file_id", "del info", "del storage"})'
BY DEF Plain, Free, Course, InFlight, Discarding, Uncounted, Slack, Loose, HasNot, Has, Shares,
       At, Programs

\* Nothing is known and nothing has to be, at such a place.
LEMMA PlainKnows ==
    ASSUME NEW p \in Programs, run'[p].at \in Plain(p), pending' = {}
    PROVE  /\ Free(p)' /\ Course(p)'
           /\ KnowsList(p)' /\ KnowsShare(p)' /\ KnowsCount(p)' /\ KnowsInfo(p)'
<1>1. KnowsList(p)' /\ KnowsShare(p)'
  BY PlainIsNext DEF KnowsList, KnowsShare
<1>2. KnowsCount(p)' /\ KnowsInfo(p)'
  BY PlainIsNext DEF KnowsCount, KnowsInfo, At
<1>. QED  BY <1>1, <1>2, PlainIsNext

LEMMA PlainStep ==
    ASSUME OneRow, NEW p \in Programs, Tells(p), run[p].at # "idle", Free(p), OthersSame(p),
           run'[p].at \in Plain(p),
           UNCHANGED <<tables, storage, pending>>
    PROVE  After(p)
<1>1. pending' = {}
  BY KeepAlone DEF Tells
<1>2. /\ Free(p)' /\ Course(p)'
      /\ KnowsList(p)' /\ KnowsShare(p)' /\ KnowsCount(p)' /\ KnowsInfo(p)'
  BY <1>1, PlainKnows
<1>. QED  BY <1>2, ReadOnly DEF Free, Carries

-----------------------------------------------------------------------------
(* The statements that md5_cgi.c, upload_cgi.c and dealsharefile_cgi.c have in common *)

Adders == {"md5", "upload", "dealsharefile"}

\* The program that is not idle is the one at work.
LEMMA AtWork ==
    ASSUME CountsInv, NEW p \in Programs, run[p].at # "idle"
    PROVE  IInv /\ OneRow /\ Tells(p)
BY DEF CountsInv, Tells, Alone

\* What it works on.
LEMMA WorksOn ==
    ASSUME IInv, NEW p \in Programs, p # "sharefiles", run[p].at # "idle"
    PROVE  /\ run[p].user \in Users /\ run[p].file \in Files /\ Row(p) = <<run[p].user, run[p].file>>
           /\ Row(p) \in Users \X Files /\ Md5(p) = md5[run[p].file] /\ Md5(p) \in Md5s
           /\ User(p) = run[p].user /\ User(p) \in Owners /\ User(p) # SHARE_COUNT
           /\ SHARE_COUNT \in Owners
BY Locals, CloudAssumption DEF User, Row, Md5, File, Owners

LEMMA InfoType ==
    ASSUME IInv, NEW m \in Md5s
    PROVE  /\ file_info[m] \in Seq(InfoRow) /\ file_info \in [Md5s -> Seq(InfoRow)]
           /\ Len(file_info[m]) \in Nat
           /\ file_info[m] # <<>> => file_info[m][1].count \in Int /\ 1 \in DOMAIN file_info[m]
<1>1. file_info[m] \in Seq(InfoRow) /\ file_info \in [Md5s -> Seq(InfoRow)]
  BY DEF IInv, TypeOK, InfoRow
<1>2. ASSUME file_info[m] # <<>> PROVE file_info[m][1] \in InfoRow /\ 1 \in DOMAIN file_info[m]
  BY <1>1, <1>2
<1>3. Len(file_info[m]) \in Nat
  BY <1>1
<1>4. ASSUME file_info[m] # <<>> PROVE file_info[m][1].count \in Int
  BY <1>2, <1>4 DEF InfoRow
<1>. QED  BY <1>1, <1>2, <1>3, <1>4

\* The row of file_info that is there has the count it should have, and a select finds it.
LEMMA RefKnown ==
    ASSUME NEW p \in Programs, RefsAgree(p), NEW m \in Md5s, file_info[m] # <<>>
    PROVE  /\ Len(file_info[m]) = 1 /\ file_info[m][1].count = Counts(p, m)
           /\ RefCount(m) = <<Counts(p, m)>> /\ RefCount(m)[1] = Counts(p, m)
<1>1. Len(file_info[m]) = 1 /\ file_info[m][1].count = Counts(p, m)
  BY DEF RefsAgree
<1>. QED  BY <1>1 DEF RefCount

\* The update of the one row of an md5.
LEMMA RefUpdated ==
    ASSUME IInv, NEW m \in Md5s, Len(file_info[m]) = 1, NEW n \in Int, SetRefCount(m, n)
    PROVE  /\ \A x \in Md5s : x # m => file_info'[x] = file_info[x]
           /\ Len(file_info'[m]) = 1 /\ file_info'[m][1].count = n
           /\ NamedIds' = NamedIds
<1>. DEFINE s == file_info[m]
            t == [k \in DOMAIN s |-> [s[k] EXCEPT !.count = n]]
<1>1. s \in Seq(InfoRow) /\ file_info \in [Md5s -> Seq(InfoRow)] /\ DOMAIN s = {1} /\ s # <<>>
  <2>1. s \in Seq(InfoRow) /\ file_info \in [Md5s -> Seq(InfoRow)] /\ Len(s) = 1
    BY InfoType
  <2>2. Len(<<>>) = 0 /\ 0 # 1
    OBVIOUS
  <2>3. s # <<>>
    <3>. HIDE DEF s
    <3>. QED  BY ONLY <2>1, <2>2, Zenon
  <2>. QED  BY <2>1, <2>3
<1>2. s[1] \in InfoRow
  BY <1>1
<1>3. file_info' = [file_info EXCEPT ![m] = t]
  BY DEF SetRefCount
<1>4. t = <<[s[1] EXCEPT !.count = n]>> /\ [s[1] EXCEPT !.count = n].count = n
      /\ [s[1] EXCEPT !.count = n].file_id = s[1].file_id
  BY <1>1, <1>2 DEF InfoRow
<1>. HIDE DEF t
<1>5. file_info'[m] = t /\ \A x \in Md5s : x # m => file_info'[x] = file_info[x]
  BY <1>1, <1>3
<1>6. Len(t) = 1 /\ t[1].count = n /\ t[1].file_id = file_info[m][1].file_id /\ t # <<>>
  BY <1>4
<1>7. \A x \in Md5s : /\ file_info'[x] # <<>> <=> file_info[x] # <<>>
                      /\ file_info'[x][1].file_id = file_info[x][1].file_id
  BY <1>1, <1>5, <1>6
<1>8. NamedIds' = NamedIds
  BY <1>7 DEF NamedIds
<1>. QED  BY <1>5, <1>6, <1>8

\* A row of a list is added: the reference that was counted before has its row.
LEMMA InsertFileCounts ==
    ASSUME OneAtATime, CountsInv, IInv', NEW p \in Adders, InsertFile(p)
    PROVE  After(p)
<1>. DEFINE u == run[p].user
            f == run[p].file
<1>1. p \in Programs /\ p # "sharefiles" /\ p # "dealfile"
  BY DEF Adders, Programs
<1>2. run[p].at = "row" /\ OthersSame(p) /\ Moves(p, "count") /\ IInv
  BY <1>1, StepIs DEF InsertFile, CountsInv
<1>3. OneRow /\ Tells(p)
  BY <1>1, <1>2, AtWork
<1>4. /\ u \in Users /\ f \in Files /\ Row(p) = <<u, f>> /\ <<u, f>> \in Users \X Files
      /\ Md5(p) = md5[f] /\ User(p) = u
  BY <1>1, <1>2, WorksOn
<1>5. /\ run'[p].at = "count" /\ run'[p].user = u /\ run'[p].file = f
      /\ Row(p)' = <<u, f>> /\ Md5(p)' = md5[f] /\ User(p)' = u
  BY <1>2 DEF Moves, SameRequest, Row, Md5, User
<1>6. user_file_list[<<u, f>>] = <<>>
  BY <1>2, <1>3, <1>4 DEF Tells, KnowsList, HasNot, At
<1>7. /\ user_file_list' = [user_file_list EXCEPT ![<<u, f>>] = <<0>>]
      /\ UNCHANGED <<file_info, user_file_count, share_file_list, storage, pending>>
  BY <1>4, <1>6 DEF InsertFile
<1>8. \A r \in Users \X Files : user_file_list'[r] = IF r = <<u, f>> THEN <<0>> ELSE user_file_list[r]
  BY <1>2, <1>7 DEF IInv, TypeOK
<1>. HIDE DEF u, f
<1>9. OneRow'
  BY <1>3, <1>8 DEF OneRow
<1>10. (user_file_list \in Lists)' /\ RowAdded(<<u, f>>)
  <2>1. (user_file_list \in Lists)'
    BY <1>9 DEF IInv, TypeOK, OneRow, Lists
  <2>2. <<0>> # <<>>
    OBVIOUS
  <2>3. RowAdded(<<u, f>>)
    BY <1>4, <1>6, <1>8, <2>2 DEF RowAdded
  <2>. QED  BY <2>1, <2>3
<1>11. /\ \A v \in Users : RowsOf(v)' = RowsOf(v) + (IF v = u THEN 1 ELSE 0)
       /\ \A m : References(m)' = References(m) + (IF m = md5[f] THEN 1 ELSE 0)
  BY <1>2, <1>3, <1>4, <1>10, RowAddedCounts
<1>12. /\ \A v \in Users : RowsOf(v) \in Nat
       /\ \A m : References(m) \in Nat
  BY <1>2, <1>3, CountsType
<1>13. Alone(p)' /\ pending' = {}
  BY <1>1, <1>2, <1>3, <1>7, KeepAlone DEF Tells
<1>14. RefsAgree(p)'
  <2>1. ~Discarding(p) /\ ~Discarding(p)' /\ InFlight(p) /\ ~InFlight(p)'
    BY <1>1, <1>2, <1>5 DEF Discarding, InFlight, At
  <2>2. \A m \in Md5s : Counts(p, m)' = Counts(p, m)
    BY <1>4, <1>5, <1>11, <1>12, <2>1 DEF Counts
  <2>. QED  BY <1>3, <1>7, <2>1, <2>2 DEF Tells, RefsAgree
<1>15. UsersAgree(p)'
  <2>1. ~Uncounted(p) /\ Uncounted(p)'
    BY <1>1, <1>2, <1>5 DEF Uncounted, At
  <2>2. \A v \in Users : /\ user_file_count[v] = CountRow(RowsOf(v) - 0)
                         /\ RowsOf(v)' - (IF User(p)' = v THEN 1 ELSE 0) = RowsOf(v) - 0
    BY <1>3, <1>5, <1>11, <1>12, <2>1 DEF Tells, UsersAgree
  <2>. QED  BY <1>7, <2>1, <2>2 DEF UsersAgree
<1>16. SharesBounded(p)'
  <2>1. Slack(p) = 0 /\ Slack(p)' = 0
    BY <1>1, <1>2, <1>5 DEF Slack, At
  <2>. QED  BY <1>1, <1>3, <1>7, <2>1, KeepShares DEF Tells
<1>17. StorageAgrees(p)'
  <2>1. ~Loose(p) /\ ~Loose(p)' /\ NamedIds' = NamedIds
    BY <1>1, <1>2, <1>5, <1>7 DEF Loose, At, NamedIds
  <2>. QED  BY <1>3, <1>7, <2>1 DEF Tells, StorageAgrees
<1>18. Course(p)' /\ KnowsList(p)' /\ KnowsShare(p)'
  <2>1. Course(p)' /\ ~Shares(p)' /\ ~HasNot(p)'
    BY <1>1, <1>5 DEF Course, At, HasNot, Shares, Adders
  <2>. QED  BY <1>5, <1>10, <2>1 DEF KnowsList, KnowsShare, RowAdded
<1>19. KnowsCount(p)' /\ KnowsInfo(p)'
  BY <1>1, <1>5, <1>13 DEF KnowsCount, KnowsInfo, At
<1>. QED  BY <1>9, <1>13, <1>14, <1>15, <1>16, <1>17, <1>18, <1>19 DEF After, Tells

LEMMA SameWork ==
    ASSUME NEW p, SameRequest(p)
    PROVE  Row(p)' = Row(p) /\ Md5(p)' = Md5(p) /\ User(p)' = User(p) /\ Owner(p)' = Owner(p)
BY DEF SameRequest, Row, Md5, User, Owner

LEMMA SelectCountIs ==
    ASSUME IInv, NEW p \in Programs, SelectCount(p)
    PROVE  /\ run[p].at = "count" /\ run'[p].at = "count+1" /\ SameRequest(p) /\ OthersSame(p)
           /\ run'[p].seen = user_file_count[Owner(p)]
<1>. DEFINE r == [run[p] EXCEPT !.at = "count+1", !.seen = user_file_count[Owner(p)]]
<1>1. run \in [Programs -> Request] /\ run[p] \in Request
  BY RunIsOK DEF RunOK
<1>2. run' = [run EXCEPT ![p] = r]
  BY <1>1 DEF SelectCount
<1>3. /\ r.at = "count+1" /\ r.user = run[p].user /\ r.file = run[p].file
      /\ r.file_id = run[p].file_id /\ r.seen = user_file_count[Owner(p)]
  BY <1>1 DEF Request
<1>. HIDE DEF r
<1>4. run'[p] = r /\ OthersSame(p)
  BY <1>1, <1>2 DEF OthersSame
<1>. QED  BY <1>3, <1>4 DEF SameRequest, SelectCount

\* The count is read: nobody changes it before it is written.
LEMMA SelectCountCounts ==
    ASSUME CountsInv, NEW p \in Programs \ {"sharefiles"}, SelectCount(p)
    PROVE  After(p)
<1>1. /\ run[p].at = "count" /\ run'[p].at = "count+1" /\ SameRequest(p) /\ OthersSame(p)
      /\ run'[p].seen = user_file_count[Owner(p)]
  BY SelectCountIs DEF CountsInv
<1>2. OneRow /\ Tells(p) /\ p \in Programs
  BY <1>1, AtWork
<1>3. Row(p)' = Row(p) /\ Owner(p)' = Owner(p)
  BY <1>1, SameWork
<1>4. UNCHANGED <<tables, storage, pending>> /\ UNCHANGED <<user_file_count, user_file_list, share_file_list>>
  BY DEF SelectCount, tables
<1>5. pending' = {}
  BY <1>1, <1>2, <1>4, KeepAlone DEF Tells
<1>6. /\ (InFlight(p)' <=> InFlight(p)) /\ (Discarding(p)' <=> Discarding(p))
      /\ (Uncounted(p)' <=> Uncounted(p)) /\ Slack(p)' = Slack(p) /\ (Loose(p)' <=> Loose(p))
  BY <1>1 DEF InFlight, Discarding, Uncounted, Slack, Loose, At
<1>7. Course(p)'
  BY <1>1, <1>2 DEF Tells, Course, At
<1>8. KnowsList(p)' /\ KnowsShare(p)'
  BY <1>1, <1>2, <1>3, <1>4 DEF Tells, KnowsList, HasNot, Has, KnowsShare, Shares, At
<1>9. KnowsCount(p)' /\ KnowsInfo(p)'
  <2>1. run'[p].seen = user_file_count'[Owner(p)']
    BY <1>1, <1>3, <1>4
  <2>. QED  BY <1>1, <1>5, <2>1 DEF KnowsCount, KnowsInfo, At
<1>. QED  BY <1>1, <1>2, <1>4, <1>6, <1>7, <1>8, <1>9, ReadOnly DEF Carries

\* The user's count catches up with the user's list.
LEMMA WriteCountCounts ==
    ASSUME OneAtATime, CountsInv, NEW p \in Adders, WriteCount(p)
    PROVE  After(p)
<1>1. p \in Programs /\ p # "sharefiles" /\ p # "dealfile"
  BY DEF Adders, Programs
<1>2. Step(p, "count+1", "END") /\ IInv
  BY <1>1 DEF WriteCount, CountsInv
<1>3. run[p].at = "count+1" /\ run'[p].at = "idle" /\ OthersSame(p)
  BY <1>1, <1>2, StepIs
<1>4. OneRow /\ Tells(p)
  BY <1>1, <1>3, AtWork
<1>5. /\ run[p].user \in Users /\ run[p].file \in Files /\ Row(p) = <<run[p].user, run[p].file>>
      /\ User(p) = run[p].user /\ User(p) \in Owners /\ User(p) # SHARE_COUNT /\ SHARE_COUNT \in Owners
  BY <1>1, <1>2, <1>3, WorksOn
<1>. DEFINE u == User(p)
            n == RowsOf(u)
<1>6. n \in Nat /\ n > 0 /\ \A v \in Users : RowsOf(v) \in Nat
  <2>1. user_file_list[Row(p)] # <<>>
    BY <1>1, <1>3, <1>4 DEF Tells, KnowsList, Has, At
  <2>. QED  BY <1>2, <1>4, <1>5, <2>1, HasRow, CountsType
<1>7. Uncounted(p) /\ Owner(p) = u
  BY <1>1, <1>3 DEF Uncounted, At, Owner
<1>8. user_file_count[u] = CountRow(n - 1) /\ run[p].seen = user_file_count[u]
  BY <1>3, <1>4, <1>5, <1>7 DEF Tells, UsersAgree, KnowsCount, At
<1>. HIDE DEF u, n
<1>9. user_file_count' = [user_file_count EXCEPT ![u] = <<n>>]
  <2>1. CASE n = 1
    <3>1. user_file_count[u] = <<>> /\ run[p].seen = <<>>
      BY <1>8, <2>1 DEF CountRow
    <3>. QED  BY <1>7, <2>1, <3>1 DEF WriteCount
  <2>2. CASE n # 1
    <3>1. user_file_count[u] = <<n - 1>> /\ run[p].seen = <<n - 1>> /\ run[p].seen[1] + 1 = n
      BY <1>6, <1>8, <2>2 DEF CountRow
    <3>2. <<n - 1>> # <<>>
      OBVIOUS
    <3>3. SetCount(u, n)
      BY <1>7, <3>1, <3>2 DEF WriteCount
    <3>. QED  BY <3>1, <3>2, <3>3 DEF SetCount
  <2>. QED  BY <2>1, <2>2
<1>10. UNCHANGED <<file_info, user_file_list, share_file_list, storage, pending>>
  BY <1>7, <1>8 DEF WriteCount
<1>11. \A o \in Owners : user_file_count'[o] = IF o = u THEN <<n>> ELSE user_file_count[o]
  BY <1>2, <1>9 DEF IInv, TypeOK
<1>12. /\ \A v \in Users : RowsOf(v)' = RowsOf(v)
       /\ \A m : References(m)' = References(m)
  BY <1>10, SameLists
<1>13. OneRow' /\ NamedIds' = NamedIds
  BY <1>4, <1>10 DEF OneRow, NamedIds
<1>14. Alone(p)' /\ pending' = {}
  BY <1>1, <1>3, <1>4, <1>10, KeepAlone DEF Tells
<1>15. run'[p].at \in Plain(p)
  BY <1>3 DEF Plain
<1>16. /\ Free(p)' /\ Course(p)'
       /\ KnowsList(p)' /\ KnowsShare(p)' /\ KnowsCount(p)' /\ KnowsInfo(p)'
  BY <1>1, <1>14, <1>15, PlainKnows
<1>17. ~InFlight(p) /\ ~Discarding(p) /\ Slack(p) = 0 /\ ~Loose(p)
  BY <1>1, <1>3 DEF InFlight, Discarding, Slack, Loose, At
<1>18. RefsAgree(p)' /\ StorageAgrees(p)'
  BY <1>1, <1>3, <1>4, <1>10, <1>12, <1>13, <1>16, <1>17, KeepRefs, KeepStorage DEF Tells, Free, Carries
<1>19. SharesBounded(p)'
  BY <1>1, <1>4, <1>5, <1>10, <1>11, <1>16, <1>17, KeepShares DEF Tells, Free, u
<1>20. UsersAgree(p)'
  <2>1. ASSUME NEW v \in Users PROVE user_file_count'[v] = CountRow(RowsOf(v)' - 0)
    <3>1. v \in Owners /\ RowsOf(v)' = RowsOf(v) /\ RowsOf(v) - 0 = RowsOf(v)
      BY <1>6, <1>12 DEF Owners
    <3>2. CASE v = u
      BY <1>6, <1>11, <3>1, <3>2 DEF CountRow, n
    <3>3. CASE v # u
      <4>1. user_file_count[v] = CountRow(RowsOf(v) - 0)
        BY <1>4, <3>3 DEF Tells, UsersAgree, u
      <4>. QED  BY <1>11, <3>1, <3>3, <4>1
    <3>. QED  BY <3>2, <3>3
  <2>. QED  BY <1>16, <2>1 DEF UsersAgree, Free
<1>. QED  BY <1>13, <1>14, <1>16, <1>18, <1>19, <1>20 DEF After, Tells

\* file_info counts a reference before the list has its row.
LEMMA AddReferenceCounts ==
    ASSUME OneAtATime, CountsInv, NEW p \in Adders, AddReference(p)
    PROVE  After(p)
<1>1. p \in Programs /\ p # "sharefiles" /\ p # "dealfile"
  BY DEF Adders, Programs
<1>2. run[p].at = "ref+1" /\ OthersSame(p) /\ Moves(p, "row") /\ IInv
  BY <1>1, StepIs DEF AddReference, CountsInv
<1>3. OneRow /\ Tells(p)
  BY <1>1, <1>2, AtWork
<1>. DEFINE m == Md5(p)
<1>4. m \in Md5s /\ run'[p].at = "row" /\ Row(p)' = Row(p) /\ Md5(p)' = m /\ SameRequest(p)
  BY <1>1, <1>2, WorksOn, SameWork DEF Moves
<1>5. \A x : References(x) \in Nat
  BY <1>2, <1>3, CountsType
<1>6. ~InFlight(p) /\ InFlight(p)' /\ ~Discarding(p) /\ ~Discarding(p)'
  BY <1>1, <1>2, <1>4 DEF InFlight, Discarding, At
<1>7. run[p].seen = RefCount(m) /\ run[p].seen # <<>>
  BY <1>1, <1>2, <1>3 DEF Tells, KnowsCount, At, IInv, RequestInv, Counted
<1>8. file_info[m] # <<>>
  BY <1>7 DEF RefCount
<1>9. Len(file_info[m]) = 1 /\ run[p].seen[1] = References(m)
  <2>1. Len(file_info[m]) = 1 /\ RefCount(m)[1] = Counts(p, m)
    BY <1>1, <1>3, <1>4, <1>8, RefKnown DEF Tells
  <2>. QED  BY <1>5, <1>6, <1>7, <2>1 DEF Counts
<1>. HIDE DEF m
<1>10. /\ SetRefCount(m, References(m) + 1) /\ References(m) + 1 \in Int
       /\ UNCHANGED <<user_file_list, user_file_count, share_file_list, storage, pending>>
  BY <1>5, <1>9 DEF AddReference, m
<1>11. /\ \A x \in Md5s : x # m => file_info'[x] = file_info[x]
       /\ Len(file_info'[m]) = 1 /\ file_info'[m][1].count = References(m) + 1
       /\ NamedIds' = NamedIds
  BY <1>2, <1>4, <1>9, <1>10, RefUpdated
<1>12. /\ \A v \in Users : RowsOf(v)' = RowsOf(v)
       /\ \A x : References(x)' = References(x)
  BY <1>10, SameLists
<1>13. OneRow'
  BY <1>3, <1>10 DEF OneRow
<1>14. Alone(p)' /\ pending' = {}
  BY <1>1, <1>2, <1>3, <1>10, KeepAlone DEF Tells
<1>15. RefsAgree(p)'
  <2>1. ASSUME NEW x \in Md5s, x # m
        PROVE  Counts(p, x)' = Counts(p, x)
    BY <1>4, <1>6, <1>12, <2>1 DEF Counts, m
  <2>2. ASSUME NEW x \in Md5s, x = m
        PROVE  Counts(p, x)' = References(m) + 1
    BY <1>4, <1>6, <1>12, <2>2 DEF Counts, m
  <2>3. References(m) + 1 # 0
    BY <1>5
  <2>. QED  BY <1>3, <1>6, <1>11, <2>1, <2>2, <2>3 DEF Tells, RefsAgree
<1>16. /\ (Uncounted(p)' <=> Uncounted(p)) /\ Slack(p)' = Slack(p) /\ (Loose(p)' <=> Loose(p))
       /\ Carries(p)
  BY <1>1, <1>2, <1>4 DEF Uncounted, Slack, Loose, At, Carries
<1>17. UsersAgree(p)' /\ SharesBounded(p)' /\ StorageAgrees(p)'
  BY <1>1, <1>3, <1>10, <1>11, <1>12, <1>16, KeepUsers, KeepShares, KeepStorage DEF Tells
<1>18. Course(p)'
  BY <1>1, <1>4 DEF Course, At, Adders
<1>19. KnowsList(p)' /\ KnowsShare(p)'
  BY <1>1, <1>2, <1>3, <1>4, <1>10 DEF Tells, KnowsList, HasNot, Has, KnowsShare, Shares, At
<1>20. KnowsCount(p)' /\ KnowsInfo(p)'
  BY <1>1, <1>4, <1>14 DEF KnowsCount, KnowsInfo, At
<1>. QED  BY <1>13, <1>14, <1>15, <1>17, <1>18, <1>19, <1>20 DEF After, Tells

LEMMA AddFileCounts ==
    ASSUME OneAtATime, CountsInv, IInv', NEW p \in Adders, AddFile(p)
    PROVE  After(p)
<1>1. p \in Programs \ {"sharefiles"}
  BY DEF Adders, Programs
<1>. QED  BY <1>1, InsertFileCounts, SelectCountCounts, WriteCountCounts, AddReferenceCounts DEF AddFile

-----------------------------------------------------------------------------
(* Steps of a program that is at work *)

LEMMA StepTells ==
    ASSUME CountsInv, NEW p \in Programs, NEW from, NEW to, from # "idle", Step(p, from, to),
           UNCHANGED pending
    PROVE  /\ IInv /\ OneRow /\ Tells(p) /\ run[p].at = from /\ OthersSame(p)
           /\ to = "END" => run'[p].at = "idle"
           /\ to # "END" => run'[p].at = to /\ SameRequest(p) /\ run'[p].seen = run[p].seen
           /\ Alone(p)' /\ pending = {} /\ pending' = {}
<1>1. IInv
  BY DEF CountsInv
<1>2. /\ run[p].at = from /\ OthersSame(p)
      /\ to = "END" => run'[p].at = "idle"
      /\ to # "END" => Moves(p, to)
  BY <1>1, StepIs
<1>3. OneRow /\ Tells(p)
  BY <1>2, AtWork
<1>4. Alone(p)' /\ pending = {} /\ pending' = {}
  BY <1>2, <1>3, KeepAlone DEF Tells
<1>. QED  BY <1>1, <1>2, <1>3, <1>4 DEF Moves

LEMMA SelectTells ==
    ASSUME CountsInv, NEW p \in Programs, NEW from, NEW rows, NEW to, from # "idle",
           Select(p, from, rows, to)
    PROVE  /\ IInv /\ OneRow /\ Tells(p) /\ run[p].at = from /\ OthersSame(p)
           /\ rows = <<>> => run'[p].at = "idle"
           /\ rows # <<>> => run'[p].at = to /\ SameRequest(p) /\ run'[p].seen = rows
<1>1. IInv
  BY DEF CountsInv
<1>2. /\ run[p].at = from /\ OthersSame(p)
      /\ rows = <<>> => run'[p].at = "idle"
      /\ rows # <<>> => run'[p].at = to /\ SameRequest(p) /\ run'[p].seen = rows
  BY <1>1, SelectIs
<1>. QED  BY <1>1, <1>2, AtWork

LEMMA IdleIsPlain == ASSUME NEW p PROVE "idle" \in Plain(p)
BY DEF Plain

\* A step that reads, and goes on with nothing left over.
LEMMA FreeStep ==
    ASSUME OneRow, NEW p \in Programs, Tells(p), run[p].at # "idle", Free(p), OthersSame(p), Free(p)',
           UNCHANGED <<tables, storage, pending>>,
           Course(p)', KnowsList(p)', KnowsShare(p)', KnowsCount(p)', KnowsInfo(p)'
    PROVE  After(p)
BY ReadOnly DEF Free, Carries

\* A step to the next statement, or to the end, from where nothing is left over to where
\* nothing is relied on.
LEMMA PlainMove ==
    ASSUME CountsInv, NEW p \in Programs, NEW from, NEW to, from # "idle", Step(p, from, to),
           Free(p), to \in Plain(p) \cup {"END"}, UNCHANGED <<tables, storage, pending>>
    PROVE  After(p)
<1>1. /\ OneRow /\ Tells(p) /\ run[p].at = from /\ OthersSame(p)
      /\ to = "END" => run'[p].at = "idle"
      /\ to # "END" => run'[p].at = to
  BY StepTells
<1>2. run'[p].at \in Plain(p)
  BY <1>1, IdleIsPlain
<1>. QED  BY <1>1, <1>2, PlainStep

LEMMA PlainSelect ==
    ASSUME CountsInv, NEW p \in Programs, NEW from, NEW rows, NEW to, from # "idle",
           Select(p, from, rows, to), Free(p), rows = <<>> \/ to \in Plain(p),
           UNCHANGED <<tables, storage, pending>>
    PROVE  After(p)
<1>1. /\ OneRow /\ Tells(p) /\ run[p].at = from /\ OthersSame(p)
      /\ rows = <<>> => run'[p].at = "idle"
      /\ rows # <<>> => run'[p].at = to
  BY SelectTells
<1>2. run'[p].at \in Plain(p)
  BY <1>1, IdleIsPlain
<1>. QED  BY <1>1, <1>2, PlainStep

\* The tables of lists keep their rows, and only the counts, if anything, change.
LEMMA ListsKept ==
    ASSUME OneRow, UNCHANGED user_file_list
    PROVE  /\ OneRow'
           /\ \A v \in Users : RowsOf(v)' = RowsOf(v)
           /\ \A m : References(m)' = References(m)
BY SameLists DEF OneRow

LEMMA NamesKept == ASSUME UNCHANGED file_info PROVE NamedIds' = NamedIds
BY DEF NamedIds

-----------------------------------------------------------------------------
(* md5_cgi.c *)

LEMMA AskMd5Counts ==
    ASSUME CountsInv, Select("md5", "md5", RefCount(Md5("md5")), "own"),
           pending' = IF RefCount(Md5("md5")) = <<>> THEN pending \cup {Row("md5")} ELSE pending,
           UNCHANGED <<tables, storage>>
    PROVE  After("md5")
<1>. DEFINE p == "md5"
            rows == RefCount(Md5(p))
<1>1. p \in Programs /\ "md5" # "idle"
  BY DEF Programs
<1>2. /\ IInv /\ OneRow /\ Tells(p) /\ run[p].at = "md5" /\ OthersSame(p)
      /\ rows = <<>> => run'[p].at = "idle"
      /\ rows # <<>> => run'[p].at = "own" /\ SameRequest(p) /\ run'[p].seen = rows
  BY <1>1, SelectTells
<1>3. Free(p) /\ pending = {}
  <2>1. run[p].at \in Plain(p)
    BY <1>2 DEF Plain
  <2>. QED  BY <1>1, <1>2, <2>1, PlainIs DEF Tells, Alone
<1>4. CASE rows # <<>>
  <2>1. run'[p].at = "own" /\ SameRequest(p) /\ run'[p].seen = rows /\ pending' = {}
        /\ UNCHANGED pending
    BY <1>2, <1>3, <1>4
  <2>2. Free(p)' /\ Course(p)' /\ KnowsList(p)' /\ KnowsShare(p)'
    BY <2>1 DEF Free, InFlight, Discarding, Uncounted, Slack, Loose, Course, At, KnowsList, HasNot,
                Has, KnowsShare, Shares
  <2>3. RefCount(Md5(p))' = rows
    BY <2>1, SameWork DEF RefCount, tables
  <2>4. KnowsCount(p)' /\ KnowsInfo(p)'
    BY <2>1, <2>3 DEF KnowsCount, KnowsInfo, At
  <2>. QED  BY <1>1, <1>2, <1>3, <2>1, <2>2, <2>4, FreeStep
<1>5. CASE rows = <<>>
  <2>1. run'[p].at = "idle" /\ pending' = {Row(p)}
    BY <1>2, <1>3, <1>5
  <2>2. Free(p)' /\ Course(p)' /\ KnowsList(p)' /\ KnowsShare(p)'
    BY <2>1 DEF Free, InFlight, Discarding, Uncounted, Slack, Loose, Course, At, KnowsList, HasNot,
                Has, KnowsShare, Shares
  <2>3. Md5(p) \in Md5s /\ Row(p)[2] = run[p].file /\ Md5(p) = md5[run[p].file]
    BY <1>1, <1>2, WorksOn
  <2>4. file_info'[md5[Row(p)[2]]] = <<>>
    <3>1. file_info[Md5(p)] = <<>>
      BY <1>5 DEF RefCount
    <3>. QED  BY <2>3, <3>1 DEF tables
  <2>5. KnowsCount(p)' /\ KnowsInfo(p)'
    BY <2>1, <2>4 DEF KnowsCount, KnowsInfo, At
  <2>6. Alone(p)'
    BY <1>2, <2>1 DEF Tells, Alone, OthersSame
  <2>7. /\ UNCHANGED <<file_info, user_file_list, user_file_count, share_file_list>>
        /\ OneRow' /\ NamedIds' = NamedIds
        /\ \A v \in Users : RowsOf(v)' = RowsOf(v)
        /\ \A m : References(m)' = References(m)
    BY <1>2, ListsKept, NamesKept DEF tables
  <2>8. RefsAgree(p)' /\ UsersAgree(p)' /\ SharesBounded(p)' /\ StorageAgrees(p)'
    BY <1>1, <1>2, <1>3, <2>2, <2>7, KeepRefs, KeepUsers, KeepShares, KeepStorage
       DEF Tells, Free, Carries
  <2>. QED  BY <2>2, <2>5, <2>6, <2>7, <2>8 DEF After, Tells
<1>. QED  BY <1>4, <1>5

LEMMA DealMd5Counts ==
    ASSUME OneAtATime, CountsInv, IInv', deal_md5
    PROVE  After("md5")
<1>1. "md5" \in Programs /\ "md5" \in Adders /\ "own" # "idle"
  BY DEF Programs, Adders
<1>2. CASE /\ Select("md5", "md5", RefCount(Md5("md5")), "own")
           /\ pending' = IF RefCount(Md5("md5")) = <<>> THEN pending \cup {Row("md5")} ELSE pending
           /\ UNCHANGED <<tables, redis, storage, bounds>>
  BY <1>2, AskMd5Counts
<1>3. CASE /\ Step("md5", "own", IF user_file_list[Row("md5")] = <<>> THEN "ref+1" ELSE "END")
           /\ UNCHANGED <<tables, redis, storage, pending, bounds>>
  <2>. DEFINE p == "md5"
              to == IF user_file_list[Row(p)] = <<>> THEN "ref+1" ELSE "END"
  <2>1. /\ IInv /\ OneRow /\ Tells(p) /\ run[p].at = "own" /\ OthersSame(p)
        /\ to # "END" => run'[p].at = to /\ SameRequest(p) /\ run'[p].seen = run[p].seen
        /\ Alone(p)' /\ pending = {} /\ pending' = {}
    BY <1>1, <1>3, StepTells
  <2>2. Free(p)
    BY <2>1 DEF Free, InFlight, Discarding, Uncounted, Slack, Loose, At
  <2>3. CASE to = "END"
    BY <1>1, <1>3, <2>2, <2>3, PlainMove
  <2>4. CASE to # "END"
    <3>1. /\ run'[p].at = "ref+1" /\ SameRequest(p) /\ run'[p].seen = run[p].seen
          /\ user_file_list[Row(p)] = <<>>
      BY <2>1, <2>4
    <3>2. Row(p)' = Row(p) /\ Md5(p)' = Md5(p)
      BY <3>1, SameWork
    <3>3. Free(p)' /\ Course(p)' /\ KnowsShare(p)'
      BY <3>1 DEF Free, InFlight, Discarding, Uncounted, Slack, Loose, Course, At, KnowsShare, Shares
    <3>4. KnowsList(p)'
      BY <1>3, <3>1, <3>2 DEF KnowsList, HasNot, Has, At, tables
    <3>5. RefCount(Md5(p))' = RefCount(Md5(p))
      BY <1>3, <3>2 DEF RefCount, tables
    <3>6. KnowsCount(p)' /\ KnowsInfo(p)'
      BY <2>1, <3>1, <3>5 DEF Tells, KnowsCount, KnowsInfo, At
    <3>. QED  BY <1>1, <1>3, <2>1, <2>2, <3>3, <3>4, <3>6, FreeStep
  <2>. QED  BY <2>3, <2>4
<1>4. CASE AddFile("md5")
  BY <1>1, <1>4, AddFileCounts
<1>. QED  BY <1>2, <1>3, <1>4 DEF deal_md5

-----------------------------------------------------------------------------
(* upload_cgi.c *)

\* An md5 without a row of file_info has no reference.
LEMMA NoRowNoReference ==
    ASSUME OneAtATime, IInv, OneRow, NEW p \in Programs, RefsAgree(p), NEW m \in Md5s,
           file_info[m] = <<>>
    PROVE  References(m) = 0 /\ ~(InFlight(p) /\ Md5(p) = m) /\ ~(Discarding(p) /\ Md5(p) = m)
<1>1. Len(<<>>) = 0 /\ 0 # 1
  OBVIOUS
<1>2. Len(file_info[m]) # 1
  BY <1>1
<1>3. Counts(p, m) = 0 /\ ~(Discarding(p) /\ Md5(p) = m)
  BY <1>2 DEF RefsAgree
<1>4. References(m) \in Nat
  BY CountsType
<1>. QED  BY <1>3, <1>4 DEF Counts

\* The file is stored before it has a row.
LEMMA UploadCounts ==
    ASSUME OneAtATime, CountsInv, IInv', upload_to_dstorage
    PROVE  After("upload")
<1>. DEFINE p == "upload"
<1>1. p \in Programs /\ p # "sharefiles"
  BY DEF Programs
<1>2. run[p].at = "upload" /\ IInv
  BY DEF upload_to_dstorage, CountsInv
<1>3. OneRow /\ Tells(p)
  BY <1>1, <1>2, AtWork
<1>4. PICK i \in Fids : /\ storage' = storage \cup {i}
                        /\ run' = [run EXCEPT ![p].at = "info", ![p].file_id = i]
  BY DEF upload_to_dstorage
<1>5. /\ run'[p].at = "info" /\ run'[p].file_id = i /\ OthersSame(p)
      /\ run'[p].user = run[p].user /\ run'[p].file = run[p].file
  <2>. DEFINE r == [run[p] EXCEPT !.at = "info", !.file_id = i]
  <2>1. run \in [Programs -> Request] /\ run[p] \in Request
    BY <1>1, <1>2, RunIsOK DEF RunOK
  <2>2. run' = [run EXCEPT ![p] = r]
    BY <1>1, <1>4, <2>1
  <2>3. r.at = "info" /\ r.file_id = i /\ r.user = run[p].user /\ r.file = run[p].file
    BY <2>1 DEF Request
  <2>. HIDE DEF r
  <2>4. run'[p] = r /\ OthersSame(p)
    BY <1>1, <2>1, <2>2 DEF OthersSame
  <2>. QED  BY <2>3, <2>4
<1>6. /\ UNCHANGED <<file_info, user_file_list, user_file_count, share_file_list>> /\ UNCHANGED pending
      /\ OneRow' /\ NamedIds' = NamedIds
      /\ \A v \in Users : RowsOf(v)' = RowsOf(v)
      /\ \A m : References(m)' = References(m)
  BY <1>3, ListsKept, NamesKept DEF upload_to_dstorage, tables
<1>7. Alone(p)' /\ pending' = {}
  BY <1>1, <1>2, <1>3, <1>5, <1>6, KeepAlone DEF Tells
<1>8. /\ ~InFlight(p) /\ ~InFlight(p)' /\ ~Discarding(p) /\ ~Discarding(p)' /\ ~Uncounted(p) /\ ~Uncounted(p)'
      /\ Slack(p)' = Slack(p) /\ ~Loose(p) /\ Loose(p)'
      /\ Course(p)' /\ ~HasNot(p)' /\ ~Has(p)' /\ ~Shares(p)'
  BY <1>2, <1>5 DEF InFlight, Discarding, Uncounted, Slack, Loose, Course, HasNot, Has, Shares, At
<1>9. RefsAgree(p)' /\ UsersAgree(p)' /\ SharesBounded(p)'
  BY <1>1, <1>3, <1>6, <1>8, KeepRefs, KeepUsers, KeepShares DEF Tells, Carries
<1>10. StorageAgrees(p)'
  BY <1>3, <1>4, <1>5, <1>6, <1>8 DEF Tells, StorageAgrees
<1>11. file_info'[Md5(p)'] = <<>>
  <2>1. file_info[Md5(p)] = <<>>
    BY <1>2, <1>3 DEF Tells, KnowsInfo, At
  <2>. QED  BY <1>5, <1>6, <2>1 DEF Md5
<1>12. KnowsList(p)' /\ KnowsShare(p)' /\ KnowsCount(p)' /\ KnowsInfo(p)'
  BY <1>5, <1>7, <1>8, <1>11 DEF KnowsList, KnowsShare, KnowsCount, KnowsInfo, At
<1>. QED  BY <1>6, <1>7, <1>8, <1>9, <1>10, <1>12 DEF After, Tells

\* The row of file_info counts a reference before the list has its row.
LEMMA StoreInfoCounts ==
    ASSUME OneAtATime, CountsInv, IInv', Step("upload", "info", "row"),
           file_info' = [file_info EXCEPT ![Md5("upload")] =
                            Append(@, [file_id |-> run["upload"].file_id, count |-> 1])],
           UNCHANGED <<user_file_list, user_file_count, share_file_list, storage, pending>>
    PROVE  After("upload")
<1>. DEFINE p == "upload"
            m == Md5(p)
            i == run[p].file_id
<1>1. p \in Programs /\ p # "sharefiles" /\ "info" # "idle" /\ "row" # "END"
  BY DEF Programs
<1>2. /\ IInv /\ OneRow /\ Tells(p) /\ run[p].at = "info" /\ OthersSame(p)
      /\ run'[p].at = "row" /\ SameRequest(p)
      /\ Alone(p)' /\ pending' = {}
  BY <1>1, StepTells
<1>3. /\ m \in Md5s /\ Row(p) = <<run[p].user, run[p].file>> /\ m = md5[run[p].file]
      /\ run[p].user \in Users /\ run[p].file \in Files
      /\ Row(p)' = Row(p) /\ Md5(p)' = m
  BY <1>1, <1>2, WorksOn, SameWork
<1>4. file_info[m] = <<>>
  BY <1>2 DEF Tells, KnowsInfo, At
<1>5. References(m) = 0
  BY <1>1, <1>2, <1>3, <1>4, NoRowNoReference DEF Tells
<1>6. user_file_list[Row(p)] = <<>>
  <2>1. user_file_list[Row(p)] # <<>> => References(m) > 0
    BY <1>2, <1>3, HasRow
  <2>2. ~(0 > 0)
    OBVIOUS
  <2>. QED  BY <1>5, <2>1, <2>2
<1>7. /\ OneRow' /\ \A v \in Users : RowsOf(v)' = RowsOf(v)
      /\ \A x : References(x)' = References(x)
  BY <1>2, ListsKept
<1>8. /\ InFlight(p)' /\ ~InFlight(p) /\ ~Discarding(p) /\ ~Discarding(p)' /\ ~Uncounted(p) /\ ~Uncounted(p)'
      /\ Slack(p)' = Slack(p) /\ Loose(p) /\ ~Loose(p)'
      /\ Course(p)' /\ ~Has(p)' /\ ~Shares(p)'
  BY <1>2 DEF InFlight, Discarding, Uncounted, Slack, Loose, Course, Has, Shares, At
<1>. DEFINE t == <<[file_id |-> i, count |-> 1]>>
<1>9. Len(t) = 1 /\ t[1].count = 1 /\ t[1].file_id = i /\ t # <<>>
  OBVIOUS
<1>10. file_info'[m] = t /\ \A x \in Md5s : x # m => file_info'[x] = file_info[x]
  <2>1. file_info \in [Md5s -> Seq(InfoRow)]
    BY <1>2, <1>3, InfoType
  <2>2. file_info' = [file_info EXCEPT ![m] = t]
    BY <1>4
  <2>. QED  BY <1>3, <2>1, <2>2
<1>. HIDE DEF t, m, i
<1>11. RefsAgree(p)'
  <2>1. ASSUME NEW x \in Md5s, x # m
        PROVE  Counts(p, x)' = Counts(p, x)
    BY <1>3, <1>7, <1>8, <2>1 DEF Counts
  <2>2. ASSUME NEW x \in Md5s, x = m
        PROVE  Counts(p, x)' = 1
    BY <1>3, <1>5, <1>7, <1>8, <2>2 DEF Counts
  <2>3. ASSUME NEW x \in Md5s, x = m
        PROVE  Len(file_info'[x]) = 1 /\ file_info'[x][1].count = 1 /\ 1 # 0
    BY <1>9, <1>10, <2>3
  <2>. QED  BY <1>2, <1>8, <1>10, <2>1, <2>2, <2>3 DEF Tells, RefsAgree
<1>12. UsersAgree(p)' /\ SharesBounded(p)'
  BY <1>1, <1>2, <1>7, <1>8, KeepUsers, KeepShares DEF Tells, Carries
<1>13. StorageAgrees(p)'
  <2>1. NamedIds' = NamedIds \cup {i}
    BY <1>3, <1>4, <1>9, <1>10 DEF NamedIds
  <2>2. storage = NamedIds \cup {i}
    BY <1>2, <1>8 DEF Tells, StorageAgrees, i
  <2>. QED  BY <1>8, <2>1, <2>2 DEF StorageAgrees
<1>14. KnowsList(p)' /\ KnowsShare(p)' /\ KnowsCount(p)' /\ KnowsInfo(p)'
  BY <1>2, <1>3, <1>6, <1>8 DEF KnowsList, KnowsShare, KnowsCount, KnowsInfo, At
<1>. QED  BY <1>2, <1>7, <1>8, <1>11, <1>12, <1>13, <1>14 DEF After, Tells

LEMMA StoreFileinfoCounts ==
    ASSUME OneAtATime, CountsInv, IInv', store_fileinfo_to_mysql
    PROVE  After("upload")
<1>1. "upload" \in Adders
  BY DEF Adders
<1>. QED  BY <1>1, StoreInfoCounts, AddFileCounts DEF store_fileinfo_to_mysql

-----------------------------------------------------------------------------
(* dealfile_cgi.c, share_file *)

\* A statement that writes the status of the rows of a list, where nothing is left over.
LEMMA StatusCounts ==
    ASSUME IInv, IInv', OneRow, NEW p \in Programs, Tells(p), run[p].at # "idle", Free(p),
           OthersSame(p), Free(p)',
           NEW row \in Users \X Files, NEW x, SetShared(row, x),
           UNCHANGED <<file_info, user_file_count, share_file_list, storage, pending>>,
           Course(p)', KnowsList(p)', KnowsShare(p)', KnowsCount(p)', KnowsInfo(p)'
    PROVE  After(p)
<1>1. ASSUME NEW r \in Users \X Files PROVE DOMAIN user_file_list'[r] = DOMAIN user_file_list[r]
  <2>1. user_file_list \in [Users \X Files -> Seq({0, 1})]
    BY DEF IInv, TypeOK
  <2>. QED  BY <2>1 DEF SetShared
<1>2. /\ \A v \in Users : RowsOf(v)' = RowsOf(v)
      /\ \A m : References(m)' = References(m)
  BY <1>1, SameLists
<1>3. OneRow'
  <2>1. ASSUME NEW r \in Users \X Files PROVE Len(user_file_list'[r]) <= 1
    <3>1. user_file_list[r] \in Seq({0, 1}) /\ user_file_list'[r] \in Seq({0, 1})
      BY DEF IInv, TypeOK
    <3>2. Len(user_file_list'[r]) = Len(user_file_list[r])
      BY <1>1, <3>1
    <3>. QED  BY <3>2 DEF OneRow
  <2>. QED  BY <2>1 DEF OneRow
<1>4. Alone(p)'
  BY KeepAlone DEF Tells
<1>5. RefsAgree(p)' /\ UsersAgree(p)' /\ SharesBounded(p)' /\ StorageAgrees(p)'
  BY <1>2, NamesKept, KeepRefs, KeepUsers, KeepShares, KeepStorage DEF Tells, Free, Carries
<1>. QED  BY <1>3, <1>4, <1>5 DEF After, Tells

\* A step that changes the shares or their count, by as much as the slack allows.
LEMMA ShareListCounts ==
    ASSUME OneRow, NEW p \in Programs, Tells(p), run[p].at # "idle", OthersSame(p), SharesBounded(p)',
           UNCHANGED <<file_info, user_file_list, storage, pending>>,
           \A u \in Users : user_file_count'[u] = user_file_count[u],
           ~InFlight(p), ~Discarding(p), ~Uncounted(p), ~Loose(p),
           ~InFlight(p)', ~Discarding(p)', ~Uncounted(p)', ~Loose(p)',
           Course(p)', KnowsList(p)', KnowsShare(p)', KnowsCount(p)', KnowsInfo(p)'
    PROVE  After(p)
<1>1. Carries(p)
  BY DEF Carries
<1>2. /\ OneRow' /\ \A v \in Users : RowsOf(v)' = RowsOf(v)
      /\ \A m : References(m)' = References(m)
  BY ListsKept
<1>3. Alone(p)'
  BY KeepAlone DEF Tells
<1>4. RefsAgree(p)' /\ UsersAgree(p)' /\ StorageAgrees(p)'
  BY <1>1, <1>2, NamesKept, KeepRefs, KeepUsers, KeepStorage DEF Tells
<1>. QED  BY <1>2, <1>3, <1>4 DEF After, Tells

\* The share is there before it is counted.
LEMMA ShareRowCounts ==
    ASSUME OneAtATime, CountsInv, IInv', Step("dealfile", "share row", "count"),
           share_file_list' = [share_file_list EXCEPT ![Row("dealfile")] = @ + 1],
           UNCHANGED <<file_info, user_file_list, user_file_count, storage, pending>>
    PROVE  After("dealfile")
<1>. DEFINE p == "dealfile"
<1>1. p \in Programs /\ p # "sharefiles" /\ "share row" # "idle" /\ "count" # "END"
  BY DEF Programs
<1>2. /\ IInv /\ OneRow /\ Tells(p) /\ run[p].at = "share row" /\ OthersSame(p)
      /\ run'[p].at = "count" /\ SameRequest(p) /\ pending' = {}
  BY <1>1, StepTells
<1>3. Row(p) \in Users \X Files /\ Row(p)' = Row(p) /\ Row(p) = <<run[p].user, run[p].file>>
      /\ run[p].user \in Users
  BY <1>1, <1>2, WorksOn, SameWork
<1>4. share_file_list[Row(p)] = 0
  BY <1>2, <1>3 DEF IInv, ShareInv
<1>5. share_file_list' = [share_file_list EXCEPT ![Row(p)] = 1] /\ share_file_list'[Row(p)] = 1
  <2>1. share_file_list \in [Users \X Files -> Nat]
    BY <1>2 DEF IInv, TypeOK
  <2>2. PICK r \in Users \X Files : r = Row(p)
    BY <1>3
  <2>3. share_file_list' = [share_file_list EXCEPT ![r] = share_file_list[r] + 1] /\ share_file_list[r] = 0
    BY <1>4, <2>2
  <2>4. share_file_list' = [share_file_list EXCEPT ![r] = 1]
    <3>1. share_file_list[r] + 1 = 1
      BY ONLY <2>3
    <3>. QED  BY ONLY <2>3, <3>1
  <2>. QED  BY <2>1, <2>2, <2>4
<1>6. Cardinality(ShareRows') = Cardinality(ShareRows) + 1 /\ Cardinality(ShareRows) \in Nat
  <2>1. (share_file_list \in ShareMaps)'
    BY SharesAreMap, PTL
  <2>. QED  BY <1>2, <1>3, <1>4, <1>5, <2>1, ShareAddedCount, FiniteShares
<1>7. /\ Slack(p) = 0 /\ Slack(p)' = 0 - 1
      /\ ~InFlight(p) /\ ~Discarding(p) /\ ~Uncounted(p) /\ ~Loose(p)
      /\ ~InFlight(p)' /\ ~Discarding(p)' /\ ~Uncounted(p)' /\ ~Loose(p)'
      /\ Course(p)' /\ ~HasNot(p)' /\ ~Has(p)'
  BY <1>2 DEF Slack, InFlight, Discarding, Uncounted, Loose, Course, HasNot, Has, At
<1>8. SharesBounded(p)'
  <2>1. PICK c \in Nat : c = Cardinality(ShareRows) /\ Cardinality(ShareRows') = c + 1
    BY <1>6
  <2>2. c + 1 + (0 - 1) = c + 0
    BY ONLY <2>1
  <2>. QED  BY <1>2, <1>7, <2>1, <2>2 DEF Tells, SharesBounded
<1>9. KnowsList(p)' /\ KnowsShare(p)' /\ KnowsCount(p)' /\ KnowsInfo(p)'
  <2>1. share_file_list'[Row(p)'] = 1 /\ 1 > 0
    BY ONLY <1>3, <1>5
  <2>. QED  BY <1>2, <1>7, <2>1 DEF KnowsList, KnowsShare, KnowsCount, KnowsInfo, At
<1>. QED  BY <1>1, <1>2, <1>7, <1>8, <1>9, ShareListCounts

\* A share is counted once it is there, so the count is not above the shares.
LEMMA CountShareCounts ==
    ASSUME OneAtATime, CountsInv, WriteCount("dealfile")
    PROVE  After("dealfile")
<1>. DEFINE p == "dealfile"
            o == SHARE_COUNT
            c == Cardinality(ShareRows)
<1>1. p \in Programs /\ p # "sharefiles" /\ "count+1" # "idle" /\ "zadd" # "END" /\ Owner(p) = o
  BY DEF Programs, Owner
<1>2. run[p].at = "count+1"
  BY DEF WriteCount
<1>3. IInv /\ OneRow /\ Tells(p)
  BY <1>1, <1>2, AtWork
<1>4. /\ Row(p) \in Users \X Files /\ o \in Owners /\ o \notin Users
      /\ user_file_count \in [Owners -> Seq(Int)] /\ Len(user_file_count[o]) <= 1
  BY <1>1, <1>2, <1>3, WorksOn, CloudAssumption DEF IInv, TypeOK
<1>5. run[p].seen = user_file_count[o]
  BY <1>1, <1>2, <1>3 DEF Tells, KnowsCount, At
<1>6. Step(p, "count+1", "zadd") /\ UNCHANGED pending
  BY <1>1, <1>5 DEF WriteCount
<1>7. OthersSame(p) /\ run'[p].at = "zadd" /\ pending' = {}
  BY <1>1, <1>6, StepTells
<1>8. c \in Nat /\ c > 0
  <2>1. share_file_list[Row(p)] > 0
    BY <1>2, <1>3 DEF Tells, KnowsShare, Shares, At
  <2>2. <<Row(p), 1>> \in ShareRows
    <3>1. share_file_list[Row(p)] \in Nat
      BY <1>3, <1>4 DEF IInv, TypeOK
    <3>2. 1 \in 1..share_file_list[Row(p)]
      BY <2>1, <3>1
    <3>3. <<Row(p), 1>> \in {Row(p)} \X (1..share_file_list[Row(p)])
      BY <3>2
    <3>. QED  BY <1>4, <3>3 DEF ShareRows
  <2>3. ShareRows # {}
    BY <2>2
  <2>. QED  BY <1>3, <2>3, FiniteShares, FS_EmptySet
<1>9. /\ Slack(p) = 0 - 1 /\ Slack(p)' = 0
      /\ ~InFlight(p) /\ ~Discarding(p) /\ ~Uncounted(p) /\ ~Loose(p)
  BY <1>2, <1>7 DEF Slack, InFlight, Discarding, Uncounted, Loose, At
<1>10. PICK n \in Int : user_file_count' = [user_file_count EXCEPT ![o] = <<n>>] /\ n <= c
  <2>1. CASE user_file_count[o] = <<>>
    <3>1. user_file_count' = [user_file_count EXCEPT ![o] = <<1>>]
      BY <1>1, <1>5, <2>1 DEF WriteCount
    <3>2. 1 \in Int /\ 1 <= c
      BY <1>8
    <3>. QED  BY ONLY <3>1, <3>2
  <2>2. CASE user_file_count[o] # <<>>
    <3>1. user_file_count[o] \in Seq(Int)
      BY <1>4
    <3>2. 1 \in DOMAIN user_file_count[o] /\ user_file_count[o][1] \in Int
      BY <2>2, <3>1
    <3>3. user_file_count[o][1] <= c + (0 - 1)
      BY <1>3, <1>9, <3>2 DEF Tells, SharesBounded
    <3>4. SetCount(o, user_file_count[o][1] + 1)
      BY <1>1, <1>5, <2>2 DEF WriteCount
    <3>5. user_file_count' = [user_file_count EXCEPT ![o] = <<user_file_count[o][1] + 1>>]
      BY <2>2, <3>4 DEF SetCount
    <3>6. user_file_count[o][1] + 1 \in Int /\ user_file_count[o][1] + 1 <= c
      BY <1>8, <3>2, <3>3
    <3>. QED  BY <3>5, <3>6
  <2>. QED  BY <2>1, <2>2
<1>11. user_file_count'[o] = <<n>> /\ \A u \in Users : user_file_count'[u] = user_file_count[u]
  BY <1>4, <1>10 DEF Owners
<1>12. UNCHANGED <<file_info, user_file_list, share_file_list, storage, pending>>
  BY DEF WriteCount
<1>13. SharesBounded(p)'
  <2>1. ASSUME NEW k \in DOMAIN user_file_count'[o] PROVE user_file_count'[o][k] = n
    BY <1>11
  <2>2. Cardinality(ShareRows)' = c
    BY <1>12 DEF ShareRows
  <2>3. n <= c + 0
    BY <1>8, <1>10
  <2>. QED  BY <1>9, <2>1, <2>2, <2>3 DEF SharesBounded
<1>14. run'[p].at \in Plain(p)
  BY <1>7 DEF Plain
<1>15. /\ Free(p)' /\ Course(p)'
       /\ KnowsList(p)' /\ KnowsShare(p)' /\ KnowsCount(p)' /\ KnowsInfo(p)'
  BY <1>1, <1>7, <1>14, PlainKnows
<1>. QED  BY <1>1, <1>2, <1>3, <1>7, <1>9, <1>11, <1>12, <1>13, <1>15, ShareListCounts DEF Free

LEMMA ShareFileCounts ==
    ASSUME OneAtATime, CountsInv, IInv', share_file
    PROVE  After("dealfile")
<1>. DEFINE p == "dealfile"
<1>1. p \in Programs /\ p # "sharefiles"
  BY DEF Programs
<1>2. ASSUME run[p].at \in {"share", "shared?", "zadd again", "status", "zadd", "hset"} PROVE Free(p)
  <2>1. run[p].at \in Plain(p)
    BY <1>2 DEF Plain
  <2>. QED  BY <1>1, <2>1, PlainIs
<1>3. ASSUME NEW from \in {"share", "shared?", "zadd again", "zadd", "hset"},
             NEW to \in {"END", "shared?", "zadd again", "status", "hset"},
             Step(p, from, to), UNCHANGED <<tables, storage, pending>>
      PROVE  After(p)
  <2>1. from # "idle" /\ to \in Plain(p) \cup {"END"}
    BY DEF Plain
  <2>2. Free(p)
    BY <1>2, <1>3, StepAt
  <2>. QED  BY <1>1, <1>3, <2>1, <2>2, PlainMove
<1>4. CASE /\ Step(p, "status", "share row") /\ SetShared(Row(p), 1)
           /\ UNCHANGED <<file_info, user_file_count, share_file_list, redis, storage, pending, bounds>>
  <2>1. "status" # "idle" /\ "share row" # "END"
    OBVIOUS
  <2>2. /\ IInv /\ OneRow /\ Tells(p) /\ run[p].at = "status" /\ OthersSame(p)
        /\ run'[p].at = "share row" /\ pending' = {}
    BY <1>1, <1>4, <2>1, StepTells
  <2>3. run'[p].at \in Plain(p)
    BY <2>2 DEF Plain
  <2>4. /\ Free(p)' /\ Course(p)'
        /\ KnowsList(p)' /\ KnowsShare(p)' /\ KnowsCount(p)' /\ KnowsInfo(p)'
    BY <1>1, <2>2, <2>3, PlainKnows
  <2>5. Row(p) \in Users \X Files
    BY <1>1, <2>2, WorksOn
  <2>. QED  BY <1>1, <1>2, <1>4, <2>2, <2>4, <2>5, StatusCounts
<1>5. CASE SelectCount(p)
  BY <1>1, <1>5, SelectCountCounts
<1>6. CASE WriteCount(p)
  BY <1>6, CountShareCounts
<1>. QED  BY <1>3, <1>4, <1>5, <1>6, ShareRowCounts DEF share_file

-----------------------------------------------------------------------------
(* dealfile_cgi.c, del_file: the share *)

LEMMA CountEntry ==
    ASSUME IInv, NEW o \in Owners
    PROVE  /\ user_file_count \in [Owners -> Seq(Int)]
           /\ \A k \in DOMAIN user_file_count[o] : user_file_count[o][k] \in Int
           /\ user_file_count[o] # <<>> => 1 \in DOMAIN user_file_count[o]
<1>1. user_file_count \in [Owners -> Seq(Int)] /\ user_file_count[o] \in Seq(Int)
  BY DEF IInv, TypeOK
<1>. QED  BY <1>1

\* A share goes, and the number of shared files may be above the shares by as much more.
LEMMA UnshareBounded ==
    ASSUME OneAtATime, IInv, IInv', NEW p \in Programs, SharesBounded(p), NEW r \in Users \X Files,
           share_file_list' = [share_file_list EXCEPT ![r] = 0], UNCHANGED user_file_count,
           Slack(p) \in Int, Slack(p)' \in Int, Slack(p) + share_file_list[r] <= Slack(p)'
    PROVE  SharesBounded(p)'
<1>1. (share_file_list \in ShareMaps)'
  BY SharesAreMap, PTL
<1>2. /\ Cardinality(ShareRows') = Cardinality(ShareRows) - share_file_list[r]
      /\ Cardinality(ShareRows) \in Nat /\ share_file_list[r] \in Nat
  BY <1>1, ShareDroppedCount, FiniteShares, ListsType
<1>3. Cardinality(ShareRows) + Slack(p) <= Cardinality(ShareRows') + Slack(p)'
  <2>1. PICK c, d, n, x, y : /\ c = Cardinality(ShareRows) /\ d = Cardinality(ShareRows')
                             /\ n = share_file_list[r] /\ x = Slack(p) /\ y = Slack(p)'
    OBVIOUS
  <2>2. d = c - n /\ c \in Nat /\ n \in Nat /\ x \in Int /\ y \in Int /\ x + n <= y
    BY <1>2, <2>1
  <2>3. c + x <= d + y
    BY ONLY <2>2
  <2>. QED  BY <2>1, <2>3
<1>4. Cardinality(ShareRows') \in Int
  BY <1>2
<1>5. SHARE_COUNT \in Owners
  BY DEF Owners
<1>6. ASSUME NEW k \in DOMAIN user_file_count[SHARE_COUNT]
      PROVE  user_file_count[SHARE_COUNT][k] <= Cardinality(ShareRows') + Slack(p)'
  <2>1. /\ user_file_count[SHARE_COUNT][k] \in Int
        /\ user_file_count[SHARE_COUNT][k] <= Cardinality(ShareRows) + Slack(p)
    BY <1>5, CountEntry DEF SharesBounded
  <2>2. PICK a, b, e : /\ a = user_file_count[SHARE_COUNT][k] /\ b = Cardinality(ShareRows) + Slack(p)
                       /\ e = Cardinality(ShareRows') + Slack(p)'
    OBVIOUS
  <2>3. a \in Int /\ b \in Int /\ e \in Int /\ a <= b /\ b <= e
    BY <1>2, <1>3, <1>4, <2>1, <2>2
  <2>4. a <= e
    BY ONLY <2>3
  <2>. QED  BY <2>2, <2>4
<1>. QED  BY <1>6 DEF SharesBounded

\* The number of shared files goes down by one, or its row goes.
LEMMA LowerBounded ==
    ASSUME OneAtATime, IInv, NEW p \in Programs, SharesBounded(p), UNCHANGED share_file_list,
           user_file_count[SHARE_COUNT] # <<>>,
           user_file_count'[SHARE_COUNT] \in {<<>>, <<user_file_count[SHARE_COUNT][1] - 1>>},
           Slack(p) \in Int, Slack(p)' = Slack(p) - 1
    PROVE  SharesBounded(p)'
<1>1. SHARE_COUNT \in Owners
  BY DEF Owners
<1>2. Cardinality(ShareRows') = Cardinality(ShareRows) /\ Cardinality(ShareRows) \in Nat
  BY FiniteShares DEF ShareRows
<1>3. /\ user_file_count[SHARE_COUNT][1] \in Int
      /\ user_file_count[SHARE_COUNT][1] <= Cardinality(ShareRows) + Slack(p)
  BY <1>1, CountEntry DEF SharesBounded
<1>4. user_file_count[SHARE_COUNT][1] - 1 <= Cardinality(ShareRows') + Slack(p)'
  BY <1>2, <1>3
<1>5. ASSUME NEW k \in DOMAIN user_file_count'[SHARE_COUNT]
      PROVE  user_file_count'[SHARE_COUNT][k] <= Cardinality(ShareRows') + Slack(p)'
  <2>1. CASE user_file_count'[SHARE_COUNT] = <<>>
    BY <2>1, EmptyDomain
  <2>2. CASE user_file_count'[SHARE_COUNT] = <<user_file_count[SHARE_COUNT][1] - 1>>
    BY <1>4, <2>2
  <2>. QED  BY <2>1, <2>2
<1>. QED  BY <1>5 DEF SharesBounded

\* The places of del_file while the user's list has the file.
Deleting == {"del", "status?", "unshare", "zrem", "hdel", "files", "files-1"}

\* Between two of them the tables stay as they are.
LEMMA DeletingStep ==
    ASSUME OneRow, NEW p, p = "dealfile", Tells(p), run[p].at \in Deleting, OthersSame(p),
           SameRequest(p), run'[p].at \in Deleting, UNCHANGED <<tables, storage, pending>>,
           run'[p].at = "files-1" => run'[p].seen = user_file_count[User(p)]
    PROVE  After(p)
<1>1. p \in Programs /\ run[p].at # "idle"
  BY DEF Programs, Deleting
<1>2. pending' = {}
  BY <1>1, KeepAlone DEF Tells
<1>3. Free(p) /\ Has(p)
  BY DEF Deleting, Free, InFlight, Discarding, Uncounted, Slack, Loose, Has, At
<1>4. Free(p)' /\ Course(p)' /\ ~HasNot(p)' /\ ~Shares(p)'
  BY DEF Deleting, Free, InFlight, Discarding, Uncounted, Slack, Loose, Course, HasNot, Shares, At
<1>5. KnowsList(p)' /\ KnowsShare(p)'
  BY <1>3, <1>4, SameWork DEF Tells, KnowsList, KnowsShare, tables
<1>6. KnowsCount(p)' /\ KnowsInfo(p)'
  <2>1. run'[p].at = "files-1" => run'[p].seen = user_file_count'[User(p)']
    BY SameWork DEF tables
  <2>. QED  BY <1>2, <2>1 DEF Deleting, KnowsCount, KnowsInfo, At
<1>. QED  BY <1>1, <1>3, <1>4, <1>5, <1>6, FreeStep

LEMMA DeletingMove ==
    ASSUME CountsInv, NEW from \in Deleting, NEW to \in Deleting \ {"files-1"}, Step("dealfile", from, to),
           UNCHANGED <<tables, storage, pending>>
    PROVE  After("dealfile")
<1>1. "dealfile" \in Programs /\ from # "idle" /\ to # "END" /\ to # "files-1"
  BY DEF Programs, Deleting
<1>2. /\ IInv /\ OneRow /\ Tells("dealfile") /\ run["dealfile"].at = from /\ OthersSame("dealfile")
      /\ run'["dealfile"].at = to /\ SameRequest("dealfile")
  BY <1>1, StepTells
<1>. QED  BY <1>1, <1>2, DeletingStep

\* Redis is asked whether the file is shared.
LEMMA AskSharedCounts ==
    ASSUME CountsInv, NEW ret2 \in {0, 1}, run["dealfile"].at = "del",
           run' = [run EXCEPT !["dealfile"].at = IF ret2 = 1 THEN "unshare" ELSE "status?",
                              !["dealfile"].flag = ret2],
           UNCHANGED <<tables, storage, pending>>
    PROVE  After("dealfile")
<1>. DEFINE p == "dealfile"
            to == IF ret2 = 1 THEN "unshare" ELSE "status?"
            r == [run[p] EXCEPT !.at = to, !.flag = ret2]
<1>1. p \in Programs /\ IInv
  BY DEF Programs, CountsInv
<1>2. run \in [Programs -> Request] /\ run[p] \in Request
  BY <1>1, RunIsOK DEF RunOK
<1>3. run' = [run EXCEPT ![p] = r]
  BY <1>1, <1>2
<1>4. r.at = to /\ r.user = run[p].user /\ r.file = run[p].file /\ r.file_id = run[p].file_id
  BY <1>2 DEF Request
<1>. HIDE DEF r
<1>5. OthersSame(p) /\ run'[p] = r
  BY <1>1, <1>2, <1>3 DEF OthersSame
<1>6. SameRequest(p) /\ run'[p].at = to
  BY <1>4, <1>5 DEF SameRequest
<1>7. run[p].at \in Deleting /\ to \in Deleting /\ to # "files-1" /\ run[p].at # "idle"
  BY DEF Deleting
<1>8. OneRow /\ Tells(p)
  BY <1>1, <1>7, AtWork
<1>. QED  BY <1>5, <1>6, <1>7, <1>8, DeletingStep

\* The share goes before the count.
LEMMA UnshareCounts ==
    ASSUME OneAtATime, CountsInv, IInv', Step("dealfile", "unshare", "shares"),
           share_file_list' = [share_file_list EXCEPT ![Row("dealfile")] = 0],
           UNCHANGED <<file_info, user_file_list, user_file_count, storage, pending>>
    PROVE  After("dealfile")
<1>. DEFINE p == "dealfile"
<1>1. p \in Programs /\ p # "sharefiles" /\ "unshare" # "idle" /\ "shares" # "END"
  BY DEF Programs
<1>2. /\ IInv /\ OneRow /\ Tells(p) /\ run[p].at = "unshare" /\ OthersSame(p)
      /\ run'[p].at = "shares" /\ SameRequest(p) /\ pending' = {}
  BY <1>1, StepTells
<1>3. Row(p) \in Users \X Files /\ Row(p)' = Row(p)
  BY <1>1, <1>2, WorksOn, SameWork
<1>4. /\ Slack(p) = 0 /\ Slack(p)' = 1
      /\ ~InFlight(p) /\ ~Discarding(p) /\ ~Uncounted(p) /\ ~Loose(p) /\ Has(p)
      /\ ~InFlight(p)' /\ ~Discarding(p)' /\ ~Uncounted(p)' /\ ~Loose(p)'
      /\ Course(p)' /\ ~HasNot(p)' /\ Has(p)' /\ ~Shares(p)'
  BY <1>2 DEF Slack, InFlight, Discarding, Uncounted, Loose, Course, HasNot, Has, Shares, At
<1>5. SharesBounded(p)'
  <2>1. share_file_list[Row(p)] \in {0, 1}
    BY <1>2, <1>3, SharesAreMap DEF ShareMaps
  <2>2. Slack(p) \in Int /\ Slack(p)' \in Int /\ Slack(p) + share_file_list[Row(p)] <= Slack(p)'
    BY <1>4, <2>1
  <2>. QED  BY <1>1, <1>2, <1>3, <2>2, UnshareBounded DEF Tells
<1>6. KnowsList(p)' /\ KnowsShare(p)' /\ KnowsCount(p)' /\ KnowsInfo(p)'
  BY <1>2, <1>3, <1>4 DEF Tells, KnowsList, KnowsShare, KnowsCount, KnowsInfo, At
<1>. QED  BY <1>1, <1>2, <1>4, <1>5, <1>6, ShareListCounts

\* The number of shared files is read.  Without its row the request ends, and that row
\* says nothing of the shares.
LEMMA ReadSharesCounts ==
    ASSUME CountsInv, Select("dealfile", "shares", user_file_count[SHARE_COUNT], "shares-1"),
           UNCHANGED <<tables, storage, pending>>
    PROVE  After("dealfile")
<1>. DEFINE p == "dealfile"
            rows == user_file_count[SHARE_COUNT]
<1>1. p \in Programs /\ p # "sharefiles" /\ "shares" # "idle"
  BY DEF Programs
<1>2. /\ IInv /\ OneRow /\ Tells(p) /\ run[p].at = "shares" /\ OthersSame(p)
      /\ rows = <<>> => run'[p].at = "idle"
      /\ rows # <<>> => run'[p].at = "shares-1" /\ SameRequest(p) /\ run'[p].seen = rows
  BY <1>1, SelectTells
<1>3. pending' = {}
  BY <1>1, <1>2, KeepAlone DEF Tells
<1>4. ~InFlight(p) /\ ~Discarding(p) /\ ~Uncounted(p) /\ ~Loose(p) /\ Has(p) /\ Slack(p) = 1
  BY <1>2 DEF Slack, InFlight, Discarding, Uncounted, Loose, Has, At
<1>5. UNCHANGED <<file_info, user_file_list, user_file_count, share_file_list>>
  BY DEF tables
<1>6. CASE rows = <<>>
  <2>1. run'[p].at \in Plain(p)
    BY <1>2, <1>6 DEF Plain
  <2>2. /\ Free(p)' /\ Course(p)'
        /\ KnowsList(p)' /\ KnowsShare(p)' /\ KnowsCount(p)' /\ KnowsInfo(p)'
    BY <1>1, <1>3, <2>1, PlainKnows
  <2>3. SharesBounded(p)'
    BY <1>5, <1>6, EmptyDomain DEF SharesBounded
  <2>. QED  BY <1>1, <1>2, <1>4, <1>5, <2>2, <2>3, ShareListCounts DEF Free
<1>7. CASE rows # <<>>
  <2>1. run'[p].at = "shares-1" /\ SameRequest(p) /\ run'[p].seen = rows
    BY <1>2, <1>7
  <2>2. /\ ~InFlight(p)' /\ ~Discarding(p)' /\ ~Uncounted(p)' /\ ~Loose(p)' /\ Slack(p)' = Slack(p)
        /\ Course(p)' /\ ~HasNot(p)' /\ ~Shares(p)'
    BY <1>4, <2>1 DEF Slack, InFlight, Discarding, Uncounted, Loose, Course, HasNot, Shares, At
  <2>3. KnowsList(p)' /\ KnowsShare(p)'
    BY <1>2, <1>4, <1>5, <2>1, <2>2, SameWork DEF Tells, KnowsList, KnowsShare
  <2>4. KnowsCount(p)' /\ KnowsInfo(p)'
    BY <1>3, <1>5, <2>1 DEF KnowsCount, KnowsInfo, At
  <2>5. SharesBounded(p)'
    BY <1>1, <1>2, <1>5, <2>2, KeepShares DEF Tells
  <2>. QED  BY <1>1, <1>2, <1>4, <1>5, <2>2, <2>3, <2>4, <2>5, ShareListCounts
<1>. QED  BY <1>6, <1>7

\* The number of shared files goes down.
LEMMA LowerSharesCounts ==
    ASSUME OneAtATime, CountsInv, NEW to \in {"zrem", "files"}, Step("dealfile", "shares-1", to),
           SetCount(SHARE_COUNT, run["dealfile"].seen[1] - 1),
           UNCHANGED <<file_info, user_file_list, share_file_list, storage, pending>>
    PROVE  After("dealfile")
<1>. DEFINE p == "dealfile"
            o == SHARE_COUNT
<1>1. p \in Programs /\ p # "sharefiles" /\ "shares-1" # "idle" /\ to # "END"
  BY DEF Programs
<1>2. /\ IInv /\ OneRow /\ Tells(p) /\ run[p].at = "shares-1" /\ OthersSame(p)
      /\ run'[p].at = to /\ SameRequest(p) /\ pending' = {}
  BY <1>1, StepTells
<1>3. /\ ~InFlight(p) /\ ~Discarding(p) /\ ~Uncounted(p) /\ ~Loose(p) /\ Has(p) /\ Slack(p) = 1
      /\ ~InFlight(p)' /\ ~Discarding(p)' /\ ~Uncounted(p)' /\ ~Loose(p)' /\ Slack(p)' = 0
      /\ Course(p)' /\ ~HasNot(p)' /\ ~Shares(p)'
  BY <1>2 DEF Slack, InFlight, Discarding, Uncounted, Loose, Has, Course, HasNot, Shares, At
<1>4. run[p].seen = user_file_count[o] /\ run[p].seen # <<>>
  BY <1>1, <1>2 DEF Tells, KnowsCount, At, IInv, RequestInv, Counted
<1>5. /\ user_file_count \in [Owners -> Seq(Int)] /\ o \in Owners /\ o \notin Users
  BY <1>2, CloudAssumption DEF IInv, TypeOK, Owners
<1>6. user_file_count' = [user_file_count EXCEPT ![o] = <<user_file_count[o][1] - 1>>]
  BY <1>4 DEF SetCount
<1>7. /\ user_file_count'[o] = <<user_file_count[o][1] - 1>>
      /\ \A u \in Users : user_file_count'[u] = user_file_count[u]
  BY <1>5, <1>6 DEF Owners
<1>8. SharesBounded(p)'
  <2>1. Slack(p) \in Int /\ Slack(p)' = Slack(p) - 1
    BY ONLY <1>3
  <2>. QED  BY <1>1, <1>2, <1>4, <1>7, <2>1, LowerBounded DEF Tells
<1>9. KnowsList(p)' /\ KnowsShare(p)'
  BY <1>2, <1>3, SameWork DEF Tells, KnowsList, KnowsShare
<1>10. KnowsCount(p)' /\ KnowsInfo(p)'
  BY <1>2 DEF KnowsCount, KnowsInfo, At
<1>. QED  BY <1>1, <1>2, <1>3, <1>7, <1>8, <1>9, <1>10, ShareListCounts

LEMMA UnshareFileCounts ==
    ASSUME OneAtATime, CountsInv, IInv', unshare_file
    PROVE  After("dealfile")
<1>. DEFINE p == "dealfile"
<1>1. CASE /\ run[p].at = "del"
           /\ \E ret2 \in rop_zset_exit(File(p)) :
                 run' = [run EXCEPT ![p].at = IF ret2 = 1 THEN "unshare" ELSE "status?",
                                    ![p].flag = ret2]
           /\ UNCHANGED <<tables, redis, storage, pending, bounds>>
  <2>1. PICK ret2 \in {0, 1} : run' = [run EXCEPT ![p].at = IF ret2 = 1 THEN "unshare" ELSE "status?",
                                                  ![p].flag = ret2]
    BY <1>1 DEF rop_zset_exit
  <2>. QED  BY <1>1, <2>1, AskSharedCounts
<1>2. ASSUME NEW from \in {"status?", "zrem", "hdel"}, NEW to \in {"unshare", "files", "hdel"},
             Step(p, from, to), UNCHANGED <<tables, storage, pending>>
      PROVE  After(p)
  <2>1. from \in Deleting /\ to \in Deleting \ {"files-1"}
    BY DEF Deleting
  <2>. QED  BY <1>2, <2>1, DeletingMove
<1>3. CASE /\ Step(p, "unshare", "shares")
           /\ share_file_list' = [share_file_list EXCEPT ![Row(p)] = 0]
           /\ UNCHANGED <<file_info, user_file_list, user_file_count, redis, storage, pending, bounds>>
  BY <1>3, UnshareCounts
<1>4. CASE /\ Select(p, "shares", user_file_count[SHARE_COUNT], "shares-1")
           /\ UNCHANGED <<tables, redis, storage, pending, bounds>>
  BY <1>4, ReadSharesCounts
<1>5. CASE /\ Step(p, "shares-1", IF run[p].flag = 1 THEN "zrem" ELSE "files")
           /\ SetCount(SHARE_COUNT, run[p].seen[1] - 1)
           /\ UNCHANGED <<file_info, user_file_list, share_file_list, redis, storage, pending, bounds>>
  BY <1>5, LowerSharesCounts
<1>. QED  BY <1>1, <1>2, <1>3, <1>4, <1>5 DEF unshare_file

-----------------------------------------------------------------------------
(* dealfile_cgi.c, del_file: the file *)

\* The user's count goes down before the row goes.
LEMMA LowerFilesCounts ==
    ASSUME OneAtATime, CountsInv, Step("dealfile", "files-1", "del row"),
           \/ /\ run["dealfile"].seen[1] = 1
              /\ user_file_count' = [user_file_count EXCEPT ![User("dealfile")] = <<>>]
           \/ /\ run["dealfile"].seen[1] # 1
              /\ SetCount(User("dealfile"), run["dealfile"].seen[1] - 1),
           UNCHANGED <<file_info, user_file_list, share_file_list, storage, pending>>
    PROVE  After("dealfile")
<1>. DEFINE p == "dealfile"
            u == User(p)
            n == RowsOf(u)
<1>1. p \in Programs /\ p # "sharefiles" /\ "files-1" # "idle" /\ "del row" # "END"
  BY DEF Programs
<1>2. /\ IInv /\ OneRow /\ Tells(p) /\ run[p].at = "files-1" /\ OthersSame(p)
      /\ run'[p].at = "del row" /\ SameRequest(p) /\ Alone(p)' /\ pending' = {}
  BY <1>1, StepTells
<1>3. /\ run[p].user \in Users /\ run[p].file \in Files /\ Row(p) = <<run[p].user, run[p].file>>
      /\ u = run[p].user /\ u \in Owners /\ u # SHARE_COUNT /\ SHARE_COUNT \in Owners
      /\ Row(p)' = Row(p) /\ User(p)' = u
  BY <1>1, <1>2, WorksOn, SameWork
<1>4. /\ ~InFlight(p) /\ ~Discarding(p) /\ ~Uncounted(p) /\ ~Loose(p) /\ Slack(p) = 0 /\ Has(p)
      /\ ~InFlight(p)' /\ ~Discarding(p)' /\ Uncounted(p)' /\ ~Loose(p)' /\ Slack(p)' = 0
      /\ Course(p)' /\ ~HasNot(p)' /\ ~Shares(p)'
  BY <1>2 DEF Slack, InFlight, Discarding, Uncounted, Loose, Has, Course, HasNot, Shares, At
<1>5. user_file_list[Row(p)] # <<>>
  BY <1>2, <1>4 DEF Tells, KnowsList
<1>6. n \in Nat /\ n > 0 /\ \A v \in Users : RowsOf(v) \in Nat
  BY <1>2, <1>3, <1>5, HasRow, CountsType
<1>7. user_file_count[u] = CountRow(n - 0) /\ run[p].seen = user_file_count[u]
  BY <1>2, <1>3, <1>4 DEF Tells, UsersAgree, KnowsCount, At
<1>. HIDE DEF u, n
<1>8. user_file_count[u] = <<n>> /\ run[p].seen[1] = n /\ user_file_count[u] # <<>>
  BY ONLY <1>6, <1>7 DEF CountRow
<1>9. user_file_count' = [user_file_count EXCEPT ![u] = CountRow(n - 1)]
  <2>1. CASE n = 1
    <3>1. CountRow(n - 1) = <<>>
      BY ONLY <2>1 DEF CountRow
    <3>. QED  BY <1>8, <2>1, <3>1 DEF u
  <2>2. CASE n # 1
    <3>1. CountRow(n - 1) = <<n - 1>>
      BY ONLY <1>6, <2>2 DEF CountRow
    <3>2. SetCount(u, n - 1)
      BY <1>8, <2>2 DEF u
    <3>. QED  BY <1>8, <3>1, <3>2 DEF SetCount
  <2>. QED  BY <2>1, <2>2
<1>10. \A o \in Owners : user_file_count'[o] = IF o = u THEN CountRow(n - 1) ELSE user_file_count[o]
  BY <1>2, <1>9 DEF IInv, TypeOK
<1>11. /\ OneRow' /\ NamedIds' = NamedIds /\ Carries(p)
       /\ \A v \in Users : RowsOf(v)' = RowsOf(v)
       /\ \A m : References(m)' = References(m)
  BY <1>2, ListsKept, NamesKept DEF Carries
<1>12. RefsAgree(p)' /\ SharesBounded(p)' /\ StorageAgrees(p)'
  BY <1>1, <1>2, <1>3, <1>4, <1>10, <1>11, KeepRefs, KeepShares, KeepStorage DEF Tells
<1>13. UsersAgree(p)'
  <2>1. ASSUME NEW v \in Users
        PROVE  user_file_count'[v] = CountRow(RowsOf(v)' - (IF User(p)' = v THEN 1 ELSE 0))
    <3>1. v \in Owners /\ RowsOf(v)' = RowsOf(v)
      BY <1>11 DEF Owners
    <3>2. CASE v = u
      BY <1>3, <1>10, <3>1, <3>2 DEF n
    <3>3. CASE v # u
      <4>1. user_file_count[v] = CountRow(RowsOf(v) - 0)
        BY <1>2, <1>4 DEF Tells, UsersAgree
      <4>. QED  BY <1>3, <1>10, <3>1, <3>3, <4>1
    <3>. QED  BY <3>2, <3>3
  <2>. QED  BY <1>4, <2>1 DEF UsersAgree
<1>14. KnowsList(p)' /\ KnowsShare(p)' /\ KnowsCount(p)' /\ KnowsInfo(p)'
  BY <1>2, <1>3, <1>4, <1>5 DEF KnowsList, KnowsShare, KnowsCount, KnowsInfo, At
<1>. QED  BY <1>2, <1>4, <1>11, <1>12, <1>13, <1>14 DEF After, Tells

LEMMA EmptyShort == Len(<<>>) <= 1
OBVIOUS

\* The row goes before the reference to the file.
LEMMA DropRowCounts ==
    ASSUME OneAtATime, CountsInv, IInv', Step("dealfile", "del row", "ref"),
           user_file_list' = [user_file_list EXCEPT ![Row("dealfile")] = <<>>],
           UNCHANGED <<file_info, user_file_count, share_file_list, storage, pending>>
    PROVE  After("dealfile")
<1>. DEFINE p == "dealfile"
            u == run[p].user
            f == run[p].file
<1>1. p \in Programs /\ p # "sharefiles" /\ "del row" # "idle" /\ "ref" # "END"
  BY DEF Programs
<1>2. /\ IInv /\ OneRow /\ Tells(p) /\ run[p].at = "del row" /\ OthersSame(p)
      /\ run'[p].at = "ref" /\ SameRequest(p) /\ Alone(p)' /\ pending' = {}
  BY <1>1, StepTells
<1>3. /\ u \in Users /\ f \in Files /\ Row(p) = <<u, f>> /\ <<u, f>> \in Users \X Files
      /\ Md5(p) = md5[f] /\ User(p) = u /\ User(p)' = u /\ Md5(p)' = md5[f]
  BY <1>1, <1>2, WorksOn, SameWork
<1>4. /\ ~InFlight(p) /\ ~Discarding(p) /\ Uncounted(p) /\ ~Loose(p) /\ Slack(p) = 0 /\ Has(p)
      /\ InFlight(p)' /\ ~Discarding(p)' /\ ~Uncounted(p)' /\ ~Loose(p)' /\ Slack(p)' = 0
      /\ Course(p)' /\ ~Has(p)' /\ ~HasNot(p)' /\ ~Shares(p)'
  BY <1>2 DEF Slack, InFlight, Discarding, Uncounted, Loose, Has, Course, HasNot, Shares, At
<1>5. user_file_list[<<u, f>>] # <<>>
  BY <1>2, <1>3, <1>4 DEF Tells, KnowsList
<1>6. \A r \in Users \X Files : user_file_list'[r] = IF r = <<u, f>> THEN <<>> ELSE user_file_list[r]
  BY <1>2, <1>3 DEF IInv, TypeOK
<1>. HIDE DEF u, f
<1>7. OneRow'
  BY ONLY <1>2, <1>6, EmptyShort DEF OneRow
<1>8. (user_file_list \in Lists)' /\ RowDropped(<<u, f>>)
  <2>1. (user_file_list \in Lists)'
    BY <1>7 DEF IInv, TypeOK, OneRow, Lists
  <2>2. RowDropped(<<u, f>>)
    BY <1>3, <1>5, <1>6 DEF RowDropped
  <2>. QED  BY <2>1, <2>2
<1>9. /\ \A v \in Users : RowsOf(v)' = RowsOf(v) - (IF v = u THEN 1 ELSE 0)
      /\ \A m : References(m)' = References(m) - (IF m = md5[f] THEN 1 ELSE 0)
  BY <1>2, <1>3, <1>8, RowDroppedCounts
<1>10. /\ \A v \in Users : RowsOf(v) \in Nat
       /\ \A m : References(m) \in Nat
  BY <1>2, CountsType
<1>11. RefsAgree(p)'
  <2>1. \A m \in Md5s : Counts(p, m)' = Counts(p, m)
    BY ONLY <1>3, <1>4, <1>9, <1>10 DEF Counts
  <2>. QED  BY <1>2, <1>4, <2>1 DEF Tells, RefsAgree
<1>12. UsersAgree(p)'
  <2>1. \A v \in Users : user_file_count[v] = CountRow(RowsOf(v) - (IF u = v THEN 1 ELSE 0))
    BY <1>2, <1>3, <1>4 DEF Tells, UsersAgree
  <2>2. \A v \in Users : RowsOf(v)' - 0 = RowsOf(v) - (IF u = v THEN 1 ELSE 0)
    BY ONLY <1>3, <1>9, <1>10
  <2>. QED  BY <1>4, <2>1, <2>2 DEF UsersAgree
<1>13. SharesBounded(p)'
  BY <1>1, <1>2, <1>4, KeepShares DEF Tells
<1>14. StorageAgrees(p)'
  BY <1>2, <1>4, NamesKept DEF Tells, StorageAgrees
<1>15. KnowsList(p)' /\ KnowsShare(p)' /\ KnowsCount(p)' /\ KnowsInfo(p)'
  BY <1>2, <1>4 DEF KnowsList, KnowsShare, KnowsCount, KnowsInfo, At
<1>. QED  BY <1>2, <1>4, <1>7, <1>11, <1>12, <1>13, <1>14, <1>15 DEF After, Tells

\* The number of references is read: the row is there, for the reference that goes.
LEMMA ReadRefCounts ==
    ASSUME OneAtATime, CountsInv, Select("dealfile", "ref", RefCount(Md5("dealfile")), "ref-1"),
           UNCHANGED <<tables, storage, pending>>
    PROVE  After("dealfile")
<1>. DEFINE p == "dealfile"
            rows == RefCount(Md5(p))
<1>1. p \in Programs /\ p # "sharefiles" /\ "ref" # "idle"
  BY DEF Programs
<1>2. /\ IInv /\ OneRow /\ Tells(p) /\ run[p].at = "ref" /\ OthersSame(p)
      /\ rows # <<>> => run'[p].at = "ref-1" /\ SameRequest(p) /\ run'[p].seen = rows
  BY <1>1, SelectTells
<1>3. pending' = {} /\ Md5(p) \in Md5s
  BY <1>1, <1>2, KeepAlone, WorksOn DEF Tells
<1>4. InFlight(p) /\ ~Discarding(p) /\ ~Uncounted(p) /\ ~Loose(p) /\ Slack(p) = 0
  BY <1>2 DEF Slack, InFlight, Discarding, Uncounted, Loose, At
<1>5. rows # <<>>
  <2>1. file_info[Md5(p)] # <<>>
    BY <1>1, <1>2, <1>3, <1>4, NoRowNoReference DEF Tells
  <2>. QED  BY <2>1 DEF RefCount
<1>6. run'[p].at = "ref-1" /\ SameRequest(p) /\ run'[p].seen = rows
  BY <1>2, <1>5
<1>7. /\ InFlight(p)' /\ ~Discarding(p)' /\ ~Uncounted(p)' /\ ~Loose(p)' /\ Slack(p)' = 0
      /\ Course(p)' /\ ~HasNot(p)' /\ ~Has(p)' /\ ~Shares(p)'
  BY <1>6 DEF Slack, InFlight, Discarding, Uncounted, Loose, Has, Course, HasNot, Shares, At
<1>8. RefCount(Md5(p))' = rows
  BY <1>6, SameWork DEF RefCount, tables
<1>9. KnowsList(p)' /\ KnowsShare(p)' /\ KnowsCount(p)' /\ KnowsInfo(p)'
  BY <1>3, <1>6, <1>7, <1>8 DEF KnowsList, KnowsShare, KnowsCount, KnowsInfo, At
<1>. QED  BY <1>1, <1>2, <1>4, <1>6, <1>7, <1>9, ReadOnly DEF Carries

\* The reference goes, and the last one takes the file with it.
LEMMA DropReferenceCounts ==
    ASSUME OneAtATime, CountsInv,
           Step("dealfile", "ref-1", IF run["dealfile"].seen[1] - 1 = 0 THEN "file_id" ELSE "END"),
           SetRefCount(Md5("dealfile"), run["dealfile"].seen[1] - 1),
           UNCHANGED <<user_file_list, user_file_count, share_file_list, storage, pending>>
    PROVE  After("dealfile")
<1>. DEFINE p == "dealfile"
            m == Md5(p)
            n == References(m)
            to == IF run[p].seen[1] - 1 = 0 THEN "file_id" ELSE "END"
<1>1. p \in Programs /\ p # "sharefiles" /\ "ref-1" # "idle" /\ "file_id" # "END"
  BY DEF Programs
<1>2. /\ IInv /\ OneRow /\ Tells(p) /\ run[p].at = "ref-1" /\ OthersSame(p)
      /\ to = "END" => run'[p].at = "idle"
      /\ to # "END" => run'[p].at = to /\ SameRequest(p)
      /\ Alone(p)' /\ pending' = {}
  BY <1>1, StepTells
<1>3. m \in Md5s
  BY <1>1, <1>2, WorksOn
<1>4. \A x : References(x) \in Nat
  BY <1>2, CountsType
<1>5. InFlight(p) /\ ~Discarding(p) /\ ~Uncounted(p) /\ ~Loose(p) /\ Slack(p) = 0
  BY <1>2 DEF Slack, InFlight, Discarding, Uncounted, Loose, At
<1>6. run[p].seen = RefCount(m) /\ run[p].seen # <<>>
  BY <1>1, <1>2 DEF Tells, KnowsCount, At, IInv, RequestInv, Counted
<1>7. file_info[m] # <<>>
  BY <1>6 DEF RefCount
<1>8. Len(file_info[m]) = 1 /\ run[p].seen[1] - 1 = n /\ n \in Nat
  <2>1. Len(file_info[m]) = 1 /\ RefCount(m)[1] = Counts(p, m)
    BY <1>1, <1>2, <1>3, <1>7, RefKnown DEF Tells
  <2>2. Counts(p, m) = n + 1
    BY <1>5 DEF Counts
  <2>3. run[p].seen[1] = n + 1 /\ n \in Nat
    BY <1>4, <1>6, <2>1, <2>2
  <2>. HIDE DEF n, m
  <2>4. run[p].seen[1] - 1 = n
    BY ONLY <2>3
  <2>. QED  BY <2>1, <2>3, <2>4
<1>9. SetRefCount(m, n) /\ n \in Int
  BY <1>8
<1>. HIDE DEF m, n
<1>10. /\ \A x \in Md5s : x # m => file_info'[x] = file_info[x]
       /\ Len(file_info'[m]) = 1 /\ file_info'[m][1].count = n
       /\ NamedIds' = NamedIds
  BY <1>2, <1>3, <1>8, <1>9, RefUpdated
<1>11. /\ OneRow' /\ \A v \in Users : RowsOf(v)' = RowsOf(v)
       /\ \A x : References(x)' = References(x)
  BY <1>2, ListsKept
<1>12. ASSUME NEW x \in Md5s, ~InFlight(p)'
       PROVE  Counts(p, x)' = References(x) /\ (x # m => Counts(p, x) = References(x))
  <2>1. Counts(p, x)' = References(x) + 0
    BY <1>11, <1>12 DEF Counts
  <2>2. x # m => Counts(p, x) = References(x) + 0
    BY DEF Counts, m
  <2>3. References(x) + 0 = References(x)
    BY ONLY <1>4
  <2>. QED  BY <2>1, <2>2, <2>3
<1>13. CASE n = 0
  <2>1. run'[p].at = "file_id" /\ SameRequest(p)
    BY <1>1, <1>2, <1>8, <1>13
  <2>2. /\ ~InFlight(p)' /\ Discarding(p)' /\ ~Uncounted(p)' /\ ~Loose(p)' /\ Slack(p)' = 0
        /\ Course(p)' /\ ~HasNot(p)' /\ ~Has(p)' /\ ~Shares(p)'
    BY <2>1 DEF Slack, InFlight, Discarding, Uncounted, Loose, Course, HasNot, Has, Shares, At
  <2>3. Md5(p)' = m /\ Carries(p)
    BY <2>1, SameWork DEF m, Carries
  <2>4. RefsAgree(p)'
    <3>1. ASSUME NEW x \in Md5s, x # m
          PROVE  IF Counts(p, x)' = 0 THEN file_info'[x] = <<>>
                 ELSE Len(file_info'[x]) = 1 /\ file_info'[x][1].count = Counts(p, x)'
      BY <1>2, <1>5, <1>10, <1>12, <2>2, <3>1 DEF Tells, RefsAgree
    <3>2. ASSUME NEW x \in Md5s, x = m
          PROVE  Len(file_info'[x]) = 1 /\ file_info'[x][1].count = Counts(p, x)'
      BY <1>10, <1>12, <2>2, <3>2 DEF n
    <3>. QED  BY <2>2, <2>3, <3>1, <3>2 DEF RefsAgree
  <2>5. UsersAgree(p)' /\ SharesBounded(p)' /\ StorageAgrees(p)'
    BY <1>1, <1>2, <1>5, <1>10, <1>11, <2>2, <2>3, KeepUsers, KeepShares, KeepStorage DEF Tells
  <2>6. References(Md5(p))' = 0
    <3>1. References(m) = 0
      BY <1>13 DEF n
    <3>2. References(Md5(p))' = References(m)
      BY <1>11, <2>3 DEF References
    <3>. QED  BY <3>1, <3>2
  <2>7. KnowsList(p)' /\ KnowsShare(p)' /\ KnowsCount(p)' /\ KnowsInfo(p)'
    BY <1>2, <2>1, <2>2, <2>6 DEF KnowsList, KnowsShare, KnowsCount, KnowsInfo, At
  <2>. QED  BY <1>2, <1>11, <2>2, <2>4, <2>5, <2>7 DEF After, Tells
<1>14. CASE n # 0
  <2>1. run'[p].at = "idle"
    BY <1>1, <1>2, <1>8, <1>14
  <2>2. run'[p].at \in Plain(p) /\ Carries(p)
    BY <2>1 DEF Plain, Carries
  <2>3. /\ Free(p)' /\ Course(p)'
        /\ KnowsList(p)' /\ KnowsShare(p)' /\ KnowsCount(p)' /\ KnowsInfo(p)'
    BY <1>1, <1>2, <2>2, PlainKnows
  <2>4. RefsAgree(p)'
    <3>1. ASSUME NEW x \in Md5s, x # m
          PROVE  IF Counts(p, x)' = 0 THEN file_info'[x] = <<>>
                 ELSE Len(file_info'[x]) = 1 /\ file_info'[x][1].count = Counts(p, x)'
      BY <1>2, <1>5, <1>10, <1>12, <2>3, <3>1 DEF Tells, RefsAgree, Free
    <3>2. ASSUME NEW x \in Md5s, x = m
          PROVE  /\ Counts(p, x)' # 0
                 /\ Len(file_info'[x]) = 1 /\ file_info'[x][1].count = Counts(p, x)'
      BY <1>10, <1>12, <1>14, <2>3, <3>2 DEF n, Free
    <3>. QED  BY <2>3, <3>1, <3>2 DEF RefsAgree, Free
  <2>5. UsersAgree(p)' /\ SharesBounded(p)' /\ StorageAgrees(p)'
    BY <1>1, <1>2, <1>5, <1>10, <1>11, <2>2, <2>3, KeepUsers, KeepShares, KeepStorage DEF Tells, Free
  <2>. QED  BY <1>2, <1>11, <2>3, <2>4, <2>5 DEF After, Tells
<1>. QED  BY <1>13, <1>14

LEMMA DisownFileCounts ==
    ASSUME OneAtATime, CountsInv, IInv', disown_file
    PROVE  After("dealfile")
<1>. DEFINE p == "dealfile"
<1>1. CASE /\ Select(p, "files", user_file_count[User(p)], "files-1")
           /\ UNCHANGED <<tables, redis, storage, pending, bounds>>
  <2>. DEFINE rows == user_file_count[User(p)]
  <2>1. p \in Programs /\ "files" # "idle" /\ "files" \in Deleting /\ "files-1" \in Deleting
    BY DEF Programs, Deleting
  <2>2. /\ OneRow /\ Tells(p) /\ run[p].at = "files" /\ OthersSame(p)
        /\ rows = <<>> => run'[p].at = "idle"
        /\ rows # <<>> => run'[p].at = "files-1" /\ SameRequest(p) /\ run'[p].seen = rows
    BY <1>1, <2>1, SelectTells
  <2>3. CASE rows = <<>>
    <3>1. Free(p)
      BY <2>2 DEF Free, InFlight, Discarding, Uncounted, Slack, Loose, At
    <3>. QED  BY <1>1, <2>1, <2>3, <3>1, PlainSelect
  <2>4. CASE rows # <<>>
    BY <1>1, <2>1, <2>2, <2>4, DeletingStep
  <2>. QED  BY <2>3, <2>4
<1>2. CASE /\ Step(p, "files-1", "del row")
           /\ \/ /\ run[p].seen[1] = 1
                 /\ user_file_count' = [user_file_count EXCEPT ![User(p)] = <<>>]
              \/ /\ run[p].seen[1] # 1
                 /\ SetCount(User(p), run[p].seen[1] - 1)
           /\ UNCHANGED <<file_info, user_file_list, share_file_list, redis, storage, pending, bounds>>
  BY <1>2, LowerFilesCounts
<1>3. CASE /\ Step(p, "del row", "ref")
           /\ user_file_list' = [user_file_list EXCEPT ![Row(p)] = <<>>]
           /\ UNCHANGED <<file_info, user_file_count, share_file_list, redis, storage, pending, bounds>>
  BY <1>3, DropRowCounts
<1>4. CASE /\ Select(p, "ref", RefCount(Md5(p)), "ref-1")
           /\ UNCHANGED <<tables, redis, storage, pending, bounds>>
  BY <1>4, ReadRefCounts
<1>5. CASE /\ Step(p, "ref-1", IF run[p].seen[1] - 1 = 0 THEN "file_id" ELSE "END")
           /\ SetRefCount(Md5(p), run[p].seen[1] - 1)
           /\ UNCHANGED <<user_file_list, user_file_count, share_file_list, redis, storage, pending, bounds>>
  BY <1>5, DropReferenceCounts
<1>. QED  BY <1>1, <1>2, <1>3, <1>4, <1>5 DEF disown_file

-----------------------------------------------------------------------------
(* dealfile_cgi.c, del_file: the stored file *)

\* The row that is to go says which file.
LEMMA FetchIdCounts ==
    ASSUME OneAtATime, CountsInv, run["dealfile"].at = "file_id",
           run' = [run EXCEPT !["dealfile"] =
                     IF file_info[Md5("dealfile")] = <<>> THEN Idle
                     ELSE [@ EXCEPT !.at = "del info",
                                    !.file_id = file_info[Md5("dealfile")][1].file_id]],
           UNCHANGED <<tables, storage, pending>>
    PROVE  After("dealfile")
<1>. DEFINE p == "dealfile"
            m == Md5(p)
            i == file_info[m][1].file_id
            r == [run[p] EXCEPT !.at = "del info", !.file_id = i]
<1>1. p \in Programs /\ p # "sharefiles" /\ "file_id" # "idle"
  BY DEF Programs
<1>2. IInv /\ OneRow /\ Tells(p)
  BY <1>1, AtWork
<1>3. m \in Md5s
  BY <1>1, <1>2, WorksOn
<1>4. Discarding(p) /\ ~InFlight(p) /\ ~Uncounted(p) /\ ~Loose(p) /\ Slack(p) = 0
  BY DEF Slack, InFlight, Discarding, Uncounted, Loose, At
<1>5. file_info[m] # <<>>
  BY <1>1, <1>2, <1>3, <1>4, NoRowNoReference DEF Tells
<1>6. /\ run'[p].at = "del info" /\ run'[p].file_id = i /\ OthersSame(p)
      /\ run'[p].user = run[p].user /\ run'[p].file = run[p].file
  <2>1. run \in [Programs -> Request] /\ run[p] \in Request
    BY <1>1, <1>2, RunIsOK DEF RunOK
  <2>2. run' = [run EXCEPT ![p] = r]
    BY <1>1, <1>5, <2>1
  <2>3. r.at = "del info" /\ r.file_id = i /\ r.user = run[p].user /\ r.file = run[p].file
    BY <2>1 DEF Request
  <2>. HIDE DEF r
  <2>4. run'[p] = r /\ OthersSame(p)
    BY <1>1, <2>1, <2>2 DEF OthersSame
  <2>. QED  BY <2>3, <2>4
<1>7. Md5(p)' = m
  BY <1>6 DEF Md5
<1>8. /\ UNCHANGED <<file_info, user_file_list, user_file_count, share_file_list>>
      /\ OneRow' /\ NamedIds' = NamedIds
      /\ \A v \in Users : RowsOf(v)' = RowsOf(v)
      /\ \A x : References(x)' = References(x)
  BY <1>2, ListsKept, NamesKept DEF tables
<1>9. Alone(p)' /\ pending' = {}
  BY <1>1, <1>2, <1>6, KeepAlone DEF Tells
<1>10. /\ Discarding(p)' /\ ~InFlight(p)' /\ ~Uncounted(p)' /\ ~Loose(p)' /\ Slack(p)' = 0
       /\ Course(p)' /\ ~HasNot(p)' /\ ~Has(p)' /\ ~Shares(p)'
  BY <1>6 DEF Slack, InFlight, Discarding, Uncounted, Loose, Course, HasNot, Has, Shares, At
<1>11. RefsAgree(p)'
  <2>1. \A x \in Md5s : Counts(p, x)' = Counts(p, x)
    BY <1>4, <1>8, <1>10 DEF Counts
  <2>. QED  BY <1>2, <1>4, <1>7, <1>8, <1>10, <2>1 DEF Tells, RefsAgree
<1>12. UsersAgree(p)'
  BY <1>2, <1>4, <1>8, <1>10 DEF Tells, UsersAgree
<1>13. SharesBounded(p)' /\ StorageAgrees(p)'
  BY <1>1, <1>2, <1>4, <1>8, <1>10, KeepShares DEF Tells, StorageAgrees
<1>14. References(Md5(p))' = 0 /\ run'[p].file_id = file_info'[Md5(p)'][1].file_id
  <2>1. References(m) = 0
    BY <1>2 DEF Tells, KnowsInfo, At
  <2>2. References(Md5(p))' = References(m)
    BY <1>7, <1>8 DEF References
  <2>. QED  BY <1>6, <1>7, <1>8, <2>1, <2>2
<1>15. KnowsList(p)' /\ KnowsShare(p)' /\ KnowsCount(p)' /\ KnowsInfo(p)'
  BY <1>6, <1>9, <1>10, <1>14 DEF KnowsList, KnowsShare, KnowsCount, KnowsInfo, At
<1>. QED  BY <1>8, <1>9, <1>10, <1>11, <1>12, <1>13, <1>15 DEF After, Tells

\* The row goes, and the file is stored without one.
LEMMA DropInfoCounts ==
    ASSUME OneAtATime, CountsInv, Step("dealfile", "del info", "del storage"),
           file_info' = [file_info EXCEPT ![Md5("dealfile")] = <<>>],
           UNCHANGED <<user_file_list, user_file_count, share_file_list, storage, pending>>
    PROVE  After("dealfile")
<1>. DEFINE p == "dealfile"
            m == Md5(p)
            i == run[p].file_id
<1>1. p \in Programs /\ p # "sharefiles" /\ "del info" # "idle" /\ "del storage" # "END"
  BY DEF Programs
<1>2. /\ IInv /\ OneRow /\ Tells(p) /\ run[p].at = "del info" /\ OthersSame(p)
      /\ run'[p].at = "del storage" /\ SameRequest(p) /\ Alone(p)' /\ pending' = {}
  BY <1>1, StepTells
<1>3. m \in Md5s /\ Md5(p)' = m /\ run'[p].file_id = i
  BY <1>1, <1>2, WorksOn, SameWork DEF SameRequest
<1>4. /\ Discarding(p) /\ ~InFlight(p) /\ ~Uncounted(p) /\ ~Loose(p) /\ Slack(p) = 0
      /\ ~Discarding(p)' /\ ~InFlight(p)' /\ ~Uncounted(p)' /\ Loose(p)' /\ Slack(p)' = 0
      /\ Course(p)' /\ ~HasNot(p)' /\ ~Has(p)' /\ ~Shares(p)'
  BY <1>2 DEF Slack, InFlight, Discarding, Uncounted, Loose, Course, HasNot, Has, Shares, At
<1>5. References(m) = 0 /\ i = file_info[m][1].file_id
  BY <1>2 DEF Tells, KnowsInfo, At
<1>6. file_info[m] # <<>>
  BY <1>1, <1>2, <1>3, <1>4, NoRowNoReference DEF Tells
<1>7. \A x \in Md5s : file_info'[x] = IF x = m THEN <<>> ELSE file_info[x]
  <2>1. file_info \in [Md5s -> Seq(InfoRow)]
    BY <1>2, <1>3, InfoType
  <2>. QED  BY <1>3, <2>1
<1>8. /\ OneRow' /\ \A v \in Users : RowsOf(v)' = RowsOf(v)
      /\ \A x : References(x)' = References(x)
  BY <1>2, ListsKept
<1>. HIDE DEF m, i
<1>9. RefsAgree(p)'
  <2>1. \A x \in Md5s : Counts(p, x)' = Counts(p, x)
    BY <1>4, <1>8 DEF Counts
  <2>2. ASSUME NEW x \in Md5s, x = m PROVE Counts(p, x)' = 0
    <3>1. Counts(p, x)' = References(x) + 0
      BY <1>4, <1>8 DEF Counts
    <3>2. References(x) = 0
      BY <1>5, <2>2
    <3>. QED  BY ONLY <3>1, <3>2
  <2>3. ASSUME NEW x \in Md5s, x # m
        PROVE  IF Counts(p, x)' = 0 THEN file_info'[x] = <<>>
               ELSE Len(file_info'[x]) = 1 /\ file_info'[x][1].count = Counts(p, x)'
    <3>1. ~(Discarding(p) /\ Md5(p) = x) /\ file_info'[x] = file_info[x]
      BY <1>7, <2>3 DEF m
    <3>. QED  BY <1>2, <2>1, <3>1 DEF Tells, RefsAgree
  <2>4. ASSUME NEW x \in Md5s, x = m
        PROVE  Counts(p, x)' = 0 /\ file_info'[x] = <<>>
    BY <1>7, <2>2, <2>4
  <2>. QED  BY <1>4, <2>3, <2>4 DEF RefsAgree
<1>10. UsersAgree(p)' /\ SharesBounded(p)'
  BY <1>1, <1>2, <1>4, <1>8, KeepShares DEF Tells, UsersAgree
<1>11. StorageAgrees(p)'
  <2>1. NamedIds = NamedIds' \cup {i}
    <3>1. ASSUME NEW a \in NamedIds PROVE a \in NamedIds' \cup {i}
      <4>1. PICK x \in Md5s : file_info[x] # <<>> /\ a = file_info[x][1].file_id
        BY DEF NamedIds
      <4>. QED  BY <1>5, <1>7, <4>1 DEF NamedIds
    <3>2. ASSUME NEW a \in NamedIds' PROVE a \in NamedIds
      <4>1. PICK x \in Md5s : file_info'[x] # <<>> /\ a = file_info'[x][1].file_id
        BY DEF NamedIds
      <4>. QED  BY <1>7, <4>1 DEF NamedIds
    <3>3. i \in NamedIds
      BY <1>3, <1>5, <1>6 DEF NamedIds
    <3>. QED  BY <3>1, <3>2, <3>3
  <2>2. storage = NamedIds
    BY <1>2, <1>4 DEF Tells, StorageAgrees
  <2>. QED  BY <1>3, <1>4, <2>1, <2>2 DEF StorageAgrees
<1>12. References(Md5(p))' = 0
  BY <1>3, <1>5, <1>8 DEF References
<1>13. KnowsList(p)' /\ KnowsShare(p)' /\ KnowsCount(p)' /\ KnowsInfo(p)'
  BY <1>2, <1>4, <1>12 DEF KnowsList, KnowsShare, KnowsCount, KnowsInfo, At
<1>. QED  BY <1>2, <1>4, <1>8, <1>9, <1>10, <1>11, <1>13 DEF After, Tells

\* The file goes: no other row names it.
LEMMA DropFileCounts ==
    ASSUME OneAtATime, CountsInv, Step("dealfile", "del storage", "END"),
           storage' = storage \ {run["dealfile"].file_id},
           UNCHANGED <<tables, pending>>
    PROVE  After("dealfile")
<1>. DEFINE p == "dealfile"
            i == run[p].file_id
<1>1. p \in Programs /\ p # "sharefiles" /\ "del storage" # "idle"
  BY DEF Programs
<1>2. /\ IInv /\ OneRow /\ Tells(p) /\ run[p].at = "del storage" /\ OthersSame(p)
      /\ run'[p].at = "idle" /\ Alone(p)' /\ pending' = {}
  BY <1>1, StepTells
<1>3. ~Discarding(p) /\ ~InFlight(p) /\ ~Uncounted(p) /\ Loose(p) /\ Slack(p) = 0
  BY <1>2 DEF Slack, InFlight, Discarding, Uncounted, Loose, At
<1>4. run'[p].at \in Plain(p) /\ Carries(p)
  BY <1>2 DEF Plain, Carries
<1>5. /\ Free(p)' /\ Course(p)'
      /\ KnowsList(p)' /\ KnowsShare(p)' /\ KnowsCount(p)' /\ KnowsInfo(p)'
  BY <1>1, <1>2, <1>4, PlainKnows
<1>6. /\ UNCHANGED <<file_info, user_file_list, user_file_count, share_file_list>>
      /\ OneRow' /\ NamedIds' = NamedIds
      /\ \A v \in Users : RowsOf(v)' = RowsOf(v)
      /\ \A x : References(x)' = References(x)
  BY <1>2, ListsKept, NamesKept DEF tables
<1>7. RefsAgree(p)' /\ UsersAgree(p)' /\ SharesBounded(p)'
  BY <1>1, <1>2, <1>3, <1>4, <1>5, <1>6, KeepRefs, KeepUsers, KeepShares DEF Tells, Free
<1>8. i \notin NamedIds
  <2>1. Unnamed(i)
    BY <1>2 DEF IInv, IdInv, DiscardUnnamed
  <2>2. ASSUME NEW m \in Md5s, file_info[m] # <<>> PROVE file_info[m][1].file_id # i
    <3>1. 1 \in DOMAIN file_info[m]
      BY <1>2, <2>2, InfoType
    <3>. QED  BY <2>1, <3>1 DEF Unnamed
  <2>. QED  BY <2>2 DEF NamedIds
<1>9. storage = NamedIds \cup {i}
  BY <1>2, <1>3 DEF Tells, StorageAgrees
<1>10. StorageAgrees(p)'
  BY <1>5, <1>6, <1>8, <1>9 DEF StorageAgrees, Free
<1>. QED  BY <1>2, <1>5, <1>6, <1>7, <1>10 DEF After, Tells

LEMMA DelFileCounts ==
    ASSUME OneAtATime, CountsInv, IInv', del_file
    PROVE  After("dealfile")
<1>1. CASE unshare_file
  BY <1>1, UnshareFileCounts
<1>2. CASE disown_file
  BY <1>2, DisownFileCounts
<1>3. CASE discard_file
  BY <1>3, FetchIdCounts, DropInfoCounts, DropFileCounts DEF discard_file
<1>. QED  BY <1>1, <1>2, <1>3 DEF del_file

-----------------------------------------------------------------------------
(* dealsharefile_cgi.c *)

\* The places of cancel_share_file while the share is there.
Cancelling == {"cancel", "shares", "shares-1"}

LEMMA CancellingIs ==
    ASSUME NEW p, p = "dealsharefile", run[p].at \in Cancelling
    PROVE  Free(p) /\ Shares(p) /\ run[p].at # "idle"
BY DEF Cancelling, Free, InFlight, Discarding, Uncounted, Slack, Loose, Shares, At

LEMMA CancellingIsNext ==
    ASSUME NEW p, p = "dealsharefile", run'[p].at \in Cancelling
    PROVE  Free(p)' /\ Course(p)' /\ ~HasNot(p)' /\ ~Has(p)'
BY DEF Cancelling, Free, InFlight, Discarding, Uncounted, Slack, Loose, Course, HasNot, Has, At

LEMMA CancelStatusCounts ==
    ASSUME CountsInv, IInv', Step("dealsharefile", "cancel", "shares"),
           SetShared(Row("dealsharefile"), 0),
           UNCHANGED <<file_info, user_file_count, share_file_list, storage, pending>>
    PROVE  After("dealsharefile")
<1>. DEFINE p == "dealsharefile"
<1>1. p \in Programs /\ p # "sharefiles" /\ "cancel" # "idle" /\ "shares" # "END"
  BY DEF Programs
<1>2. /\ IInv /\ OneRow /\ Tells(p) /\ run[p].at = "cancel" /\ OthersSame(p)
      /\ run'[p].at = "shares" /\ SameRequest(p) /\ pending' = {}
  BY <1>1, StepTells
<1>3. run[p].at \in Cancelling /\ run'[p].at \in Cancelling
  BY <1>2 DEF Cancelling
<1>4. /\ Free(p) /\ Shares(p) /\ Free(p)' /\ Course(p)' /\ ~HasNot(p)' /\ ~Has(p)'
      /\ Row(p) \in Users \X Files /\ Row(p)' = Row(p)
  BY <1>1, <1>2, <1>3, CancellingIs, CancellingIsNext, WorksOn, SameWork
<1>5. KnowsList(p)' /\ KnowsShare(p)'
  BY <1>2, <1>4 DEF Tells, KnowsList, KnowsShare
<1>6. KnowsCount(p)' /\ KnowsInfo(p)'
  BY <1>2 DEF KnowsCount, KnowsInfo, At
<1>. QED  BY <1>1, <1>2, <1>4, <1>5, <1>6, StatusCounts

LEMMA CancelReadCounts ==
    ASSUME CountsInv, Select("dealsharefile", "shares", user_file_count[SHARE_COUNT], "shares-1"),
           UNCHANGED <<tables, storage, pending>>
    PROVE  After("dealsharefile")
<1>. DEFINE p == "dealsharefile"
            rows == user_file_count[SHARE_COUNT]
<1>1. p \in Programs /\ p # "sharefiles" /\ "shares" # "idle"
  BY DEF Programs
<1>2. /\ IInv /\ OneRow /\ Tells(p) /\ run[p].at = "shares" /\ OthersSame(p)
      /\ rows # <<>> => run'[p].at = "shares-1" /\ SameRequest(p) /\ run'[p].seen = rows
  BY <1>1, SelectTells
<1>3. Free(p) /\ Shares(p)
  BY <1>2, CancellingIs DEF Cancelling
<1>4. CASE rows = <<>>
  BY <1>1, <1>3, <1>4, PlainSelect
<1>5. CASE rows # <<>>
  <2>1. run'[p].at = "shares-1" /\ SameRequest(p) /\ run'[p].seen = rows /\ pending' = {}
    BY <1>1, <1>2, <1>5, KeepAlone DEF Tells
  <2>2. Free(p)' /\ Course(p)' /\ ~HasNot(p)' /\ ~Has(p)'
    BY <2>1, CancellingIsNext DEF Cancelling
  <2>3. KnowsList(p)' /\ KnowsShare(p)'
    BY <1>2, <1>3, <2>1, <2>2, SameWork DEF Tells, KnowsList, KnowsShare, tables
  <2>4. KnowsCount(p)' /\ KnowsInfo(p)'
    BY <2>1 DEF KnowsCount, KnowsInfo, At, tables
  <2>. QED  BY <1>1, <1>2, <1>3, <2>2, <2>3, <2>4, FreeStep
<1>. QED  BY <1>4, <1>5

\* Here the count goes before the share.
LEMMA CancelLowerCounts ==
    ASSUME OneAtATime, CountsInv, Step("dealsharefile", "shares-1", "unshare"),
           \/ /\ run["dealsharefile"].seen[1] = 1
              /\ user_file_count' = [user_file_count EXCEPT ![SHARE_COUNT] = <<>>]
           \/ /\ run["dealsharefile"].seen[1] # 1
              /\ SetCount(SHARE_COUNT, run["dealsharefile"].seen[1] - 1),
           UNCHANGED <<file_info, user_file_list, share_file_list, storage, pending>>
    PROVE  After("dealsharefile")
<1>. DEFINE p == "dealsharefile"
            o == SHARE_COUNT
<1>1. p \in Programs /\ p # "sharefiles" /\ "shares-1" # "idle" /\ "unshare" # "END"
  BY DEF Programs
<1>2. /\ IInv /\ OneRow /\ Tells(p) /\ run[p].at = "shares-1" /\ OthersSame(p)
      /\ run'[p].at = "unshare" /\ SameRequest(p) /\ pending' = {}
  BY <1>1, StepTells
<1>3. /\ ~InFlight(p) /\ ~Discarding(p) /\ ~Uncounted(p) /\ ~Loose(p) /\ Shares(p) /\ Slack(p) = 0
      /\ ~InFlight(p)' /\ ~Discarding(p)' /\ ~Uncounted(p)' /\ ~Loose(p)' /\ Slack(p)' = 0 - 1
      /\ Course(p)' /\ ~HasNot(p)' /\ ~Has(p)'
  BY <1>2 DEF Slack, InFlight, Discarding, Uncounted, Loose, Has, Course, HasNot, Shares, At
<1>4. run[p].seen = user_file_count[o] /\ run[p].seen # <<>>
  BY <1>1, <1>2 DEF Tells, KnowsCount, At, IInv, RequestInv, Counted
<1>5. /\ user_file_count \in [Owners -> Seq(Int)] /\ o \in Owners /\ o \notin Users
  BY <1>2, CloudAssumption DEF IInv, TypeOK, Owners
<1>6. PICK s \in {<<>>, <<user_file_count[o][1] - 1>>} : user_file_count' = [user_file_count EXCEPT ![o] = s]
  BY <1>4 DEF SetCount
<1>7. /\ user_file_count'[o] \in {<<>>, <<user_file_count[o][1] - 1>>}
      /\ \A u \in Users : user_file_count'[u] = user_file_count[u]
  BY <1>5, <1>6 DEF Owners
<1>8. SharesBounded(p)'
  <2>1. Slack(p) \in Int /\ Slack(p)' = Slack(p) - 1
    BY ONLY <1>3
  <2>. QED  BY <1>1, <1>2, <1>4, <1>7, <2>1, LowerBounded DEF Tells
<1>9. KnowsList(p)' /\ KnowsShare(p)'
  BY <1>2, <1>3, SameWork DEF Tells, KnowsList, KnowsShare
<1>10. KnowsCount(p)' /\ KnowsInfo(p)'
  BY <1>2 DEF KnowsCount, KnowsInfo, At
<1>. QED  BY <1>1, <1>2, <1>3, <1>7, <1>8, <1>9, <1>10, ShareListCounts

LEMMA CancelUnshareCounts ==
    ASSUME OneAtATime, CountsInv, IInv', Step("dealsharefile", "unshare", "zrem"),
           share_file_list' = [share_file_list EXCEPT ![Row("dealsharefile")] = 0],
           UNCHANGED <<file_info, user_file_list, user_file_count, storage, pending>>
    PROVE  After("dealsharefile")
<1>. DEFINE p == "dealsharefile"
<1>1. p \in Programs /\ p # "sharefiles" /\ "unshare" # "idle" /\ "zrem" # "END"
  BY DEF Programs
<1>2. /\ IInv /\ OneRow /\ Tells(p) /\ run[p].at = "unshare" /\ OthersSame(p)
      /\ run'[p].at = "zrem" /\ pending' = {}
  BY <1>1, StepTells
<1>3. Row(p) \in Users \X Files
  BY <1>1, <1>2, WorksOn
<1>4. ~InFlight(p) /\ ~Discarding(p) /\ ~Uncounted(p) /\ ~Loose(p) /\ Slack(p) = 0 - 1 /\ Slack(p)' = 0
  BY <1>2 DEF Slack, InFlight, Discarding, Uncounted, Loose, At
<1>5. SharesBounded(p)'
  <2>1. share_file_list[Row(p)] \in {0, 1}
    BY <1>2, <1>3, SharesAreMap DEF ShareMaps
  <2>2. Slack(p) \in Int /\ Slack(p)' \in Int /\ Slack(p) + share_file_list[Row(p)] <= Slack(p)'
    BY ONLY <1>4, <2>1
  <2>. QED  BY <1>1, <1>2, <1>3, <2>2, UnshareBounded DEF Tells
<1>6. run'[p].at \in Plain(p)
  BY <1>2 DEF Plain
<1>7. /\ Free(p)' /\ Course(p)'
      /\ KnowsList(p)' /\ KnowsShare(p)' /\ KnowsCount(p)' /\ KnowsInfo(p)'
  BY <1>1, <1>2, <1>6, PlainKnows
<1>. QED  BY <1>1, <1>2, <1>4, <1>5, <1>7, ShareListCounts DEF Free

\* The places of dealsharefile_cgi.c that rely on nothing.
LEMMA PlainShareMove ==
    ASSUME CountsInv, NEW from \in {"zrem", "hdel", "save", "pv", "exit", "zincrby", "zadd", "hset"},
           NEW to \in {"zrem", "hdel", "exit", "zincrby", "zadd", "hset", "END"},
           Step("dealsharefile", from, to), UNCHANGED <<tables, storage, pending>>
    PROVE  After("dealsharefile")
<1>. DEFINE p == "dealsharefile"
<1>1. p \in Programs /\ from # "idle" /\ to \in Plain(p) \cup {"END"} /\ from \in Plain(p)
  BY DEF Programs, Plain
<1>2. Free(p)
  BY <1>1, StepAt, PlainIs
<1>. QED  BY <1>1, <1>2, PlainMove

LEMMA CancelCounts ==
    ASSUME OneAtATime, CountsInv, IInv', cancel_share_file
    PROVE  After("dealsharefile")
<1>. DEFINE p == "dealsharefile"
<1>1. CASE /\ Step(p, "cancel", "shares") /\ SetShared(Row(p), 0)
           /\ UNCHANGED <<file_info, user_file_count, share_file_list, redis, storage, pending, bounds>>
  BY <1>1, CancelStatusCounts
<1>2. CASE /\ Select(p, "shares", user_file_count[SHARE_COUNT], "shares-1")
           /\ UNCHANGED <<tables, redis, storage, pending, bounds>>
  BY <1>2, CancelReadCounts
<1>3. CASE /\ Step(p, "shares-1", "unshare")
           /\ \/ /\ run[p].seen[1] = 1
                 /\ user_file_count' = [user_file_count EXCEPT ![SHARE_COUNT] = <<>>]
              \/ /\ run[p].seen[1] # 1
                 /\ SetCount(SHARE_COUNT, run[p].seen[1] - 1)
           /\ UNCHANGED <<file_info, user_file_list, share_file_list, redis, storage, pending, bounds>>
  BY <1>3, CancelLowerCounts
<1>4. CASE /\ Step(p, "unshare", "zrem")
           /\ share_file_list' = [share_file_list EXCEPT ![Row(p)] = 0]
           /\ UNCHANGED <<file_info, user_file_list, user_file_count, redis, storage, pending, bounds>>
  BY <1>4, CancelUnshareCounts
<1>5. CASE /\ Step(p, "zrem", IF File(p) \in FILE_PUBLIC_ZSET THEN "hdel" ELSE "END")
           /\ FILE_PUBLIC_ZSET' = FILE_PUBLIC_ZSET \ {File(p)}
           /\ UNCHANGED <<tables, FILE_NAME_HASH, storage, pending, bounds>>
  BY <1>5, PlainShareMove
<1>6. CASE /\ Step(p, "hdel", "END")
           /\ FILE_NAME_HASH' = FILE_NAME_HASH \ {File(p)}
           /\ UNCHANGED <<tables, FILE_PUBLIC_ZSET, storage, pending, bounds>>
  BY <1>6, PlainShareMove
<1>. QED  BY <1>1, <1>2, <1>3, <1>4, <1>5, <1>6 DEF cancel_share_file

\* save_file looks whether the user has the file already, and how often it is referred to.
LEMMA SaveLookCounts ==
    ASSUME CountsInv, Step("dealsharefile", "save", IF user_file_list[Row("dealsharefile")] = <<>>
                                                    THEN "ref" ELSE "END"),
           UNCHANGED <<tables, storage, pending>>
    PROVE  After("dealsharefile")
<1>. DEFINE p == "dealsharefile"
            to == IF user_file_list[Row(p)] = <<>> THEN "ref" ELSE "END"
<1>1. p \in Programs /\ "save" # "idle" /\ "ref" # "END"
  BY DEF Programs
<1>2. /\ OneRow /\ Tells(p) /\ run[p].at = "save" /\ OthersSame(p)
      /\ to # "END" => run'[p].at = to /\ SameRequest(p) /\ run'[p].seen = run[p].seen
      /\ pending' = {}
  BY <1>1, StepTells
<1>3. CASE to = "END"
  BY <1>3, PlainShareMove
<1>4. CASE to # "END"
  <2>1. run'[p].at = "ref" /\ SameRequest(p) /\ user_file_list[Row(p)] = <<>>
    BY <1>2, <1>4
  <2>2. Free(p) /\ Free(p)' /\ Course(p)' /\ ~Has(p)' /\ ~Shares(p)'
    BY <1>2, <2>1 DEF Free, InFlight, Discarding, Uncounted, Slack, Loose, Course, At, Has, Shares
  <2>3. KnowsList(p)' /\ KnowsShare(p)'
    BY <2>1, <2>2, SameWork DEF KnowsList, KnowsShare, tables
  <2>4. KnowsCount(p)' /\ KnowsInfo(p)'
    BY <1>2, <2>1 DEF KnowsCount, KnowsInfo, At
  <2>. QED  BY <1>1, <1>2, <2>2, <2>3, <2>4, FreeStep
<1>. QED  BY <1>3, <1>4

LEMMA SaveReadCounts ==
    ASSUME CountsInv, Select("dealsharefile", "ref", RefCount(Md5("dealsharefile")), "ref+1"),
           UNCHANGED <<tables, storage, pending>>
    PROVE  After("dealsharefile")
<1>. DEFINE p == "dealsharefile"
            rows == RefCount(Md5(p))
<1>1. p \in Programs /\ "ref" # "idle"
  BY DEF Programs
<1>2. /\ OneRow /\ Tells(p) /\ run[p].at = "ref" /\ OthersSame(p)
      /\ rows # <<>> => run'[p].at = "ref+1" /\ SameRequest(p) /\ run'[p].seen = rows
  BY <1>1, SelectTells
<1>3. Free(p) /\ HasNot(p)
  BY <1>2 DEF Free, InFlight, Discarding, Uncounted, Slack, Loose, HasNot, At
<1>4. CASE rows = <<>>
  BY <1>1, <1>3, <1>4, PlainSelect
<1>5. CASE rows # <<>>
  <2>1. run'[p].at = "ref+1" /\ SameRequest(p) /\ run'[p].seen = rows /\ pending' = {}
    BY <1>1, <1>2, <1>5, KeepAlone DEF Tells
  <2>2. Free(p)' /\ Course(p)' /\ ~Has(p)' /\ ~Shares(p)'
    BY <2>1 DEF Free, InFlight, Discarding, Uncounted, Slack, Loose, Course, At, Has, Shares
  <2>3. KnowsList(p)' /\ KnowsShare(p)'
    BY <1>2, <1>3, <2>1, <2>2, SameWork DEF Tells, KnowsList, KnowsShare, tables
  <2>4. RefCount(Md5(p))' = rows
    BY <2>1, SameWork DEF RefCount, tables
  <2>5. KnowsCount(p)' /\ KnowsInfo(p)'
    BY <2>1, <2>4 DEF KnowsCount, KnowsInfo, At
  <2>. QED  BY <1>1, <1>2, <1>3, <2>2, <2>3, <2>5, FreeStep
<1>. QED  BY <1>4, <1>5

LEMMA SaveCounts ==
    ASSUME OneAtATime, CountsInv, IInv', save_file
    PROVE  After("dealsharefile")
<1>1. "dealsharefile" \in Adders
  BY DEF Adders
<1>. QED  BY <1>1, SaveLookCounts, SaveReadCounts, AddFileCounts DEF save_file

LEMMA PvCounts ==
    ASSUME CountsInv, pv_file
    PROVE  After("dealsharefile")
BY PlainShareMove DEF pv_file

-----------------------------------------------------------------------------
(* sharefiles_cgi.c *)

LEMMA RankingCounts ==
    ASSUME CountsInv, get_ranking_filelist
    PROVE  After("sharefiles")
<1>. DEFINE p == "sharefiles"
            Places == {"ranking", "zcard", "del zset", "del hash", "list", "zadd", "hset"}
<1>1. p \in Programs /\ Places \subseteq Plain(p) /\ "idle" \notin Places
  BY DEF Programs, Plain
<1>2. ASSUME run[p].at \in Places PROVE Free(p) /\ run[p].at # "idle"
  BY <1>1, <1>2, PlainIs
<1>. HIDE DEF Places
<1>3. ASSUME NEW from \in Places, NEW to \in Places \cup {"END"}, Step(p, from, to),
             UNCHANGED <<tables, storage, pending>>
      PROVE  After(p)
  <2>1. Free(p) /\ from # "idle" /\ to \in Plain(p) \cup {"END"}
    BY <1>1, <1>2, <1>3, StepAt
  <2>. QED  BY <1>1, <1>3, <2>1, PlainMove
<1>4. ASSUME NEW r, r.at \in Places \cup {"idle"}, run[p].at \in Places,
             run' = [run EXCEPT ![p] = r], UNCHANGED <<tables, storage, pending>>
      PROVE  After(p)
  <2>1. run \in [Programs -> Request] /\ IInv
    BY RunIsOK DEF CountsInv, RunOK
  <2>2. OthersSame(p) /\ run'[p] = r
    BY <1>1, <1>4, <2>1 DEF OthersSame
  <2>3. Free(p) /\ OneRow /\ Tells(p) /\ run[p].at # "idle"
    BY <1>1, <1>2, <1>4, AtWork
  <2>4. run'[p].at \in Plain(p)
    BY <1>1, <1>4, <2>2, IdleIsPlain
  <2>. QED  BY <1>1, <1>4, <2>2, <2>3, <2>4, PlainStep
<1>5. run \in [Programs -> Request] /\ run[p] \in Request
  BY <1>1, RunIsOK DEF CountsInv, RunOK
<1>6. CASE /\ Select(p, "ranking", user_file_count[SHARE_COUNT], "zcard")
           /\ UNCHANGED <<tables, redis, storage, pending, bounds>>
  <2>1. Free(p) /\ "zcard" \in Plain(p) /\ "ranking" # "idle"
    BY <1>1, <1>2, <1>6, SelectAt DEF Places
  <2>. QED  BY <1>1, <1>6, <2>1, PlainSelect
<1>7. CASE /\ run[p].at = "list"
           /\ LET fs == {f \in Files : Shared(f)}
              IN  run' = [run EXCEPT ![p] = IF fs = {} THEN Idle ELSE [@ EXCEPT !.at = "zadd", !.todo = fs]]
           /\ UNCHANGED <<tables, redis, storage, pending, bounds>>
  <2>. DEFINE fs == {f \in Files : Shared(f)}
              r == IF fs = {} THEN Idle ELSE [run[p] EXCEPT !.at = "zadd", !.todo = fs]
  <2>1. run' = [run EXCEPT ![p] = r] /\ run[p].at \in Places
    BY <1>7 DEF Places
  <2>2. r.at \in Places \cup {"idle"}
    <3>1. [run[p] EXCEPT !.at = "zadd", !.todo = fs].at = "zadd"
      BY <1>5 DEF Request
    <3>. QED  BY <3>1, IdleRequest DEF Places
  <2>. HIDE DEF r
  <2>. QED  BY <1>4, <1>7, <2>1, <2>2
<1>8. CASE /\ run[p].at = "zadd"
           /\ \E f \in run[p].todo :
                 /\ FILE_PUBLIC_ZSET' = FILE_PUBLIC_ZSET \cup {f}
                 /\ run' = [run EXCEPT ![p].at = "hset", ![p].file = f, ![p].todo = @ \ {f}]
           /\ UNCHANGED <<tables, FILE_NAME_HASH, storage, pending, bounds>>
  <2>1. PICK f : run' = [run EXCEPT ![p].at = "hset", ![p].file = f, ![p].todo = @ \ {f}]
    BY <1>8
  <2>. DEFINE r == [run[p] EXCEPT !.at = "hset", !.file = f, !.todo = run[p].todo \ {f}]
  <2>2. run' = [run EXCEPT ![p] = r] /\ run[p].at \in Places
    BY <1>1, <1>5, <1>8, <2>1 DEF Places
  <2>3. r.at \in Places \cup {"idle"}
    BY <1>5 DEF Request, Places
  <2>. HIDE DEF r
  <2>. QED  BY <1>4, <1>8, <2>2, <2>3
<1>. QED  BY <1>3, <1>6, <1>7, <1>8 DEF get_ranking_filelist, Places

-----------------------------------------------------------------------------
(* Browsers *)

\* While every program is idle the invariant says the same of each.
LEMMA AnyTells ==
    ASSUME NEW p \in Programs, NEW q \in Programs, Quiet, Tells(p)
    PROVE  Tells(q) /\ Free(q)
<1>1. run[p].at = "idle" /\ run[q].at = "idle"
  BY DEF Quiet
<1>2. /\ Free(p) /\ Free(q) /\ Course(q) /\ ~HasNot(q) /\ ~Has(q) /\ ~Shares(q)
      /\ ~At(q, {"own", "ref+1", "ref-1", "count+1", "shares-1", "files-1", "upload", "info",
                 "file_id", "del info", "del storage"})
  BY <1>1, IdleIsPlain, PlainIs
<1>3. RefsAgree(q)
  BY <1>2 DEF Tells, RefsAgree, Counts, Free
<1>4. UsersAgree(q)
  BY <1>2 DEF Tells, UsersAgree, Free
<1>5. SharesBounded(q) /\ StorageAgrees(q)
  BY <1>2 DEF Tells, SharesBounded, StorageAgrees, Free
<1>6. KnowsList(q) /\ KnowsShare(q)
  BY <1>2 DEF KnowsList, KnowsShare
<1>7. KnowsCount(q) /\ KnowsInfo(q)
  BY <1>1, <1>2 DEF Tells, KnowsCount, KnowsInfo, At
<1>8. Alone(q)
  BY <1>1 DEF Tells, Alone, Quiet
<1>. QED  BY <1>2, <1>3, <1>4, <1>5, <1>6, <1>7, <1>8 DEF Tells

\* With one exchange at a time, a new one begins when nothing is going on.
LEMMA NothingGoesOn ==
    ASSUME OneAtATime, CountsInv, Exchanges < Sessions
    PROVE  Quiet /\ pending = {}
<1>. DEFINE busy == {p \in Programs : run[p].at # "idle"}
<1>1. IsFiniteSet(busy) /\ IsFiniteSet(pending)
  <2>1. IsFiniteSet({"upload"}) /\ IsFiniteSet({}) /\ \A S, x : IsFiniteSet(S) => IsFiniteSet(S \cup {x})
    BY FS_Singleton, FS_EmptySet, FS_AddElement
  <2>2. Programs = (((({"upload"} \cup {"md5"}) \cup {"dealfile"}) \cup {"dealsharefile"}) \cup {"sharefiles"})
    BY DEF Programs
  <2>3. IsFiniteSet(Programs)
    BY <2>1, <2>2
  <2>4. IsFiniteSet(Users \X Files) /\ pending \in SUBSET (Users \X Files)
    BY FS_Product DEF OneAtATime, CountsInv, IInv, TypeOK
  <2>5. busy \in SUBSET Programs
    OBVIOUS
  <2>. QED  BY <2>3, <2>4, <2>5, FS_Subset
<1>2. Cardinality(busy) \in Nat /\ Cardinality(pending) \in Nat
  BY <1>1, FS_CardinalityType
<1>3. Cardinality(busy) = 0 /\ Cardinality(pending) = 0
  <2>1. Cardinality(busy) + Cardinality(pending) < 1
    BY DEF Exchanges, OneAtATime
  <2>. HIDE DEF busy
  <2>. QED  BY ONLY <1>2, <2>1
<1>4. busy = {} /\ pending = {}
  BY <1>1, <1>3, FS_EmptySet
<1>. QED  BY <1>4 DEF Quiet

LEMMA AcceptIs ==
    ASSUME IInv, NEW p \in Programs, NEW cmd, NEW u, NEW f, Accept(p, cmd, u, f)
    PROVE  /\ OthersSame(p) /\ run'[p].at = cmd /\ Row(p)' = <<u, f>> /\ Md5(p)' = md5[f]
           /\ UNCHANGED <<file_info, user_file_list, user_file_count, share_file_list, storage>>
<1>. DEFINE r == [Idle EXCEPT !.at = cmd, !.user = u, !.file = f]
<1>1. run \in [Programs -> Request]
  BY RunIsOK DEF RunOK
<1>2. run' = [run EXCEPT ![p] = r]
  BY DEF Accept
<1>3. r.at = cmd /\ r.user = u /\ r.file = f
  BY DEF Idle
<1>. HIDE DEF r
<1>4. run'[p] = r /\ OthersSame(p)
  BY <1>1, <1>2 DEF OthersSame
<1>. QED  BY <1>3, <1>4 DEF Row, Md5, Accept, tables

\* A request is accepted by a program while all are idle.
LEMMA AcceptCounts ==
    ASSUME OneRow, Quiet, NEW p \in Programs, Tells(p), OthersSame(p), Free(p), Free(p)',
           UNCHANGED <<file_info, user_file_list, user_file_count, share_file_list, storage>>,
           pending' = {}, Course(p)', KnowsList(p)', KnowsShare(p)', KnowsCount(p)', KnowsInfo(p)'
    PROVE  After(p)
<1>1. /\ OneRow' /\ NamedIds' = NamedIds /\ Carries(p)
      /\ \A v \in Users : RowsOf(v)' = RowsOf(v)
      /\ \A m : References(m)' = References(m)
  BY ListsKept, NamesKept DEF Carries, Free
<1>2. RefsAgree(p)' /\ UsersAgree(p)' /\ SharesBounded(p)' /\ StorageAgrees(p)'
  BY <1>1, KeepRefs, KeepUsers, KeepShares, KeepStorage DEF Tells, Free
<1>3. Alone(p)'
  BY DEF Quiet, Alone, OthersSame
<1>. QED  BY <1>1, <1>2, <1>3 DEF After, Tells

LEMMA PlainAccept ==
    ASSUME OneAtATime, CountsInv, Exchanges < Sessions, NEW p \in Programs, NEW cmd \in Plain(p),
           NEW u, NEW f, Accept(p, cmd, u, f), UNCHANGED pending
    PROVE  After(p)
<1>1. IInv /\ OneRow /\ \E q \in Programs : Tells(q)
  BY DEF CountsInv
<1>2. Quiet /\ pending' = {}
  BY NothingGoesOn
<1>3. Tells(p) /\ Free(p)
  BY <1>1, <1>2, AnyTells
<1>4. /\ OthersSame(p) /\ run'[p].at = cmd
      /\ UNCHANGED <<file_info, user_file_list, user_file_count, share_file_list, storage>>
  BY <1>1, AcceptIs
<1>5. /\ Free(p)' /\ Course(p)'
      /\ KnowsList(p)' /\ KnowsShare(p)' /\ KnowsCount(p)' /\ KnowsInfo(p)'
  BY <1>2, <1>4, PlainKnows
<1>. QED  BY <1>1, <1>2, <1>3, <1>4, <1>5, AcceptCounts

\* The user's page shows the file that is to be deleted.
LEMMA BeginDelCounts ==
    ASSUME OneAtATime, CountsInv, Exchanges < Sessions, NEW u \in Users, NEW f \in Files,
           user_file_list[<<u, f>>] # <<>>, Accept("dealfile", "del", u, f), UNCHANGED pending
    PROVE  After("dealfile")
<1>. DEFINE p == "dealfile"
<1>1. IInv /\ OneRow /\ (\E q \in Programs : Tells(q)) /\ p \in Programs
  BY DEF CountsInv, Programs
<1>2. Quiet /\ pending' = {}
  BY NothingGoesOn
<1>3. Tells(p) /\ Free(p)
  BY <1>1, <1>2, AnyTells
<1>4. /\ OthersSame(p) /\ run'[p].at = "del" /\ Row(p)' = <<u, f>>
      /\ UNCHANGED <<file_info, user_file_list, user_file_count, share_file_list, storage>>
  BY <1>1, AcceptIs
<1>5. Free(p)' /\ Course(p)' /\ ~HasNot(p)' /\ ~Shares(p)'
  BY <1>4 DEF Free, InFlight, Discarding, Uncounted, Slack, Loose, Course, HasNot, Shares, At
<1>6. KnowsList(p)' /\ KnowsShare(p)' /\ KnowsCount(p)' /\ KnowsInfo(p)'
  BY <1>2, <1>4, <1>5 DEF KnowsList, KnowsShare, KnowsCount, KnowsInfo, At
<1>. QED  BY <1>1, <1>2, <1>3, <1>4, <1>5, <1>6, AcceptCounts

\* The user's page shows the share that is to be cancelled.
LEMMA BeginCancelCounts ==
    ASSUME OneAtATime, CountsInv, Exchanges < Sessions, NEW u \in Users, NEW f \in Files,
           share_file_list[<<u, f>>] > 0, Accept("dealsharefile", "cancel", u, f), UNCHANGED pending
    PROVE  After("dealsharefile")
<1>. DEFINE p == "dealsharefile"
<1>1. IInv /\ OneRow /\ (\E q \in Programs : Tells(q)) /\ p \in Programs
  BY DEF CountsInv, Programs
<1>2. Quiet /\ pending' = {}
  BY NothingGoesOn
<1>3. Tells(p) /\ Free(p)
  BY <1>1, <1>2, AnyTells
<1>4. /\ OthersSame(p) /\ run'[p].at = "cancel" /\ Row(p)' = <<u, f>>
      /\ UNCHANGED <<file_info, user_file_list, user_file_count, share_file_list, storage>>
  BY <1>1, AcceptIs
<1>5. Free(p)' /\ Course(p)' /\ ~HasNot(p)' /\ ~Has(p)'
  BY <1>4, CancellingIsNext DEF Cancelling
<1>6. KnowsList(p)' /\ KnowsShare(p)' /\ KnowsCount(p)' /\ KnowsInfo(p)'
  BY <1>2, <1>4, <1>5 DEF KnowsList, KnowsShare, KnowsCount, KnowsInfo, At
<1>. QED  BY <1>1, <1>2, <1>3, <1>4, <1>5, <1>6, AcceptCounts

\* The file that md5_cgi.c asked for is still unknown to the server.
LEMMA BeginUploadCounts ==
    ASSUME CountsInv, NEW u \in Users, NEW f \in Files, BeginUpload(u, f)
    PROVE  After("upload")
<1>. DEFINE p == "upload"
<1>1. IInv /\ OneRow /\ p \in Programs
  BY DEF CountsInv, Programs
<1>2. PICK q \in Programs : Tells(q)
  BY DEF CountsInv
<1>3. <<u, f>> \in pending /\ pending' = pending \ {<<u, f>>} /\ Accept(p, "upload", u, f)
  BY DEF BeginUpload
<1>4. Quiet /\ pending' = {}
  BY <1>2, <1>3 DEF Tells, Alone, Quiet
<1>5. Tells(p) /\ Free(p)
  BY <1>1, <1>2, <1>4, AnyTells
<1>6. /\ OthersSame(p) /\ run'[p].at = "upload" /\ Md5(p)' = md5[f]
      /\ UNCHANGED <<file_info, user_file_list, user_file_count, share_file_list, storage>>
  BY <1>1, <1>3, AcceptIs
<1>7. file_info[md5[f]] = <<>>
  BY <1>2, <1>3 DEF Tells, KnowsInfo
<1>8. Free(p)' /\ Course(p)' /\ ~HasNot(p)' /\ ~Has(p)' /\ ~Shares(p)'
  BY <1>6 DEF Free, InFlight, Discarding, Uncounted, Slack, Loose, Course, HasNot, Has, Shares, At
<1>9. KnowsList(p)' /\ KnowsShare(p)' /\ KnowsCount(p)' /\ KnowsInfo(p)'
  BY <1>4, <1>6, <1>7, <1>8 DEF KnowsList, KnowsShare, KnowsCount, KnowsInfo, At
<1>. QED  BY <1>1, <1>4, <1>5, <1>6, <1>8, <1>9, AcceptCounts

LEMMA BeginCounts ==
    ASSUME OneAtATime, CountsInv, NEW u \in Users, NEW f \in Files, Begin(u, f)
    PROVE  \E p \in Programs : After(p)
<1>1. /\ Exchanges < Sessions /\ UNCHANGED pending /\ ~Stale
      /\ "md5" \in Programs /\ "dealfile" \in Programs /\ "dealsharefile" \in Programs
      /\ "md5" \in Plain("md5") /\ "share" \in Plain("dealfile")
      /\ {"save", "pv"} \subseteq Plain("dealsharefile")
  BY DEF Begin, OneAtATime, Programs, Plain
<1>2. CASE Accept("md5", "md5", u, f)
  BY <1>1, <1>2, PlainAccept
<1>3. CASE user_file_list[<<u, f>>] # <<>> /\ Accept("dealfile", "share", u, f)
  BY <1>1, <1>3, PlainAccept
<1>4. CASE user_file_list[<<u, f>>] # <<>> /\ Accept("dealfile", "del", u, f)
  BY <1>1, <1>4, BeginDelCounts
<1>5. CASE share_file_list[<<u, f>>] > 0 /\ Accept("dealsharefile", "cancel", u, f)
  BY <1>1, <1>5, BeginCancelCounts
<1>6. ASSUME NEW cmd \in {"save", "pv"}, Accept("dealsharefile", cmd, u, f)
      PROVE  \E p \in Programs : After(p)
  BY <1>1, <1>6, PlainAccept
<1>. QED  BY <1>1, <1>2, <1>3, <1>4, <1>5, <1>6 DEF Begin

-----------------------------------------------------------------------------
LEMMA InitCounts == ASSUME Init PROVE CountsInv
<1>. DEFINE p == "md5"
<1>1. IInv /\ p \in Programs
  BY InitHolds DEF Programs
<1>2. OneRow
  BY EmptyShort DEF Init, OneRow
<1>3. ASSUME NEW S \in SUBSET (Users \X Files) PROVE Cardinality(ListRows(S)) = 0
  <2>1. ListRows(S) = {}
    BY <1>1, <1>2, ListIsList, ListRowsPairs DEF Init, Pairs
  <2>. QED  BY <2>1, FS_EmptySet
<1>4. /\ \A u \in Users : RowsOf(u) = 0
      /\ \A m : References(m) = 0
  BY <1>3, CountsAreRows
<1>5. Quiet /\ run[p].at \in Plain(p) /\ pending = {}
  BY <1>1, IdleRequest DEF Init, Quiet, Plain
<1>6. /\ Free(p) /\ Course(p) /\ ~HasNot(p) /\ ~Has(p) /\ ~Shares(p)
      /\ ~At(p, {"own", "ref+1", "ref-1", "count+1", "shares-1", "files-1", "upload", "info",
                 "file_id", "del info", "del storage"})
  BY <1>1, <1>5, PlainIs
<1>7. KnowsList(p) /\ KnowsShare(p) /\ KnowsCount(p) /\ KnowsInfo(p)
  BY <1>5, <1>6 DEF KnowsList, KnowsShare, KnowsCount, KnowsInfo, At
<1>8. Alone(p)
  BY <1>5 DEF Quiet, Alone
<1>9. RefsAgree(p)
  <2>1. ASSUME NEW m \in Md5s PROVE Counts(p, m) = 0
    <3>1. Counts(p, m) = 0 + 0
      BY <1>4, <1>6 DEF Counts, Free
    <3>. QED  BY ONLY <3>1
  <2>. QED  BY <1>6, <2>1 DEF Init, RefsAgree, Free
<1>10. UsersAgree(p)
  <2>1. \A u \in Users : RowsOf(u) - 0 = 0 /\ u \in Owners
    BY <1>4 DEF Owners
  <2>. QED  BY <1>6, <2>1 DEF Init, UsersAgree, CountRow, Free
<1>11. SharesBounded(p)
  BY EmptyDomain DEF Init, SharesBounded, Owners
<1>12. StorageAgrees(p)
  BY <1>6 DEF Init, StorageAgrees, NamedIds, Free
<1>. QED  BY <1>1, <1>2, <1>6, <1>7, <1>8, <1>9, <1>10, <1>11, <1>12 DEF CountsInv, Tells

LEMMA StutterCounts == ASSUME CountsInv, UNCHANGED vars PROVE \E p \in Programs : After(p)
<1>1. PICK p \in Programs : OneRow /\ Tells(p)
  BY DEF CountsInv
<1>2. /\ UNCHANGED <<file_info, user_file_list, user_file_count, share_file_list, storage, pending>>
      /\ UNCHANGED run
  BY DEF vars, tables
<1>3. /\ (InFlight(p)' <=> InFlight(p)) /\ (Discarding(p)' <=> Discarding(p))
      /\ (Uncounted(p)' <=> Uncounted(p)) /\ Slack(p)' = Slack(p) /\ (Loose(p)' <=> Loose(p))
  BY <1>2 DEF InFlight, Discarding, Uncounted, Slack, Loose, At
<1>4. /\ OneRow' /\ NamedIds' = NamedIds /\ Carries(p)
      /\ \A v \in Users : RowsOf(v)' = RowsOf(v)
      /\ \A m : References(m)' = References(m)
  BY <1>1, <1>2, ListsKept, NamesKept DEF Carries, SameRequest
<1>5. RefsAgree(p)' /\ UsersAgree(p)' /\ SharesBounded(p)' /\ StorageAgrees(p)'
  BY <1>1, <1>2, <1>3, <1>4, KeepRefs, KeepUsers, KeepShares, KeepStorage DEF Tells
<1>6. Alone(p)' /\ Course(p)'
  BY <1>1, <1>2 DEF Tells, Alone, Course, At
<1>7. KnowsList(p)' /\ KnowsShare(p)'
  BY <1>1, <1>2 DEF Tells, KnowsList, KnowsShare, HasNot, Has, Shares, At, Row
<1>8. KnowsCount(p)'
  BY <1>1, <1>2 DEF Tells, KnowsCount, At, RefCount, Md5, Owner, User
<1>9. KnowsInfo(p)'
  BY <1>1, <1>2, <1>4 DEF Tells, KnowsInfo, At, Md5, References, ListRows
<1>. QED  BY <1>4, <1>5, <1>6, <1>7, <1>8, <1>9 DEF After, Tells

LEMMA NextCounts == ASSUME OneAtATime, CountsInv, [Next]_vars PROVE CountsInv'
<1>1. IInv /\ IInv'
  BY NextHolds DEF CountsInv
<1>2. /\ "md5" \in Programs /\ "upload" \in Programs /\ "dealfile" \in Programs
      /\ "dealsharefile" \in Programs /\ "sharefiles" \in Programs
  BY DEF Programs
<1>3. SUFFICES \E p \in Programs : After(p)
  BY <1>1 DEF CountsInv, After
<1>4. CASE deal_md5
  BY <1>1, <1>2, <1>4, DealMd5Counts
<1>5. CASE upload_to_dstorage
  BY <1>1, <1>2, <1>5, UploadCounts
<1>6. CASE store_fileinfo_to_mysql
  BY <1>1, <1>2, <1>6, StoreFileinfoCounts
<1>7. CASE share_file
  BY <1>1, <1>2, <1>7, ShareFileCounts
<1>8. CASE del_file
  BY <1>1, <1>2, <1>8, DelFileCounts
<1>9. CASE cancel_share_file
  BY <1>1, <1>2, <1>9, CancelCounts
<1>10. CASE save_file
  BY <1>1, <1>2, <1>10, SaveCounts
<1>11. CASE pv_file
  BY <1>2, <1>11, PvCounts
<1>12. CASE get_ranking_filelist
  BY <1>2, <1>12, RankingCounts
<1>13. ASSUME NEW u \in Users, NEW f \in Files, Begin(u, f) \/ BeginUpload(u, f)
       PROVE  \E p \in Programs : After(p)
  BY <1>2, <1>13, BeginCounts, BeginUploadCounts
<1>14. CASE BeginRanking
  <2>1. "ranking" \in Plain("sharefiles")
    BY DEF Plain
  <2>. QED  BY <1>2, <1>14, <2>1, PlainAccept DEF BeginRanking
<1>15. ASSUME NEW p \in Programs, Kill(p) PROVE FALSE
  BY <1>1, <1>15 DEF Kill, IInv, TypeOK, OneAtATime
<1>16. CASE UNCHANGED vars
  BY <1>16, StutterCounts
<1>. QED  BY <1>4, <1>5, <1>6, <1>7, <1>8, <1>9, <1>10, <1>11, <1>12, <1>13, <1>14, <1>15, <1>16 DEF Next

\* While exchanges do not overlap, pages are up to date and nothing is killed, every
\* count is right but for what the one request in progress has yet to write, and what
\* that request has read is still so.
THEOREM CountsInvariant == OneAtATime => (Spec => []CountsInv)
<1>. SUFFICES ASSUME OneAtATime PROVE Spec => []CountsInv
  OBVIOUS
<1>1. Init => CountsInv
  BY InitCounts
<1>2. CountsInv /\ [Next]_vars => CountsInv'
  BY NextCounts
<1>. QED  BY <1>1, <1>2, PTL DEF Spec

\* del_file discards a stored file only when no list has the file any more.
THEOREM DiscardedIsUnreferenced == OneAtATime => (Spec => []ZeroMeansUnreferenced)
<1>. SUFFICES ASSUME OneAtATime PROVE Spec => []ZeroMeansUnreferenced
  OBVIOUS
<1>1. CountsInv => ZeroMeansUnreferenced
  <2>. SUFFICES ASSUME CountsInv, run["dealfile"].at \in {"file_id", "del info", "del storage"}
                PROVE  References(Md5("dealfile")) = 0
    BY DEF ZeroMeansUnreferenced
  <2>1. Tells("dealfile")
    BY AtWork DEF Programs
  <2>. QED  BY <2>1 DEF Tells, KnowsInfo, At
<1>. QED  BY <1>1, CountsInvariant, PTL

LEMMA QuietIsFree ==
    ASSUME OneAtATime, CountsInv, Quiet
    PROVE  /\ IInv /\ OneRow /\ Tells("md5") /\ Free("md5")
           /\ \A u \in Users : RowsOf(u) \in Nat
           /\ \A m : References(m) \in Nat
<1>1. IInv /\ OneRow /\ "md5" \in Programs /\ \E q \in Programs : Tells(q)
  BY DEF CountsInv, Programs
<1>. QED  BY <1>1, AnyTells, CountsType

\* Between requests the counts in file_info are the numbers of rows of the lists, and
\* exactly the files named there are stored.
THEOREM ReferencesCounted == OneAtATime => (Spec => []RefCountsAgree)
<1>. SUFFICES ASSUME OneAtATime PROVE Spec => []RefCountsAgree
  OBVIOUS
<1>1. CountsInv => RefCountsAgree
  <2>. SUFFICES ASSUME CountsInv, Quiet
                PROVE  /\ \A m \in Md5s :
                             IF References(m) = 0 THEN file_info[m] = <<>>
                             ELSE Len(file_info[m]) = 1 /\ file_info[m][1].count = References(m)
                       /\ storage = NamedIds
    BY DEF RefCountsAgree, NamedIds
  <2>1. /\ Tells("md5") /\ Free("md5")
        /\ \A m : References(m) \in Nat
    BY QuietIsFree
  <2>2. \A m \in Md5s : Counts("md5", m) = References(m)
    BY <2>1 DEF Counts, Free
  <2>. QED  BY <2>1, <2>2 DEF Tells, RefsAgree, StorageAgrees, Free
<1>. QED  BY <1>1, CountsInvariant, PTL

\* Between requests a user's count is the length of the user's list.
THEOREM UsersCounted == OneAtATime => (Spec => []UserCountsAgree)
<1>. SUFFICES ASSUME OneAtATime PROVE Spec => []UserCountsAgree
  OBVIOUS
<1>1. CountsInv => UserCountsAgree
  <2>. SUFFICES ASSUME CountsInv, Quiet, NEW u \in Users
                PROVE  user_file_count[u] = CountRow(RowsOf(u))
    BY DEF UserCountsAgree, CountRow
  <2>1. Tells("md5") /\ Free("md5") /\ RowsOf(u) \in Nat
    BY QuietIsFree
  <2>2. user_file_count[u] = CountRow(RowsOf(u) - 0)
    BY <2>1 DEF Tells, UsersAgree, Free
  <2>3. RowsOf(u) - 0 = RowsOf(u)
    BY <2>1
  <2>. QED  BY <2>2, <2>3
<1>. QED  BY <1>1, CountsInvariant, PTL

\* Between requests the number of shared files is not above the shares there are,
\* though share_file and the two that undo it change count and share in either order.
THEOREM SharesCounted == OneAtATime => (Spec => []ShareCountBounded)
<1>. SUFFICES ASSUME OneAtATime PROVE Spec => []ShareCountBounded
  OBVIOUS
<1>1. CountsInv => ShareCountBounded
  <2>. SUFFICES ASSUME CountsInv, Quiet, NEW k \in DOMAIN user_file_count[SHARE_COUNT]
                PROVE  user_file_count[SHARE_COUNT][k] <= Cardinality(ShareRows)
    BY DEF ShareCountBounded
  <2>1. IInv /\ Tells("md5") /\ Free("md5")
    BY QuietIsFree
  <2>2. user_file_count[SHARE_COUNT][k] <= Cardinality(ShareRows) + 0
    BY <2>1 DEF Tells, SharesBounded, Free
  <2>3. Cardinality(ShareRows) + 0 = Cardinality(ShareRows)
    BY <2>1, FiniteShares
  <2>. QED  BY <2>2, <2>3
<1>. QED  BY <1>1, CountsInvariant, PTL
=============================================================================
