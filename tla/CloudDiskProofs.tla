--------------------------- MODULE CloudDiskProofs ---------------------------
(***************************************************************************)
(* Proofs about CloudDisk: what holds however the programs' statements     *)
(* interleave and wherever they are killed, for any number of users, files *)
(* and requests.                                                           *)
(***************************************************************************)
EXTENDS CloudDisk, TLAPS

Request == [at : Labels, user : Users \cup {Null}, file : Files \cup {Null},
            seen : Seq(Int), flag : {0, 1}, file_id : Fids \cup {Null},
            todo : SUBSET Files]

\* Where a count has been read and will be used.
Counted == {"own", "ref+1", "ref-1", "shares-1", "files-1", "zcard"}

\* A request has a user and a file, a count where it uses one, and an id where it
\* uses one.
RequestInv ==
    \A p \in Programs :
        /\ run[p].at # "idle" /\ p # "sharefiles" => run[p].user \in Users /\ run[p].file \in Files
        /\ p = "sharefiles" /\ run[p].at = "hset" => run[p].file \in Files
        /\ run[p].at \in Counted => run[p].seen # <<>>
        /\ run[p].at \in {"info", "del info", "del storage"} => run[p].file_id \in Fids

\* Rows name different files.
DistinctIds ==
    \A m, n \in Md5s : \A k \in DOMAIN file_info[m], l \in DOMAIN file_info[n] :
        file_info[m][k].file_id = file_info[n][l].file_id => m = n /\ k = l

Unnamed(i) == \A m \in Md5s : \A k \in DOMAIN file_info[m] : file_info[m][k].file_id # i

\* An upload holds a stored file that no row names yet, and del_file is not about to
\* remove it.
UploadHolds ==
    run["upload"].at = "info" =>
        /\ run["upload"].file_id \in storage
        /\ Unnamed(run["upload"].file_id)
        /\ run["dealfile"].at \in {"del info", "del storage"}
             => run["dealfile"].file_id # run["upload"].file_id

\* The file that del_file removes is named by rows that go first, ...
DiscardNamed ==
    run["dealfile"].at = "del info" =>
        \A m \in Md5s : \A k \in DOMAIN file_info[m] :
            file_info[m][k].file_id = run["dealfile"].file_id => m = md5[run["dealfile"].file]

\* ... and then by none.
DiscardUnnamed == run["dealfile"].at = "del storage" => Unnamed(run["dealfile"].file_id)

IdInv == RowHasFile /\ DistinctIds /\ UploadHolds /\ DiscardNamed /\ DiscardUnnamed

\* Nobody shares the file that share_file is about to share.
ShareInv ==
    /\ UniqueSharer
    /\ run["dealfile"].at \in {"status", "share row"}
         => \A u \in Users : share_file_list[<<u, run["dealfile"].file>>] = 0

IInv == TypeOK /\ RequestInv /\ IdInv /\ ShareInv
-----------------------------------------------------------------------------
(* What a step does to the requests *)

RunOK == run \in [Programs -> Request] /\ RequestInv

LEMMA RunIsOK == ASSUME IInv PROVE RunOK
BY DEF IInv, TypeOK, RunOK, Request

LEMMA IdleRequest == Idle \in Request /\ Idle.at = "idle"
BY CloudAssumption DEF Idle, Request, Labels

LEMMA StepFacts ==
    ASSUME RunOK, NEW p \in Programs, NEW from \in Labels, NEW to \in Labels \cup {"END"},
           Step(p, from, to), from # "idle", p # "sharefiles" \/ to # "hset",
           to \in Counted => from \in Counted,
           to = "del storage" => from = "del info", to # "info", to # "del info"
    PROVE  /\ RunOK'
           /\ \A q \in Programs : q # p => run'[q] = run[q]
           /\ run'[p].at = IF to = "END" THEN "idle" ELSE to
           /\ to # "END" => run'[p].file = run[p].file /\ run'[p].file_id = run[p].file_id
<1>1. run[p] \in Request /\ run[p].at = from /\ run \in [Programs -> Request]
  BY DEF RunOK, Step
<1>2. CASE to = "END"
  <2>1. run' = [run EXCEPT ![p] = Idle]
    BY <1>2 DEF Step
  <2>2. run' \in [Programs -> Request] /\ run'[p] = Idle /\ \A q \in Programs : q # p => run'[q] = run[q]
    BY <1>1, <2>1, IdleRequest
  <2>3. RequestInv'
    BY <2>2, IdleRequest DEF RunOK, RequestInv, Counted
  <2> QED BY <1>2, <2>2, <2>3, IdleRequest DEF RunOK
<1>3. CASE to # "END"
  <2>1. run' = [run EXCEPT ![p] = [run[p] EXCEPT !.at = to]] /\ to \in Labels
    BY <1>1, <1>3 DEF Step
  <2> DEFINE r == [run[p] EXCEPT !.at = to]
  <2>2. /\ r \in Request /\ r.at = to /\ r.user = run[p].user /\ r.file = run[p].file
        /\ r.seen = run[p].seen /\ r.file_id = run[p].file_id
    BY <1>1, <2>1 DEF Request
  <2> HIDE DEF r
  <2>3. run' \in [Programs -> Request] /\ run'[p] = r /\ \A q \in Programs : q # p => run'[q] = run[q]
    BY <1>1, <2>1, <2>2 DEF r
  <2>4. RequestInv'
    BY <1>1, <1>3, <2>2, <2>3 DEF RunOK, RequestInv, Counted
  <2> QED BY <1>3, <2>2, <2>3, <2>4 DEF RunOK
<1> QED BY <1>2, <1>3

LEMMA SelectFacts ==
    ASSUME RunOK, NEW p \in Programs, NEW from \in Labels, NEW rows \in Seq(Int), NEW to \in Labels,
           Select(p, from, rows, to), from # "idle",
           to \notin {"hset", "info", "del info", "del storage"}
    PROVE  /\ RunOK'
           /\ \A q \in Programs : q # p => run'[q] = run[q]
           /\ run'[p].at \in {"idle", to}
<1>1. run[p] \in Request /\ run[p].at = from /\ run \in [Programs -> Request]
  BY DEF RunOK, Select
<1>2. CASE rows = <<>>
  <2>1. run' = [run EXCEPT ![p] = Idle]
    BY <1>2 DEF Select
  <2>2. run' \in [Programs -> Request] /\ run'[p] = Idle /\ \A q \in Programs : q # p => run'[q] = run[q]
    BY <1>1, <2>1, IdleRequest
  <2>3. RequestInv'
    BY <2>2, IdleRequest DEF RunOK, RequestInv, Counted
  <2> QED BY <2>2, <2>3, IdleRequest DEF RunOK
<1>3. CASE rows # <<>>
  <2> DEFINE r == [run[p] EXCEPT !.at = to, !.seen = rows]
  <2>1. run' = [run EXCEPT ![p] = r]
    BY <1>1, <1>3 DEF Select
  <2>2. /\ r \in Request /\ r.at = to /\ r.user = run[p].user /\ r.file = run[p].file
        /\ r.seen = rows
    BY <1>1 DEF Request
  <2> HIDE DEF r
  <2>3. run' \in [Programs -> Request] /\ run'[p] = r /\ \A q \in Programs : q # p => run'[q] = run[q]
    BY <1>1, <2>1, <2>2
  <2>4. RequestInv'
    BY <1>1, <1>3, <2>2, <2>3 DEF RunOK, RequestInv, Counted
  <2> QED BY <2>2, <2>3, <2>4 DEF RunOK
<1> QED BY <1>2, <1>3
-----------------------------------------------------------------------------
(* What a step does to the stores *)

TablesOK ==
    /\ file_info \in [Md5s -> Seq([file_id : Fids, count : Int])]
    /\ user_file_list \in [Users \X Files -> Seq({0, 1})]
    /\ user_file_count \in [Owners -> Seq(Int)]
    /\ \A o \in Owners : Len(user_file_count[o]) <= 1
    /\ share_file_list \in [Users \X Files -> Nat]
    /\ FILE_PUBLIC_ZSET \subseteq Files /\ FILE_NAME_HASH \subseteq Files
    /\ storage \subseteq Fids
    /\ pending \subseteq Users \X Files
    /\ kills \in 0..MaxKills /\ requests \in 0..MaxRequests

\* Almost every step leaves the ids in file_info and the storage alone, and adds no
\* share.
FrameOK ==
    /\ TablesOK' /\ UNCHANGED storage
    /\ UNCHANGED file_info \/ \E m \in Md5s, n \in Int : SetRefCount(m, n)
    /\ UNCHANGED share_file_list
         \/ \E row \in Users \X Files : share_file_list' = [share_file_list EXCEPT ![row] = 0]

LEMMA TypeParts == TypeOK <=> TablesOK /\ run \in [Programs -> Request]
BY DEF TypeOK, TablesOK, Request

LEMMA NoStore ==
    ASSUME IInv, UNCHANGED <<tables, redis, storage, pending, bounds>> PROVE FrameOK
BY TypeParts DEF IInv, FrameOK, TablesOK, tables, redis, bounds

LEMMA OutsideStore ==
    ASSUME IInv, pending' \subseteq Users \X Files,
           kills' \in 0..MaxKills, requests' \in 0..MaxRequests, UNCHANGED <<tables, redis, storage>>
    PROVE  FrameOK
BY TypeParts DEF IInv, FrameOK, TablesOK, tables, redis

LEMMA BoundsType ==
    ASSUME IInv PROVE /\ pending \subseteq Users \X Files
                      /\ kills \in 0..MaxKills /\ requests \in 0..MaxRequests
BY DEF IInv, TypeOK

LEMMA SeqElements == ASSUME NEW S, NEW s \in Seq(S) PROVE \A k \in DOMAIN s : s[k] \in S
OBVIOUS

LEMMA SeqOver ==
    ASSUME NEW S, NEW T, NEW s \in Seq(S), NEW t \in [DOMAIN s -> T] PROVE t \in Seq(T)
<1>1. Len(s) \in Nat /\ DOMAIN s = 1..Len(s)
  OBVIOUS
<1>2. t \in [1..Len(s) -> T]
  BY <1>1
<1> HIDE <1>1
<1> QED BY <1>1, <1>2

InfoRow == [file_id : Fids, count : Int]

LEMMA RefCountStore ==
    ASSUME IInv, NEW m \in Md5s, NEW n \in Int, SetRefCount(m, n),
           UNCHANGED <<user_file_list, user_file_count, share_file_list, redis, storage, pending, bounds>>
    PROVE  FrameOK
<1> DEFINE s == file_info[m]
           t == [k \in DOMAIN s |-> [s[k] EXCEPT !.count = n]]
<1>1. TablesOK /\ s \in Seq([file_id : Fids, count : Int])
  BY TypeParts DEF IInv, TablesOK
<1>2. \A k \in DOMAIN s : [s[k] EXCEPT !.count = n] \in [file_id : Fids, count : Int]
  <2>1. \A k \in DOMAIN s : s[k] \in InfoRow
    BY <1>1, SeqElements DEF InfoRow
  <2> QED BY <2>1 DEF InfoRow
<1>3. t \in Seq([file_id : Fids, count : Int])
  <2>1. t \in [DOMAIN s -> InfoRow]
    BY <1>2 DEF InfoRow
  <2>2. s \in Seq(InfoRow)
    BY <1>1 DEF InfoRow
  <2> HIDE DEF t, s
  <2>3. t \in Seq(InfoRow)
    BY <2>1, <2>2, SeqOver
  <2> QED BY <2>3 DEF InfoRow
<1>4. file_info' = [file_info EXCEPT ![m] = t]
  BY DEF SetRefCount
<1> HIDE DEF t
<1>5. file_info' \in [Md5s -> Seq([file_id : Fids, count : Int])]
  BY <1>1, <1>3, <1>4 DEF TablesOK
<1> QED BY <1>1, <1>5 DEF FrameOK, TablesOK, redis, bounds

LEMMA FilesStore ==
    ASSUME IInv, NEW row \in Users \X Files, NEW s \in Seq({0, 1}),
           user_file_list' = [user_file_list EXCEPT ![row] = s],
           UNCHANGED <<file_info, user_file_count, share_file_list, redis, storage, pending, bounds>>
    PROVE  FrameOK
BY TypeParts DEF IInv, FrameOK, TablesOK, redis, bounds

LEMMA SharedStore ==
    ASSUME IInv, NEW row \in Users \X Files, NEW x \in {0, 1}, SetShared(row, x),
           UNCHANGED <<file_info, user_file_count, share_file_list, redis, storage, pending, bounds>>
    PROVE  FrameOK
<1>1. user_file_list[row] \in Seq({0, 1})
  BY TypeParts DEF IInv, TablesOK
<1>2. [k \in DOMAIN user_file_list[row] |-> x] \in Seq({0, 1})
  BY <1>1
<1> QED BY <1>2, FilesStore DEF SetShared

LEMMA CountStore ==
    ASSUME IInv, NEW o \in Owners, NEW n \in Int,
           \/ SetCount(o, n)
           \/ user_file_count' = [user_file_count EXCEPT ![o] = <<>>]
           \/ user_file_count' = [user_file_count EXCEPT ![o] = <<n>>],
           UNCHANGED <<file_info, user_file_list, share_file_list, redis, storage, pending, bounds>>
    PROVE  FrameOK
<1>1. TablesOK
  BY TypeParts DEF IInv
<1>2. PICK s \in {<<>>, <<n>>} : user_file_count' = [user_file_count EXCEPT ![o] = s]
  BY <1>1 DEF SetCount, TablesOK
<1>3. s \in Seq(Int) /\ Len(s) <= 1
  <2>1. CASE s = <<n>>
    BY <2>1
  <2>2. CASE s = <<>>
    BY <2>2
  <2> QED BY <1>2, <2>1, <2>2
<1>4. /\ user_file_count' \in [Owners -> Seq(Int)]
      /\ \A x \in Owners : Len(user_file_count'[x]) <= 1
  BY <1>1, <1>2, <1>3 DEF TablesOK
<1> QED BY <1>1, <1>4 DEF FrameOK, TablesOK, redis, bounds

LEMMA UnshareStore ==
    ASSUME IInv, NEW row \in Users \X Files, share_file_list' = [share_file_list EXCEPT ![row] = 0],
           UNCHANGED <<file_info, user_file_list, user_file_count, redis, storage, pending, bounds>>
    PROVE  FrameOK
BY TypeParts DEF IInv, FrameOK, TablesOK, redis, bounds

LEMMA RedisStore ==
    ASSUME IInv, FILE_PUBLIC_ZSET' \subseteq Files, FILE_NAME_HASH' \subseteq Files,
           UNCHANGED <<tables, storage, pending, bounds>>
    PROVE  FrameOK
BY TypeParts DEF IInv, FrameOK, TablesOK, tables, bounds
-----------------------------------------------------------------------------
(* Such a step keeps the invariant unless it enters one of the critical places. *)

Entering == {"del info", "del storage", "status", "share row"}

Ordinary == /\ FrameOK /\ RunOK'
            /\ run'["upload"] = run["upload"] \/ run'["upload"].at # "info"
            /\ run'["dealfile"] = run["dealfile"] \/ run'["dealfile"].at \notin Entering

LEMMA IdsKept ==
    ASSUME IInv, FrameOK, NEW m \in Md5s
    PROVE  /\ DOMAIN file_info'[m] = DOMAIN file_info[m]
           /\ \A k \in DOMAIN file_info[m] : file_info'[m][k].file_id = file_info[m][k].file_id
<1>1. file_info \in [Md5s -> Seq([file_id : Fids, count : Int])]
  BY TypeParts DEF IInv, TablesOK
<1>2. CASE UNCHANGED file_info
  BY <1>2
<1>3. ASSUME NEW x \in Md5s, NEW n \in Int, SetRefCount(x, n)
      PROVE  /\ DOMAIN file_info'[m] = DOMAIN file_info[m]
             /\ \A k \in DOMAIN file_info[m] : file_info'[m][k].file_id = file_info[m][k].file_id
  <2>1. CASE x = m
    <3>1. file_info'[m] = [k \in DOMAIN file_info[m] |-> [file_info[m][k] EXCEPT !.count = n]]
      BY <1>1, <1>3, <2>1 DEF SetRefCount
    <3>2. \A k \in DOMAIN file_info[m] : file_info[m][k] \in InfoRow
      BY <1>1, SeqElements DEF InfoRow
    <3> QED BY <3>1, <3>2 DEF InfoRow
  <2>2. CASE x # m
    BY <1>1, <1>3, <2>2 DEF SetRefCount
  <2> QED BY <2>1, <2>2
<1> QED BY <1>2, <1>3 DEF FrameOK

LEMMA FewerShares ==
    ASSUME UniqueSharer,
           \A r \in Users \X Files :
              share_file_list[r] \in Nat /\ share_file_list'[r] \in {share_file_list[r], 0}
    PROVE  UniqueSharer'
<1>1. ASSUME NEW f \in Files, NEW u \in Users, NEW v \in Users
      PROVE  /\ share_file_list'[<<u, f>>] <= 1
             /\ share_file_list'[<<u, f>>] > 0 /\ share_file_list'[<<v, f>>] > 0 => u = v
  <2>1. <<u, f>> \in Users \X Files /\ <<v, f>> \in Users \X Files
    OBVIOUS
  <2>2. /\ share_file_list[<<u, f>>] <= 1
        /\ share_file_list[<<u, f>>] > 0 /\ share_file_list[<<v, f>>] > 0 => u = v
    BY DEF UniqueSharer
  <2>3. /\ share_file_list[<<u, f>>] \in Nat /\ share_file_list'[<<u, f>>] \in {share_file_list[<<u, f>>], 0}
        /\ share_file_list[<<v, f>>] \in Nat /\ share_file_list'[<<v, f>>] \in {share_file_list[<<v, f>>], 0}
    BY <2>1
  <2> QED BY <2>2, <2>3
<1> QED BY <1>1 DEF UniqueSharer

\* The rows of file_info name the files they named before.
SameIds ==
    \A m \in Md5s : /\ DOMAIN file_info'[m] = DOMAIN file_info[m]
                    /\ \A k \in DOMAIN file_info[m] :
                          file_info'[m][k].file_id = file_info[m][k].file_id

LEMMA SameId ==
    ASSUME DistinctIds, NEW m \in Md5s, NEW n \in Md5s,
           NEW k \in DOMAIN file_info[m], NEW l \in DOMAIN file_info[n],
           file_info[m][k].file_id = file_info[n][l].file_id
    PROVE  m = n /\ k = l
BY DEF DistinctIds

LEMMA IdsKeep ==
    ASSUME IInv, UNCHANGED storage, SameIds,
           run'["upload"] = run["upload"] \/ run'["upload"].at # "info",
           run'["dealfile"] = run["dealfile"] \/ run'["dealfile"].at \notin {"del info", "del storage"}
    PROVE  IdInv'
<1>1. RowHasFile'
  BY DEF IInv, IdInv, RowHasFile, SameIds
<1>2. DistinctIds'
  <2>1. SUFFICES ASSUME NEW m \in Md5s, NEW n \in Md5s,
                        NEW k \in DOMAIN file_info'[m], NEW l \in DOMAIN file_info'[n],
                        file_info'[m][k].file_id = file_info'[n][l].file_id
                 PROVE  m = n /\ k = l
    BY DEF DistinctIds
  <2>2. /\ k \in DOMAIN file_info[m] /\ l \in DOMAIN file_info[n]
        /\ file_info[m][k].file_id = file_info[n][l].file_id
    BY <2>1 DEF SameIds
  <2>3. DistinctIds
    BY DEF IInv, IdInv
  <2> QED BY <2>2, <2>3, SameId
<1>3. ASSUME NEW i, Unnamed(i) PROVE Unnamed(i)'
  BY <1>3 DEF Unnamed, SameIds
<1>4. /\ run'["upload"].at = "info" => run'["upload"] = run["upload"]
      /\ run'["dealfile"].at \in {"del info", "del storage"} => run'["dealfile"] = run["dealfile"]
  OBVIOUS
<1>5. UploadHolds /\ DiscardNamed /\ DiscardUnnamed
  BY DEF IInv, IdInv
<1>6. UploadHolds'
  BY <1>3, <1>4, <1>5 DEF UploadHolds
<1>7. DiscardNamed'
  BY <1>4, <1>5 DEF DiscardNamed, SameIds
<1>8. DiscardUnnamed'
  BY <1>3, <1>4, <1>5 DEF DiscardUnnamed
<1> QED BY <1>1, <1>2, <1>6, <1>7, <1>8 DEF IdInv

LEMMA SharesKeep ==
    ASSUME IInv,
           \A r \in Users \X Files :
              share_file_list[r] \in Nat /\ share_file_list'[r] \in {share_file_list[r], 0},
           run'["dealfile"] = run["dealfile"] \/ run'["dealfile"].at \notin {"status", "share row"}
    PROVE  ShareInv'
<1>1. UniqueSharer'
  BY FewerShares DEF IInv, ShareInv
<1>2. ASSUME run'["dealfile"].at \in {"status", "share row"}, NEW u \in Users
      PROVE  share_file_list'[<<u, run'["dealfile"].file>>] = 0
  <2>1. run'["dealfile"] = run["dealfile"] /\ run["dealfile"].file \in Files
    BY <1>2 DEF IInv, RequestInv, Programs
  <2>2. share_file_list[<<u, run["dealfile"].file>>] = 0
    BY <1>2, <2>1 DEF IInv, ShareInv
  <2> DEFINE r == <<u, run["dealfile"].file>>
  <2>3. r \in Users \X Files
    BY <2>1
  <2>4. share_file_list'[r] \in {share_file_list[r], 0}
    BY <2>3
  <2> QED BY <2>1, <2>2, <2>4
<1> QED BY <1>1, <1>2 DEF ShareInv

LEMMA TypesKeep == ASSUME TablesOK', RunOK' PROVE TypeOK' /\ RequestInv'
BY DEF TypeOK, TablesOK, RunOK, Request

LEMMA OrdinaryKeeps == ASSUME IInv, Ordinary PROVE IInv'
<1>1. TypeOK' /\ RequestInv'
  BY TypesKeep DEF Ordinary, FrameOK
<1>2. IdInv'
  <2>1. storage' = storage
    BY DEF Ordinary, FrameOK
  <2>2. SameIds
    BY IdsKept DEF Ordinary, SameIds
  <2> QED BY <2>1, <2>2, IdsKeep DEF Ordinary, Entering
<1>3. ShareInv'
  <2>1. share_file_list \in [Users \X Files -> Nat]
    BY TypeParts DEF IInv, TablesOK
  <2>2. \A r \in Users \X Files :
            share_file_list[r] \in Nat /\ share_file_list'[r] \in {share_file_list[r], 0}
    BY <2>1 DEF Ordinary, FrameOK
  <2> QED BY <2>2, SharesKeep DEF Ordinary, Entering
<1> QED BY <1>1, <1>2, <1>3 DEF IInv
-----------------------------------------------------------------------------
(* Steps of the procedures *)

LEMMA StepOrdinary ==
    ASSUME IInv, FrameOK,
           NEW p \in Programs, NEW from \in Labels \ {"idle"}, NEW to \in Labels \cup {"END"},
           Step(p, from, to), p # "sharefiles" \/ to # "hset",
           to \in Counted => from \in Counted, to # "info", to \notin Entering
    PROVE  Ordinary
<1>1. /\ RunOK'
      /\ \A q \in Programs : q # p => run'[q] = run[q]
      /\ run'[p].at = IF to = "END" THEN "idle" ELSE to
  BY StepFacts, RunIsOK DEF Entering
<1> QED BY <1>1 DEF Ordinary, Programs, Entering

LEMMA SelectOrdinary ==
    ASSUME IInv, FrameOK, NEW p \in Programs, NEW from \in Labels \ {"idle"},
           NEW rows \in Seq(Int), NEW to \in Labels, Select(p, from, rows, to),
           to \notin Entering, to \notin {"hset", "info"}
    PROVE  Ordinary
<1>1. /\ RunOK'
      /\ \A q \in Programs : q # p => run'[q] = run[q]
      /\ run'[p].at \in {"idle", to}
  BY SelectFacts, RunIsOK DEF Entering
<1> QED BY <1>1 DEF Ordinary, Programs, Entering

LEMMA Locals ==
    ASSUME IInv, NEW p \in Programs, p # "sharefiles", run[p].at # "idle"
    PROVE  /\ User(p) \in Users /\ File(p) \in Files /\ Row(p) \in Users \X Files
           /\ Md5(p) \in Md5s /\ Owner(p) \in Owners
BY CloudAssumption DEF IInv, RequestInv, User, File, Row, Md5, Owner, Owners

LEMMA SeenCount ==
    ASSUME IInv, NEW p \in Programs, run[p].seen # <<>> PROVE run[p].seen[1] \in Int
<1>1. run[p].seen \in Seq(Int)
  BY TypeParts DEF IInv, Request
<1> QED BY <1>1

LEMMA CountedSeen ==
    ASSUME IInv, NEW p \in Programs, run[p].at \in Counted PROVE run[p].seen[1] \in Int
BY SeenCount DEF IInv, RequestInv

LEMMA RefCountType == ASSUME IInv, NEW m \in Md5s PROVE RefCount(m) \in Seq(Int)
<1>1. file_info[m] \in Seq(InfoRow)
  BY TypeParts DEF IInv, TablesOK, InfoRow
<1>2. CASE file_info[m] = <<>>
  BY <1>2 DEF RefCount
<1>3. CASE file_info[m] # <<>>
  <2>1. file_info[m][1] \in InfoRow
    BY <1>1, <1>3
  <2> QED BY <1>3, <2>1 DEF RefCount, InfoRow
<1> QED BY <1>2, <1>3

LEMMA CountType == ASSUME IInv, NEW o \in Owners PROVE user_file_count[o] \in Seq(Int)
BY TypeParts DEF IInv, TablesOK

LEMMA StepAt == ASSUME NEW p, NEW from, NEW to, Step(p, from, to) PROVE run[p].at = from
BY DEF Step

LEMMA SelectAt == ASSUME NEW p, NEW from, NEW rows, NEW to, Select(p, from, rows, to) PROVE run[p].at = from
BY DEF Select
-----------------------------------------------------------------------------
(* The common end *)

LEMMA InsertFileKeeps ==
    ASSUME IInv, NEW p \in Programs \ {"sharefiles"}, InsertFile(p) PROVE IInv'
<1>1. Row(p) \in Users \X Files
  BY Locals, StepAt DEF InsertFile
<1>2. Append(user_file_list[Row(p)], 0) \in Seq({0, 1})
  <2>1. user_file_list[Row(p)] \in Seq({0, 1})
    BY <1>1, TypeParts DEF IInv, TablesOK
  <2> QED BY <2>1
<1>3. FrameOK
  BY <1>1, <1>2, FilesStore DEF InsertFile
<1> QED BY <1>3, StepOrdinary, OrdinaryKeeps DEF InsertFile, Labels, Counted, Entering

LEMMA SelectCountKeeps ==
    ASSUME IInv, NEW p \in Programs \ {"sharefiles"}, SelectCount(p) PROVE IInv'
<1> DEFINE c == user_file_count[Owner(p)]
           r == [run[p] EXCEPT !.at = "count+1", !.seen = c]
<1>1. c \in Seq(Int)
  BY Locals, CountType DEF SelectCount
<1>2. run \in [Programs -> Request] /\ RequestInv
  BY RunIsOK DEF RunOK
<1>3. run' = [run EXCEPT ![p] = r]
  BY <1>2 DEF SelectCount
<1> HIDE DEF c
<1>4. r \in Request /\ r.at = "count+1" /\ r.user = run[p].user /\ r.file = run[p].file
  <2>1. run[p] \in Request
    BY <1>2
  <2> QED BY <1>1, <2>1 DEF Request, Labels
<1> HIDE DEF r
<1>5. run' \in [Programs -> Request] /\ run'[p] = r /\ \A q \in Programs : q # p => run'[q] = run[q]
  BY <1>2, <1>3, <1>4
<1>6. RunOK'
  BY <1>2, <1>4, <1>5 DEF RunOK, RequestInv, Counted, SelectCount
<1>7. FrameOK
  BY NoStore DEF SelectCount
<1>8. Ordinary
  BY <1>4, <1>5, <1>6, <1>7 DEF Ordinary, Programs, Entering
<1> QED BY <1>8, OrdinaryKeeps

LEMMA WriteCountKeeps ==
    ASSUME IInv, NEW p \in Programs \ {"sharefiles"}, WriteCount(p) PROVE IInv'
<1>1. PICK to \in {"zadd", "END"} : Step(p, "count+1", to)
  BY DEF WriteCount
<1>2. Owner(p) \in Owners
  BY <1>1, Locals, StepAt
<1>3. FrameOK
  <2>1. CASE /\ run[p].seen = <<>> /\ UNCHANGED pending
             /\ user_file_count' = [user_file_count EXCEPT ![Owner(p)] = <<1>>]
    <3>1. 1 \in Int
      OBVIOUS
    <3>2. UNCHANGED <<file_info, user_file_list, share_file_list, redis, storage, pending, bounds>>
      BY <2>1 DEF WriteCount
    <3> QED BY <1>2, <2>1, <3>1, <3>2, CountStore, Zenon
  <2>2. CASE /\ UNCHANGED user_file_count
             /\ pending' = IF p = "md5" THEN pending \cup {Row(p)} ELSE pending
    <3>1. Row(p) \in Users \X Files
      BY <1>1, Locals, StepAt
    <3> QED BY <2>2, <3>1, OutsideStore, BoundsType DEF WriteCount, tables, bounds
  <2>3. CASE run[p].seen # <<>> /\ SetCount(Owner(p), run[p].seen[1] + 1) /\ UNCHANGED pending
    <3>1. run[p].seen[1] + 1 \in Int
      BY <2>3, SeenCount
    <3> QED BY <1>2, <2>3, <3>1, CountStore DEF WriteCount
  <2> QED BY <2>1, <2>2, <2>3 DEF WriteCount
<1> QED BY <1>1, <1>3, StepOrdinary, OrdinaryKeeps DEF Labels, Counted, Entering

LEMMA AddReferenceKeeps ==
    ASSUME IInv, NEW p \in Programs \ {"sharefiles"}, AddReference(p) PROVE IInv'
<1>1. run[p].at = "ref+1"
  BY StepAt DEF AddReference
<1>2. Md5(p) \in Md5s /\ run[p].seen[1] + 1 \in Int
  BY <1>1, Locals, CountedSeen DEF Counted
<1>3. FrameOK
  BY <1>2, RefCountStore DEF AddReference
<1> QED BY <1>3, StepOrdinary, OrdinaryKeeps DEF AddReference, Labels, Counted, Entering

LEMMA AddFileKeeps ==
    ASSUME IInv, NEW p \in Programs \ {"sharefiles"}, AddFile(p) PROVE IInv'
BY InsertFileKeeps, SelectCountKeeps, WriteCountKeeps, AddReferenceKeeps DEF AddFile
-----------------------------------------------------------------------------
(* md5_cgi.c and upload_cgi.c *)

LEMMA DealMd5Keeps == ASSUME IInv, deal_md5 PROVE IInv'
<1>0. "md5" \in Programs \ {"sharefiles"}
  BY DEF Programs
<1>1. CASE /\ Select("md5", "md5", RefCount(Md5("md5")), "own")
           /\ pending' = IF RefCount(Md5("md5")) = <<>> THEN pending \cup {Row("md5")} ELSE pending
           /\ UNCHANGED <<tables, redis, storage, bounds>>
  <2>1. Row("md5") \in Users \X Files /\ Md5("md5") \in Md5s
    BY <1>0, <1>1, Locals, SelectAt
  <2>2. FrameOK
    BY <1>1, <2>1, OutsideStore, BoundsType DEF bounds
  <2>3. RefCount(Md5("md5")) \in Seq(Int)
    BY <2>1, RefCountType
  <2> QED BY <1>0, <1>1, <2>2, <2>3, SelectOrdinary, OrdinaryKeeps DEF Labels, Entering
<1>2. CASE /\ Step("md5", "own", IF user_file_list[Row("md5")] = <<>> THEN "ref+1" ELSE "END")
           /\ UNCHANGED <<tables, redis, storage, pending, bounds>>
  <2>1. PICK to \in {"ref+1", "END"} : Step("md5", "own", to)
    BY <1>2
  <2> QED BY <1>0, <1>2, <2>1, NoStore, StepOrdinary, OrdinaryKeeps DEF Labels, Counted, Entering
<1>3. CASE AddFile("md5")
  BY <1>0, <1>3, AddFileKeeps
<1> QED BY <1>1, <1>2, <1>3 DEF deal_md5

LEMMA UploadKeeps == ASSUME IInv, upload_to_dstorage PROVE IInv'
<1>0. "upload" \in Programs /\ "dealfile" \in Programs
  BY DEF Programs
<1>1. PICK i \in Fids \ (storage \cup {run[p].file_id : p \in Programs}) :
          /\ storage' = storage \cup {i}
          /\ run' = [run EXCEPT !["upload"].at = "info", !["upload"].file_id = i]
  BY DEF upload_to_dstorage
<1> DEFINE r == [run["upload"] EXCEPT !.at = "info", !.file_id = i]
<1>2. run \in [Programs -> Request] /\ RequestInv
  BY RunIsOK DEF RunOK
<1>3. run' = [run EXCEPT !["upload"] = r]
  BY <1>0, <1>1, <1>2
<1>4. /\ r \in Request /\ r.at = "info" /\ r.file_id = i
      /\ r.user = run["upload"].user /\ r.file = run["upload"].file
  <2>1. run["upload"] \in Request
    BY <1>0, <1>2
  <2> QED BY <1>1, <2>1 DEF Request, Labels
<1> HIDE DEF r
<1>5. /\ run' \in [Programs -> Request] /\ run'["upload"] = r
      /\ \A q \in Programs : q # "upload" => run'[q] = run[q]
  BY <1>0, <1>2, <1>3, <1>4
<1>6. RunOK'
  BY <1>1, <1>2, <1>4, <1>5 DEF RunOK, RequestInv, Counted, upload_to_dstorage
<1>7. TypeOK' /\ RequestInv'
  <2>1. TablesOK'
    BY <1>1, TypeParts DEF IInv, TablesOK, upload_to_dstorage, tables, redis, bounds
  <2> QED BY <1>6, <2>1, TypesKeep
<1>8. RowHasFile'
  BY <1>1 DEF IInv, IdInv, RowHasFile, upload_to_dstorage, tables
<1>9. DistinctIds'
  BY DEF IInv, IdInv, DistinctIds, upload_to_dstorage, tables
<1>10. run'["dealfile"] = run["dealfile"]
  BY <1>0, <1>5
<1>11. UploadHolds'
  <2>1. Unnamed(i)'
    BY <1>1 DEF IInv, IdInv, RowHasFile, Unnamed, upload_to_dstorage, tables
  <2>2. run["dealfile"].file_id # i
    BY <1>0, <1>1
  <2>3. run'["upload"].file_id = i /\ i \in storage'
    BY <1>1, <1>4, <1>5
  <2>4. Unnamed(run["upload"].file_id)'
    BY <2>1, <2>3 DEF Unnamed
  <2> QED BY <1>10, <2>2, <2>3, <2>4 DEF UploadHolds
<1>12. DiscardNamed' /\ DiscardUnnamed'
  <2>1. DiscardNamed /\ DiscardUnnamed /\ file_info' = file_info
    BY DEF IInv, IdInv, upload_to_dstorage, tables
  <2>2. DiscardNamed'
    BY <1>10, <2>1 DEF DiscardNamed
  <2>3. DiscardUnnamed'
    BY <1>10, <2>1 DEF DiscardUnnamed, Unnamed
  <2> QED BY <2>2, <2>3
<1>13. ShareInv'
  BY <1>10 DEF IInv, ShareInv, UniqueSharer, upload_to_dstorage, tables
<1> QED BY <1>7, <1>8, <1>9, <1>11, <1>12, <1>13 DEF IInv, IdInv

LEMMA StoreInfoStep ==
    ASSUME IInv, Step("upload", "info", "row")
    PROVE  RunOK' /\ run'["dealfile"] = run["dealfile"] /\ run'["upload"].at = "row"
<1>0. "upload" \in Programs /\ "dealfile" \in Programs
  BY DEF Programs
<1>1. PICK from, to : from = "info" /\ to = "row" /\ Step("upload", from, to)
  OBVIOUS
<1>2. from \in Labels /\ to \in Labels \cup {"END"} /\ to \notin Counted /\ from # "idle"
  BY <1>1 DEF Labels, Counted
<1>3. RunOK
  BY RunIsOK
<1>4. to # "END" /\ to # "info" /\ to # "del info" /\ to # "hset" /\ to # "del storage"
  BY <1>1
<1>5. /\ RunOK'
      /\ \A q \in Programs : q # "upload" => run'[q] = run[q]
      /\ run'["upload"].at = IF to = "END" THEN "idle" ELSE to
  BY <1>0, <1>1, <1>2, <1>3, <1>4, StepFacts
<1> QED BY <1>0, <1>1, <1>4, <1>5

LEMMA StoreInfoKeeps ==
    ASSUME IInv, Step("upload", "info", "row"),
           file_info' = [file_info EXCEPT
                ![Md5("upload")] = Append(@, [file_id |-> run["upload"].file_id, count |-> 1])],
           UNCHANGED <<user_file_list, user_file_count, share_file_list, redis, storage, pending, bounds>>
    PROVE  IInv'
<1> DEFINE x == Md5("upload")
           i == run["upload"].file_id
           s == file_info[x]
<1>0. "upload" \in Programs /\ "dealfile" \in Programs
  BY DEF Programs
<1>1. run["upload"].at = "info" /\ x \in Md5s /\ i \in Fids
  BY <1>0, Locals, StepAt DEF IInv, RequestInv
<1>2. /\ RunOK'
      /\ run'["dealfile"] = run["dealfile"]
      /\ run'["upload"].at = "row"
  BY StoreInfoStep
<1>3. /\ file_info \in [Md5s -> Seq(InfoRow)]
      /\ [file_id |-> i, count |-> 1] \in InfoRow
  <2>1. file_info \in [Md5s -> Seq(InfoRow)]
    BY TypeParts DEF IInv, TablesOK, InfoRow
  <2>2. ASSUME NEW j \in Fids PROVE [file_id |-> j, count |-> 1] \in InfoRow
    BY DEF InfoRow
  <2> QED BY <1>1, <2>1, <2>2
<1>4. /\ Append(s, [file_id |-> i, count |-> 1]) \in Seq(InfoRow)
      /\ file_info' = [file_info EXCEPT ![x] = Append(s, [file_id |-> i, count |-> 1])]
  BY <1>1, <1>3
<1>5. TypeOK' /\ RequestInv'
  <2>1. file_info' \in [Md5s -> Seq(InfoRow)]
    BY <1>1, <1>3, <1>4
  <2>2. TablesOK'
    BY <2>1, TypeParts DEF IInv, TablesOK, redis, bounds, InfoRow
  <2> QED BY <1>2, <2>2, TypesKeep
\* The rows are the old ones and one more, which names the file of the upload.
<1>6. ASSUME NEW m \in Md5s, NEW k \in DOMAIN file_info'[m]
      PROVE  \/ /\ k \in DOMAIN file_info[m] /\ file_info'[m][k] = file_info[m][k]
             \/ m = x /\ k = Len(s) + 1 /\ file_info'[m][k].file_id = i
  <2>1. CASE m # x
    BY <1>1, <1>3, <1>4, <2>1
  <2>2. CASE m = x
    <3>1. file_info'[m] = Append(s, [file_id |-> i, count |-> 1]) /\ s \in Seq(InfoRow)
      BY <1>1, <1>3, <1>4, <2>2
    <3> HIDE DEF s, i, x
    <3>2. k \in 1..(Len(s) + 1) /\ Len(s) \in Nat /\ DOMAIN s = 1..Len(s)
      BY <1>6, <3>1
    <3>3. CASE k = Len(s) + 1
      BY <2>2, <3>1, <3>2, <3>3
    <3>4. CASE k # Len(s) + 1
      <4>1. k \in DOMAIN s /\ file_info'[m][k] = s[k]
        BY <3>1, <3>2, <3>4
      <4> QED BY <2>2, <4>1 DEF s
    <3> QED BY <3>3, <3>4
  <2> QED BY <2>1, <2>2
<1>7. /\ RowHasFile /\ DistinctIds /\ DiscardNamed /\ DiscardUnnamed
      /\ i \in storage /\ Unnamed(i)
      /\ run["dealfile"].at \in {"del info", "del storage"} => run["dealfile"].file_id # i
  BY <1>1 DEF IInv, IdInv, UploadHolds
<1>8. storage' = storage /\ share_file_list' = share_file_list
  OBVIOUS
<1> HIDE DEF x, i, s
<1>9. RowHasFile'
  BY <1>6, <1>7, <1>8 DEF RowHasFile
<1>10. DistinctIds'
  <2>1. SUFFICES ASSUME NEW m \in Md5s, NEW n \in Md5s,
                        NEW k \in DOMAIN file_info'[m], NEW l \in DOMAIN file_info'[n],
                        file_info'[m][k].file_id = file_info'[n][l].file_id
                 PROVE  m = n /\ k = l
    BY DEF DistinctIds
  <2>2. CASE file_info'[m][k].file_id = i
    <3>1. ASSUME NEW o \in Md5s, NEW j \in DOMAIN file_info'[o], file_info'[o][j].file_id = i
          PROVE  o = x /\ j = Len(s) + 1
      BY <1>6, <1>7, <3>1 DEF Unnamed
    <3> QED BY <2>1, <2>2, <3>1
  <2>3. CASE file_info'[m][k].file_id # i
    <3>1. /\ k \in DOMAIN file_info[m] /\ l \in DOMAIN file_info[n]
          /\ file_info[m][k].file_id = file_info[n][l].file_id
      BY <1>6, <2>1, <2>3
    <3>2. DistinctIds
      BY <1>7
    <3> QED BY <3>1, <3>2, SameId
  <2> QED BY <2>2, <2>3
<1>11. UploadHolds'
  BY <1>2 DEF UploadHolds
<1>12. DiscardNamed'
  <2>1. SUFFICES ASSUME run["dealfile"].at = "del info",
                        NEW m \in Md5s, NEW k \in DOMAIN file_info'[m],
                        file_info'[m][k].file_id = run["dealfile"].file_id
                 PROVE  m = md5[run["dealfile"].file]
    BY <1>2 DEF DiscardNamed
  <2>2. DiscardNamed /\ run["dealfile"].file_id # i
    BY <1>7, <2>1
  <2>3. k \in DOMAIN file_info[m] /\ file_info[m][k].file_id = run["dealfile"].file_id
    BY <1>6, <2>1, <2>2
  <2> QED BY <2>1, <2>2, <2>3 DEF DiscardNamed
<1>13. DiscardUnnamed'
  <2>1. SUFFICES ASSUME run["dealfile"].at = "del storage",
                        NEW m \in Md5s, NEW k \in DOMAIN file_info'[m]
                 PROVE  file_info'[m][k].file_id # run["dealfile"].file_id
    BY <1>2 DEF DiscardUnnamed, Unnamed
  <2>2. Unnamed(run["dealfile"].file_id) /\ run["dealfile"].file_id # i
    BY <1>7, <2>1 DEF DiscardUnnamed
  <2> QED BY <1>6, <2>1, <2>2 DEF Unnamed
<1>14. ShareInv'
  BY <1>2, <1>8 DEF IInv, ShareInv, UniqueSharer
<1> QED BY <1>5, <1>9, <1>10, <1>11, <1>12, <1>13, <1>14 DEF IInv, IdInv

LEMMA StoreFileinfoKeeps == ASSUME IInv, store_fileinfo_to_mysql PROVE IInv'
<1>1. CASE AddFile("upload")
  BY <1>1, AddFileKeeps DEF Programs
<1>2. CASE ~ AddFile("upload")
  BY <1>2, StoreInfoKeeps DEF store_fileinfo_to_mysql
<1> QED BY <1>1, <1>2
-----------------------------------------------------------------------------
(* dealfile_cgi.c: share_file *)

LEMMA FilesIn ==
    ASSUME IInv PROVE FILE_PUBLIC_ZSET \subseteq Files /\ FILE_NAME_HASH \subseteq Files
BY DEF IInv, TypeOK

LEMMA SharesType == ASSUME IInv PROVE share_file_list \in [Users \X Files -> Nat]
BY DEF IInv, TypeOK

\* A step of dealfile in or out of the statements that insert a share.
LEMMA ShareStep ==
    ASSUME IInv, NEW from \in Labels \ {"idle"}, NEW to \in {"status", "share row", "count"},
           Step("dealfile", from, to)
    PROVE  /\ RunOK' /\ run'["upload"] = run["upload"]
           /\ run'["dealfile"].at = to /\ run'["dealfile"].file = run["dealfile"].file
           /\ run["dealfile"].file \in Files /\ Row("dealfile") \in Users \X Files
<1>0. "upload" \in Programs /\ "dealfile" \in Programs
  BY DEF Programs
<1>1. /\ RunOK'
      /\ \A q \in Programs : q # "dealfile" => run'[q] = run[q]
      /\ run'["dealfile"].at = IF to = "END" THEN "idle" ELSE to
      /\ to # "END" => run'["dealfile"].file = run["dealfile"].file
  <2>1. RunOK
    BY RunIsOK
  <2>2. /\ to \in Labels \cup {"END"} /\ to \notin Counted
        /\ to # "info" /\ to # "del info" /\ to # "del storage"
    BY DEF Labels, Counted
  <2>3. from \in Labels /\ from # "idle" /\ "dealfile" # "sharefiles"
    OBVIOUS
  <2> HIDE DEF Labels, Counted
  <2> QED BY <1>0, <2>1, <2>2, <2>3, StepFacts
<1>2. run["dealfile"].file \in Files /\ Row("dealfile") \in Users \X Files
  BY <1>0, Locals, StepAt DEF File
<1> QED BY <1>0, <1>1, <1>2

LEMMA SharedLookup ==
    ASSUME IInv, Step("dealfile", "shared?", "status"), ~ Shared(File("dealfile")),
           UNCHANGED <<tables, redis, storage, pending, bounds>>
    PROVE  IInv'
<1>1. /\ RunOK' /\ run'["upload"] = run["upload"]
      /\ run'["dealfile"].at = "status" /\ run'["dealfile"].file = run["dealfile"].file
      /\ run["dealfile"].file \in Files
  BY ShareStep DEF Labels
<1>2. FrameOK
  BY NoStore
<1>3. TypeOK' /\ RequestInv'
  BY <1>1, <1>2, TypesKeep DEF FrameOK
<1>4. IdInv'
  BY <1>1, <1>2, IdsKept, IdsKeep DEF SameIds, FrameOK
<1>5. ShareInv'
  <2>1. ASSUME NEW u \in Users PROVE share_file_list[<<u, run["dealfile"].file>>] = 0
    <3>1. <<u, run["dealfile"].file>> \in Users \X Files
      BY <1>1
    <3>2. share_file_list[<<u, run["dealfile"].file>>] \in Nat
      BY <3>1, SharesType
    <3>3. ~ (share_file_list[<<u, run["dealfile"].file>>] > 0)
      BY DEF Shared, File
    <3> QED BY <3>2, <3>3
  <2>2. share_file_list' = share_file_list
    BY DEF tables
  <2>3. UniqueSharer'
    BY <2>2 DEF IInv, ShareInv, UniqueSharer
  <2> QED BY <1>1, <2>1, <2>2, <2>3 DEF ShareInv
<1> QED BY <1>3, <1>4, <1>5 DEF IInv

LEMMA ShareStatus ==
    ASSUME IInv, Step("dealfile", "status", "share row"), SetShared(Row("dealfile"), 1),
           UNCHANGED <<file_info, user_file_count, share_file_list, redis, storage, pending, bounds>>
    PROVE  IInv'
<1>1. /\ RunOK' /\ run'["upload"] = run["upload"]
      /\ run'["dealfile"].at = "share row" /\ run'["dealfile"].file = run["dealfile"].file
      /\ Row("dealfile") \in Users \X Files
  BY ShareStep DEF Labels
<1>2. FrameOK
  BY <1>1, SharedStore
<1>3. TypeOK' /\ RequestInv'
  BY <1>1, <1>2, TypesKeep DEF FrameOK
<1>4. IdInv'
  BY <1>1, <1>2, IdsKept, IdsKeep DEF SameIds, FrameOK
<1>5. ShareInv'
  <2>1. run["dealfile"].at = "status"
    BY StepAt
  <2>2. /\ UniqueSharer
        /\ \A u \in Users : share_file_list[<<u, run["dealfile"].file>>] = 0
    BY <2>1 DEF IInv, ShareInv
  <2>3. share_file_list' = share_file_list
    OBVIOUS
  <2> QED BY <1>1, <2>2, <2>3 DEF ShareInv, UniqueSharer
<1> QED BY <1>3, <1>4, <1>5 DEF IInv

\* UniqueSharer of any number of rows, and that nobody shares a file.
SharedOnce(s) ==
    \A f \in Files : \A u, v \in Users :
        s[<<u, f>>] <= 1 /\ (s[<<u, f>>] > 0 /\ s[<<v, f>>] > 0 => u = v)

SharedByNone(s, f) == \A u \in Users : s[<<u, f>>] = 0

LEMMA FirstShare ==
    ASSUME NEW s \in [Users \X Files -> Nat], NEW w \in Users, NEW g \in Files,
           SharedByNone(s, g), SharedOnce(s)
    PROVE  /\ [s EXCEPT ![<<w, g>>] = s[<<w, g>>] + 1] \in [Users \X Files -> Nat]
           /\ SharedOnce([s EXCEPT ![<<w, g>>] = s[<<w, g>>] + 1])
<1> DEFINE t == [s EXCEPT ![<<w, g>>] = s[<<w, g>>] + 1]
<1>1. <<w, g>> \in Users \X Files /\ s[<<w, g>>] = 0
  BY DEF SharedByNone
<1>2. t = [s EXCEPT ![<<w, g>>] = 1]
  BY <1>1
<1> HIDE DEF t
<1>3. t \in [Users \X Files -> Nat]
  BY <1>1, <1>2
<1>4. ASSUME NEW u \in Users, NEW f \in Files
      PROVE  t[<<u, f>>] = IF u = w /\ f = g THEN 1 ELSE s[<<u, f>>]
  <2>1. <<u, f>> \in Users \X Files
    OBVIOUS
  <2>2. CASE u = w /\ f = g
    BY <1>1, <1>2, <2>2
  <2>3. CASE ~ (u = w /\ f = g)
    <3>1. <<u, f>> # <<w, g>>
      BY <2>3
    <3> QED BY <1>2, <2>1, <2>3, <3>1
  <2> QED BY <2>2, <2>3
<1>5. ASSUME NEW f \in Files, NEW u \in Users, NEW v \in Users
      PROVE  t[<<u, f>>] <= 1 /\ (t[<<u, f>>] > 0 /\ t[<<v, f>>] > 0 => u = v)
  <2>1. /\ t[<<u, f>>] = IF u = w /\ f = g THEN 1 ELSE s[<<u, f>>]
        /\ t[<<v, f>>] = IF v = w /\ f = g THEN 1 ELSE s[<<v, f>>]
    BY <1>4
  <2>2. /\ s[<<u, f>>] <= 1 /\ (s[<<u, f>>] > 0 /\ s[<<v, f>>] > 0 => u = v)
        /\ f = g => s[<<u, f>>] = 0 /\ s[<<v, f>>] = 0
    BY DEF SharedOnce, SharedByNone
  <2> QED BY <2>1, <2>2
<1>6. t \in [Users \X Files -> Nat] /\ SharedOnce(t)
  BY <1>3, <1>5 DEF SharedOnce
<1> QED BY <1>6 DEF t

LEMMA ShareInsert ==
    ASSUME IInv, Step("dealfile", "share row", "count"),
           share_file_list' = [share_file_list EXCEPT ![Row("dealfile")] = @ + 1],
           UNCHANGED <<file_info, user_file_list, user_file_count, redis, storage, pending, bounds>>
    PROVE  IInv'
<1> DEFINE w == run["dealfile"].user
           g == run["dealfile"].file
<1>1. RunOK' /\ run'["upload"] = run["upload"] /\ run'["dealfile"].at = "count"
  BY ShareStep DEF Labels
<1>2. run["dealfile"].at = "share row" /\ w \in Users /\ g \in Files /\ Row("dealfile") = <<w, g>>
  BY StepAt DEF IInv, RequestInv, Programs, Row
<1>3. UniqueSharer /\ \A u \in Users : share_file_list[<<u, g>>] = 0
  BY <1>2 DEF IInv, ShareInv
<1>4. share_file_list' \in [Users \X Files -> Nat] /\ UniqueSharer'
  <2>1. share_file_list \in [Users \X Files -> Nat]
    BY SharesType
  <2>2. SharedOnce(share_file_list) /\ SharedByNone(share_file_list, g)
    BY <1>3 DEF UniqueSharer, SharedOnce, SharedByNone
  <2> DEFINE t == [share_file_list EXCEPT ![<<w, g>>] = share_file_list[<<w, g>>] + 1]
  <2>3. share_file_list' = t
    BY <1>2
  <2> HIDE DEF w, g
  <2>4. t \in [Users \X Files -> Nat] /\ SharedOnce(t)
    BY <1>2, <2>1, <2>2, FirstShare
  <2> HIDE DEF t
  <2>5. share_file_list' \in [Users \X Files -> Nat] /\ SharedOnce(share_file_list')
    BY <2>3, <2>4, Zenon
  <2> QED BY <2>5, Zenon DEF UniqueSharer, SharedOnce
<1>5. TypeOK' /\ RequestInv'
  <2>1. TablesOK'
    BY <1>4, TypeParts DEF IInv, TablesOK, redis, bounds
  <2> QED BY <1>1, <2>1, TypesKeep
<1>6. IdInv'
  <2>1. SameIds
    BY DEF SameIds
  <2> QED BY <1>1, <2>1, IdsKeep
<1>7. ShareInv'
  BY <1>1, <1>4 DEF ShareInv
<1> QED BY <1>5, <1>6, <1>7 DEF IInv

LEMMA ShareFileKeeps == ASSUME IInv, share_file PROVE IInv'
<1>0. "dealfile" \in Programs \ {"sharefiles"}
  BY DEF Programs
<1>1. CASE /\ \E ret2 \in rop_zset_exit(File("dealfile")) :
                 Step("dealfile", "share", IF ret2 = 1 THEN "END" ELSE "shared?")
           /\ UNCHANGED <<tables, redis, storage, pending, bounds>>
  <2>1. PICK to \in {"END", "shared?"} : Step("dealfile", "share", to)
    BY <1>1
  <2> QED BY <1>0, <1>1, <2>1, NoStore, StepOrdinary, OrdinaryKeeps DEF Labels, Counted, Entering
<1>2. CASE /\ Step("dealfile", "shared?", IF Shared(File("dealfile")) THEN "zadd again" ELSE "status")
           /\ UNCHANGED <<tables, redis, storage, pending, bounds>>
  <2>1. CASE Shared(File("dealfile"))
    <3>1. Step("dealfile", "shared?", "zadd again")
      BY <1>2, <2>1
    <3> QED BY <1>0, <1>2, <3>1, NoStore, StepOrdinary, OrdinaryKeeps DEF Labels, Counted, Entering
  <2>2. CASE ~ Shared(File("dealfile"))
    <3>1. Step("dealfile", "shared?", "status")
      BY <1>2, <2>2
    <3> QED BY <1>2, <2>2, <3>1, SharedLookup
  <2> QED BY <2>1, <2>2
<1>3. CASE /\ Step("dealfile", "zadd again", "END") \/ Step("dealfile", "zadd", "hset")
           /\ FILE_PUBLIC_ZSET' = FILE_PUBLIC_ZSET \cup {File("dealfile")}
           /\ UNCHANGED <<tables, FILE_NAME_HASH, storage, pending, bounds>>
  <2>1. FrameOK
    BY <1>0, <1>3, Locals, StepAt, FilesIn, RedisStore
  <2> QED BY <1>0, <1>3, <2>1, StepOrdinary, OrdinaryKeeps DEF Labels, Counted, Entering
<1>4. CASE /\ Step("dealfile", "hset", "END")
           /\ FILE_NAME_HASH' = FILE_NAME_HASH \cup {File("dealfile")}
           /\ UNCHANGED <<tables, FILE_PUBLIC_ZSET, storage, pending, bounds>>
  <2>1. FrameOK
    BY <1>0, <1>4, Locals, StepAt, FilesIn, RedisStore
  <2> QED BY <1>0, <1>4, <2>1, StepOrdinary, OrdinaryKeeps DEF Labels, Counted, Entering
<1>5. CASE SelectCount("dealfile") \/ WriteCount("dealfile")
  BY <1>0, <1>5, SelectCountKeeps, WriteCountKeeps
<1> QED BY <1>1, <1>2, <1>3, <1>4, <1>5, ShareStatus, ShareInsert DEF share_file
-----------------------------------------------------------------------------
(* dealfile_cgi.c: del_file *)

\* Steps that dealfile and dealsharefile have in common: a statement that only reads,
\* one that changes Redis, one that changes a count, one that removes a share.
LEMMA ReadKeeps ==
    ASSUME IInv, NEW p \in Programs, NEW from \in Labels \ {"idle"}, NEW to \in Labels \cup {"END"},
           Step(p, from, to), p # "sharefiles" \/ to # "hset",
           to \in Counted => from \in Counted, to # "info", to \notin Entering,
           UNCHANGED <<tables, redis, storage, pending, bounds>>
    PROVE  IInv'
<1>1. FrameOK
  BY NoStore
<1> QED BY <1>1, StepOrdinary, OrdinaryKeeps

LEMMA CountReadKeeps ==
    ASSUME IInv, NEW p \in Programs, NEW from \in Labels \ {"idle"}, NEW rows \in Seq(Int),
           NEW to \in Labels, Select(p, from, rows, to), to \notin Entering, to \notin {"hset", "info"},
           UNCHANGED <<tables, redis, storage, pending, bounds>>
    PROVE  IInv'
<1>1. FrameOK
  BY NoStore
<1> QED BY <1>1, SelectOrdinary, OrdinaryKeeps

LEMMA RedisKeeps ==
    ASSUME IInv, NEW p \in Programs, NEW from \in Labels \ {"idle"}, NEW to \in Labels \cup {"END"},
           Step(p, from, to), p # "sharefiles" \/ to # "hset",
           to \notin Counted, to # "info", to \notin Entering,
           FILE_PUBLIC_ZSET' \subseteq Files, FILE_NAME_HASH' \subseteq Files,
           UNCHANGED <<tables, storage, pending, bounds>>
    PROVE  IInv'
<1>1. FrameOK
  BY RedisStore
<1> QED BY <1>1, StepOrdinary, OrdinaryKeeps

LEMMA CountKeeps ==
    ASSUME IInv, NEW p \in Programs, NEW from \in Labels \ {"idle"}, NEW to \in Labels \ Counted,
           Step(p, from, to), to # "hset", to # "info", to \notin Entering,
           NEW o \in Owners, NEW n \in Int,
           SetCount(o, n) \/ user_file_count' = [user_file_count EXCEPT ![o] = <<>>],
           UNCHANGED <<file_info, user_file_list, share_file_list, redis, storage, pending, bounds>>
    PROVE  IInv'
<1>1. FrameOK
  BY CountStore
<1> QED BY <1>1, StepOrdinary, OrdinaryKeeps

LEMMA UnshareKeeps ==
    ASSUME IInv, NEW p \in Programs \ {"sharefiles"}, NEW to \in {"shares", "zrem"},
           Step(p, "unshare", to),
           share_file_list' = [share_file_list EXCEPT ![Row(p)] = 0],
           UNCHANGED <<file_info, user_file_list, user_file_count, redis, storage, pending, bounds>>
    PROVE  IInv'
<1>1. Row(p) \in Users \X Files
  BY Locals, StepAt
<1>2. FrameOK
  BY <1>1, UnshareStore
<1> QED BY <1>2, StepOrdinary, OrdinaryKeeps DEF Labels, Counted, Entering

LEMMA UnshareFileKeeps == ASSUME IInv, unshare_file PROVE IInv'
<1>0. /\ "dealfile" \in Programs \ {"sharefiles"} /\ SHARE_COUNT \in Owners
      /\ FILE_PUBLIC_ZSET \subseteq Files /\ FILE_NAME_HASH \subseteq Files
  BY FilesIn DEF Programs, Owners
<1>1. CASE /\ run["dealfile"].at = "del"
           /\ \E ret2 \in rop_zset_exit(File("dealfile")) :
                 run' = [run EXCEPT !["dealfile"].at = IF ret2 = 1 THEN "unshare" ELSE "status?",
                                    !["dealfile"].flag = ret2]
           /\ UNCHANGED <<tables, redis, storage, pending, bounds>>
  <2>1. PICK ret2 \in {0, 1} :
            run' = [run EXCEPT !["dealfile"].at = IF ret2 = 1 THEN "unshare" ELSE "status?",
                               !["dealfile"].flag = ret2]
    BY <1>1 DEF rop_zset_exit
  <2>2. PICK to \in {"unshare", "status?"} :
            run' = [run EXCEPT !["dealfile"] = [run["dealfile"] EXCEPT !.at = to, !.flag = ret2]]
    BY <1>0, <2>1, RunIsOK DEF RunOK
  <2> DEFINE r == [run["dealfile"] EXCEPT !.at = to, !.flag = ret2]
  <2>3. run \in [Programs -> Request] /\ RequestInv
    BY RunIsOK DEF RunOK
  <2>4. r \in Request /\ r.at = to /\ r.user = run["dealfile"].user /\ r.file = run["dealfile"].file
    <3>1. run["dealfile"] \in Request
      BY <1>0, <2>3
    <3>2. to \in Labels
      BY DEF Labels
    <3> QED BY <3>1, <3>2 DEF Request
  <2> HIDE DEF r
  <2>5. /\ run' \in [Programs -> Request] /\ run'["dealfile"] = r
        /\ \A q \in Programs : q # "dealfile" => run'[q] = run[q]
    BY <1>0, <2>2, <2>3, <2>4 DEF r
  <2>6. RunOK'
    BY <1>1, <2>3, <2>4, <2>5 DEF RunOK, RequestInv, Counted
  <2>7. FrameOK
    BY <1>1, NoStore
  <2>8. Ordinary
    BY <2>4, <2>5, <2>6, <2>7 DEF Ordinary, Programs, Entering
  <2> QED BY <2>8, OrdinaryKeeps
<1>2. CASE /\ LET rows == user_file_list[Row("dealfile")]
              IN  Step("dealfile", "status?", IF rows # <<>> /\ rows[1] = 1 THEN "unshare" ELSE "files")
           /\ UNCHANGED <<tables, redis, storage, pending, bounds>>
  <2>1. PICK to \in {"unshare", "files"} : Step("dealfile", "status?", to)
    BY <1>2
  <2> QED BY <1>0, <1>2, <2>1, ReadKeeps DEF Labels, Counted, Entering
<1>3. CASE /\ Step("dealfile", "unshare", "shares")
           /\ share_file_list' = [share_file_list EXCEPT ![Row("dealfile")] = 0]
           /\ UNCHANGED <<file_info, user_file_list, user_file_count, redis, storage, pending, bounds>>
  BY <1>0, <1>3, UnshareKeeps
<1>4. CASE /\ Select("dealfile", "shares", user_file_count[SHARE_COUNT], "shares-1")
           /\ UNCHANGED <<tables, redis, storage, pending, bounds>>
  BY <1>0, <1>4, CountType, CountReadKeeps DEF Labels, Entering
<1>5. CASE /\ Step("dealfile", "shares-1", IF run["dealfile"].flag = 1 THEN "zrem" ELSE "files")
           /\ SetCount(SHARE_COUNT, run["dealfile"].seen[1] - 1)
           /\ UNCHANGED <<file_info, user_file_list, share_file_list, redis, storage, pending, bounds>>
  <2>1. PICK to \in {"zrem", "files"} : Step("dealfile", "shares-1", to)
    BY <1>5
  <2>2. run["dealfile"].seen[1] - 1 \in Int
    BY <1>0, <2>1, StepAt, CountedSeen DEF Counted
  <2> QED BY <1>0, <1>5, <2>1, <2>2, CountKeeps DEF Labels, Counted, Entering
<1>6. CASE /\ Step("dealfile", "zrem", "hdel")
           /\ FILE_PUBLIC_ZSET' = FILE_PUBLIC_ZSET \ {File("dealfile")}
           /\ UNCHANGED <<tables, FILE_NAME_HASH, storage, pending, bounds>>
  BY <1>0, <1>6, RedisKeeps DEF Labels, Counted, Entering
<1>7. CASE /\ Step("dealfile", "hdel", "files")
           /\ FILE_NAME_HASH' = FILE_NAME_HASH \ {File("dealfile")}
           /\ UNCHANGED <<tables, FILE_PUBLIC_ZSET, storage, pending, bounds>>
  BY <1>0, <1>7, RedisKeeps DEF Labels, Counted, Entering
<1> QED BY <1>1, <1>2, <1>3, <1>4, <1>5, <1>6, <1>7 DEF unshare_file

LEMMA DisownFileKeeps == ASSUME IInv, disown_file PROVE IInv'
<1>0. "dealfile" \in Programs \ {"sharefiles"}
  BY DEF Programs
<1>1. CASE /\ Select("dealfile", "files", user_file_count[User("dealfile")], "files-1")
           /\ UNCHANGED <<tables, redis, storage, pending, bounds>>
  <2>1. User("dealfile") \in Owners
    BY <1>0, <1>1, SelectAt, Locals DEF Owners
  <2> QED BY <1>0, <1>1, <2>1, CountType, CountReadKeeps DEF Labels, Entering
<1>2. CASE /\ Step("dealfile", "files-1", "del row")
           /\ \/ /\ run["dealfile"].seen[1] = 1
                 /\ user_file_count' = [user_file_count EXCEPT ![User("dealfile")] = <<>>]
              \/ /\ run["dealfile"].seen[1] # 1
                 /\ SetCount(User("dealfile"), run["dealfile"].seen[1] - 1)
           /\ UNCHANGED <<file_info, user_file_list, share_file_list, redis, storage, pending, bounds>>
  <2>1. User("dealfile") \in Owners /\ run["dealfile"].seen[1] - 1 \in Int
    <3>1. run["dealfile"].at = "files-1"
      BY <1>2, StepAt
    <3>2. run["dealfile"].seen[1] \in Int
      BY <1>0, <3>1, CountedSeen DEF Counted
    <3> QED BY <1>0, <3>1, <3>2, Locals DEF Owners
  <2> QED BY <1>0, <1>2, <2>1, CountKeeps DEF Labels, Counted, Entering
<1>3. CASE /\ Step("dealfile", "del row", "ref")
           /\ user_file_list' = [user_file_list EXCEPT ![Row("dealfile")] = <<>>]
           /\ UNCHANGED <<file_info, user_file_count, share_file_list, redis, storage, pending, bounds>>
  <2>1. Row("dealfile") \in Users \X Files
    BY <1>0, <1>3, StepAt, Locals
  <2>2. <<>> \in Seq({0, 1})
    OBVIOUS
  <2>3. FrameOK
    BY <1>3, <2>1, <2>2, FilesStore
  <2> QED BY <1>0, <1>3, <2>3, StepOrdinary, OrdinaryKeeps DEF Labels, Counted, Entering
<1>4. CASE /\ Select("dealfile", "ref", RefCount(Md5("dealfile")), "ref-1")
           /\ UNCHANGED <<tables, redis, storage, pending, bounds>>
  <2>1. RefCount(Md5("dealfile")) \in Seq(Int)
    BY <1>0, <1>4, SelectAt, Locals, RefCountType
  <2> QED BY <1>0, <1>4, <2>1, CountReadKeeps DEF Labels, Entering
<1>5. CASE /\ Step("dealfile", "ref-1", IF run["dealfile"].seen[1] - 1 = 0 THEN "file_id" ELSE "END")
           /\ SetRefCount(Md5("dealfile"), run["dealfile"].seen[1] - 1)
           /\ UNCHANGED <<user_file_list, user_file_count, share_file_list, redis, storage, pending, bounds>>
  <2>1. PICK to \in {"file_id", "END"} : Step("dealfile", "ref-1", to)
    BY <1>5
  <2>2. Md5("dealfile") \in Md5s /\ run["dealfile"].seen[1] - 1 \in Int
    BY <1>0, <2>1, StepAt, Locals, CountedSeen DEF Counted
  <2>3. FrameOK
    BY <1>5, <2>2, RefCountStore
  <2> QED BY <1>0, <2>1, <2>3, StepOrdinary, OrdinaryKeeps DEF Labels, Counted, Entering
<1> QED BY <1>1, <1>2, <1>3, <1>4, <1>5 DEF disown_file

\* Where the share is not involved, ShareInv only needs dealfile to be elsewhere.
LEMMA ShareElsewhere ==
    ASSUME IInv, UNCHANGED share_file_list, run'["dealfile"].at \notin {"status", "share row"}
    PROVE  ShareInv'
BY DEF IInv, ShareInv, UniqueSharer

LEMMA FetchIdKeeps ==
    ASSUME IInv, run["dealfile"].at = "file_id",
           run' = [run EXCEPT !["dealfile"] =
                    IF file_info[Md5("dealfile")] = <<>> THEN Idle
                    ELSE [@ EXCEPT !.at = "del info",
                                   !.file_id = file_info[Md5("dealfile")][1].file_id]],
           UNCHANGED <<tables, redis, storage, pending, bounds>>
    PROVE  IInv'
<1> DEFINE x == Md5("dealfile")
           i == file_info[x][1].file_id
<1>0. "upload" \in Programs /\ "dealfile" \in Programs
  BY DEF Programs
<1>1. run \in [Programs -> Request] /\ RequestInv
  BY RunIsOK DEF RunOK
<1>2. x \in Md5s /\ x = md5[run["dealfile"].file]
  BY <1>0, Locals DEF Md5
<1>3. FrameOK
  BY NoStore
<1>4. CASE file_info[x] = <<>>
  <2>1. /\ run' \in [Programs -> Request] /\ run'["dealfile"] = Idle
        /\ \A q \in Programs : q # "dealfile" => run'[q] = run[q]
    BY <1>0, <1>1, <1>4, IdleRequest
  <2>2. RunOK'
    BY <1>1, <2>1, IdleRequest DEF RunOK, RequestInv, Counted
  <2>3. Ordinary
    BY <1>0, <1>3, <2>1, <2>2, IdleRequest DEF Ordinary, Entering
  <2> QED BY <2>3, OrdinaryKeeps
<1>5. CASE file_info[x] # <<>>
  <2>1. 1 \in DOMAIN file_info[x] /\ i \in Fids
    <3>1. file_info[x] \in Seq(InfoRow)
      BY <1>2, TypeParts DEF IInv, TablesOK, InfoRow
    <3> HIDE DEF x
    <3>2. 1 \in DOMAIN file_info[x] /\ file_info[x][1] \in InfoRow
      BY <1>5, <3>1
    <3> QED BY <3>2 DEF InfoRow
  <2> DEFINE r == [run["dealfile"] EXCEPT !.at = "del info", !.file_id = i]
  <2>2. run' = [run EXCEPT !["dealfile"] = r]
    BY <1>0, <1>1, <1>5
  <2> HIDE DEF i
  <2>3. /\ r \in Request /\ r.at = "del info" /\ r.file_id = i
        /\ r.user = run["dealfile"].user /\ r.file = run["dealfile"].file
    <3>1. run["dealfile"] \in Request
      BY <1>0, <1>1
    <3> QED BY <2>1, <3>1 DEF Request, Labels
  <2> HIDE DEF r
  <2>4. /\ run' \in [Programs -> Request] /\ run'["dealfile"] = r
        /\ \A q \in Programs : q # "dealfile" => run'[q] = run[q]
    BY <1>0, <1>1, <2>2, <2>3
  <2>5. RunOK'
    BY <1>1, <2>1, <2>3, <2>4 DEF RunOK, RequestInv, Counted
  <2>6. TypeOK' /\ RequestInv'
    BY <1>3, <2>5, TypesKeep DEF FrameOK
  <2>7. file_info' = file_info /\ storage' = storage /\ share_file_list' = share_file_list
    BY DEF tables
  <2>8. RowHasFile /\ DistinctIds /\ UploadHolds
    BY DEF IInv, IdInv
  <2>9. RowHasFile' /\ DistinctIds'
    BY <2>7, <2>8 DEF RowHasFile, DistinctIds
  <2>10. UploadHolds'
    <3>1. run'["upload"] = run["upload"] /\ run'["dealfile"].file_id = i
      BY <1>0, <2>3, <2>4
    <3>2. Unnamed(run["upload"].file_id) => i # run["upload"].file_id
      BY <1>2, <2>1 DEF Unnamed, i
    <3>3. Unnamed(run["upload"].file_id) => Unnamed(run["upload"].file_id)'
      BY <2>7, <3>1 DEF Unnamed
    <3> QED BY <2>7, <2>8, <3>1, <3>2, <3>3 DEF UploadHolds
  <2>11. DiscardNamed'
    <3>1. ASSUME NEW m \in Md5s, NEW k \in DOMAIN file_info[m], file_info[m][k].file_id = i
          PROVE  m = x
      BY <1>2, <2>1, <2>8, <3>1, SameId DEF i
    <3>2. run'["dealfile"].file_id = i /\ x = md5[run'["dealfile"].file]
      BY <1>2, <2>3, <2>4
    <3> HIDE DEF x
    <3> QED BY <2>7, <3>1, <3>2 DEF DiscardNamed
  <2>12. DiscardUnnamed'
    BY <2>3, <2>4 DEF DiscardUnnamed
  <2>13. ShareInv'
    BY <2>3, <2>4, <2>7, ShareElsewhere
  <2> QED BY <2>6, <2>9, <2>10, <2>11, <2>12, <2>13 DEF IInv, IdInv
<1> QED BY <1>4, <1>5

RowsDropped(m) == file_info' = [file_info EXCEPT ![m] = <<>>]

LEMMA EmptySeq == ASSUME NEW S PROVE <<>> \in Seq(S)
OBVIOUS

LEMMA RowsLeft ==
    ASSUME file_info \in [Md5s -> Seq(InfoRow)], NEW x \in Md5s, RowsDropped(x), NEW m \in Md5s
    PROVE  file_info'[m] = IF m = x THEN <<>> ELSE file_info[m]
BY DEF RowsDropped

LEMMA EmptyDomain == ASSUME NEW k PROVE k \notin DOMAIN <<>>
OBVIOUS

LEMMA DropRowsStep ==
    ASSUME IInv, Step("dealfile", "del info", "del storage")
    PROVE  /\ RunOK' /\ run'["upload"] = run["upload"] /\ run'["dealfile"].at = "del storage"
           /\ run'["dealfile"].file_id = run["dealfile"].file_id
<1>0. "upload" \in Programs /\ "dealfile" \in Programs
  BY DEF Programs
<1>1. PICK from, to : from = "del info" /\ to = "del storage" /\ Step("dealfile", from, to)
  OBVIOUS
<1>2. from \in Labels /\ to \in Labels \cup {"END"} /\ to \notin Counted /\ from # "idle"
  BY <1>1 DEF Labels, Counted
<1>3. RunOK
  BY RunIsOK
<1>4. to # "END" /\ to # "info" /\ to # "del info" /\ to # "hset" /\ (to = "del storage" => from = "del info")
  BY <1>1
<1>5. /\ RunOK'
      /\ \A q \in Programs : q # "dealfile" => run'[q] = run[q]
      /\ run'["dealfile"].at = IF to = "END" THEN "idle" ELSE to
      /\ to # "END" => /\ run'["dealfile"].file = run["dealfile"].file
                       /\ run'["dealfile"].file_id = run["dealfile"].file_id
  BY <1>0, <1>1, <1>2, <1>3, <1>4, StepFacts
<1> QED BY <1>0, <1>1, <1>4, <1>5

LEMMA DropRowsKeeps ==
    ASSUME IInv, Step("dealfile", "del info", "del storage"), RowsDropped(Md5("dealfile")),
           UNCHANGED <<user_file_list, user_file_count, share_file_list, redis, storage, pending, bounds>>
    PROVE  IInv'
<1> DEFINE x == Md5("dealfile")
<1>0. "upload" \in Programs /\ "dealfile" \in Programs
  BY DEF Programs
<1>1. run["dealfile"].at = "del info" /\ x \in Md5s /\ x = md5[run["dealfile"].file]
  BY <1>0, Locals, StepAt DEF Md5
<1>2. /\ RunOK' /\ run'["upload"] = run["upload"] /\ run'["dealfile"].at = "del storage"
      /\ run'["dealfile"].file_id = run["dealfile"].file_id
  BY DropRowsStep
<1>3. file_info \in [Md5s -> Seq(InfoRow)] /\ <<>> \in Seq(InfoRow)
  <2>1. file_info \in [Md5s -> Seq(InfoRow)]
    BY TypeParts DEF IInv, TablesOK, InfoRow
  <2>2. <<>> \in Seq(InfoRow)
    BY EmptySeq
  <2> QED BY <2>1, <2>2
<1> HIDE DEF x
<1>4. file_info' \in [Md5s -> Seq(InfoRow)]
  BY <1>1, <1>3 DEF x, RowsDropped
<1>5. TypeOK' /\ RequestInv'
  <2>1. TablesOK'
    BY <1>4, TypeParts DEF IInv, TablesOK, redis, bounds, InfoRow
  <2> QED BY <1>2, <2>1, TypesKeep
<1>6. ASSUME NEW m \in Md5s, NEW k \in DOMAIN file_info'[m]
      PROVE  m # x /\ k \in DOMAIN file_info[m] /\ file_info'[m][k] = file_info[m][k]
  <2>1. CASE m = x
    <3>1. file_info'[m] = <<>>
      BY <1>1, <1>3, <2>1, RowsLeft DEF x
    <3> QED BY <1>6, <3>1, EmptyDomain
  <2>2. CASE m # x
    <3>1. file_info'[m] = file_info[m]
      BY <1>1, <1>3, <2>2, RowsLeft DEF x
    <3> QED BY <1>6, <2>2, <3>1
  <2> QED BY <2>1, <2>2
<1>7. RowHasFile /\ DistinctIds /\ UploadHolds /\ DiscardNamed
  BY DEF IInv, IdInv
<1>8. RowHasFile'
  BY <1>6, <1>7 DEF RowHasFile
<1>9. DistinctIds'
  <2>1. SUFFICES ASSUME NEW m \in Md5s, NEW n \in Md5s,
                        NEW k \in DOMAIN file_info'[m], NEW l \in DOMAIN file_info'[n],
                        file_info'[m][k].file_id = file_info'[n][l].file_id
                 PROVE  m = n /\ k = l
    BY DEF DistinctIds
  <2>2. /\ k \in DOMAIN file_info[m] /\ l \in DOMAIN file_info[n]
        /\ file_info[m][k].file_id = file_info[n][l].file_id
    BY <1>6, <2>1
  <2> QED BY <1>7, <2>2, SameId
<1>10. ASSUME NEW i, Unnamed(i) PROVE Unnamed(i)'
  BY <1>6, <1>10 DEF Unnamed
<1>11. UploadHolds'
  <2>1. run["upload"].at = "info" =>
          /\ run["upload"].file_id \in storage' /\ Unnamed(run["upload"].file_id)'
          /\ run["dealfile"].file_id # run["upload"].file_id
    BY <1>1, <1>2, <1>7, <1>10 DEF UploadHolds
  <2> QED BY <1>2, <2>1 DEF UploadHolds
<1>12. DiscardUnnamed'
  <2>1. SUFFICES ASSUME NEW m \in Md5s, NEW k \in DOMAIN file_info'[m]
                 PROVE  file_info'[m][k].file_id # run["dealfile"].file_id
    BY <1>2 DEF DiscardUnnamed, Unnamed
  <2>2. file_info[m][k].file_id = run["dealfile"].file_id => m = x
    BY <1>1, <1>6, <1>7, <2>1 DEF DiscardNamed
  <2> QED BY <1>6, <2>1, <2>2
<1>13. DiscardNamed'
  BY <1>2 DEF DiscardNamed
<1>14. ShareInv'
  BY <1>2, ShareElsewhere
<1> QED BY <1>5, <1>8, <1>9, <1>11, <1>12, <1>13, <1>14 DEF IInv, IdInv

LEMMA SameRows == ASSUME DistinctIds, file_info' = file_info PROVE DistinctIds'
BY DEF DistinctIds

LEMMA RemoveFileKeeps ==
    ASSUME IInv, Step("dealfile", "del storage", "END"),
           storage' = storage \ {run["dealfile"].file_id},
           UNCHANGED <<tables, redis, pending, bounds>>
    PROVE  IInv'
<1>0. "upload" \in Programs /\ "dealfile" \in Programs
  BY DEF Programs
<1>1. /\ RunOK' /\ run'["upload"] = run["upload"] /\ run'["dealfile"].at = "idle"
  <2>1. "del storage" \in Labels /\ "END" \in Labels \cup {"END"} /\ "END" \notin Counted
    BY DEF Labels, Counted
  <2>2. RunOK
    BY RunIsOK
  <2>3. /\ RunOK'
        /\ \A q \in Programs : q # "dealfile" => run'[q] = run[q]
        /\ run'["dealfile"].at = IF "END" = "END" THEN "idle" ELSE "END"
    BY <1>0, <2>1, <2>2, StepFacts
  <2> QED BY <1>0, <2>3
<1>2. TypeOK' /\ RequestInv'
  <2>1. TablesOK'
    BY TypeParts DEF IInv, TablesOK, tables, redis, bounds
  <2> QED BY <1>1, <2>1, TypesKeep
<1>3. /\ RowHasFile /\ DistinctIds /\ UploadHolds /\ Unnamed(run["dealfile"].file_id)
      /\ run["dealfile"].at = "del storage" /\ file_info' = file_info
  BY StepAt DEF IInv, IdInv, DiscardUnnamed, tables
<1>4. RowHasFile'
  BY <1>3 DEF RowHasFile, Unnamed
<1>5. DistinctIds'
  BY <1>3, SameRows
<1>6. UploadHolds'
  <2>1. Unnamed(run["upload"].file_id) => Unnamed(run["upload"].file_id)'
    BY <1>1, <1>3 DEF Unnamed
  <2> QED BY <1>1, <1>3, <2>1 DEF UploadHolds
<1>7. DiscardNamed' /\ DiscardUnnamed'
  BY <1>1 DEF DiscardNamed, DiscardUnnamed
<1>8. ShareInv'
  BY <1>1, ShareElsewhere DEF tables
<1> QED BY <1>2, <1>4, <1>5, <1>6, <1>7, <1>8 DEF IInv, IdInv

LEMMA DiscardFileKeeps == ASSUME IInv, discard_file PROVE IInv'
BY FetchIdKeeps, DropRowsKeeps, RemoveFileKeeps DEF discard_file, RowsDropped

LEMMA DelFileKeeps == ASSUME IInv, del_file PROVE IInv'
BY UnshareFileKeeps, DisownFileKeeps, DiscardFileKeeps DEF del_file
-----------------------------------------------------------------------------
(* dealsharefile_cgi.c *)

LEMMA CancelKeeps == ASSUME IInv, cancel_share_file PROVE IInv'
<1>0. /\ "dealsharefile" \in Programs \ {"sharefiles"} /\ SHARE_COUNT \in Owners
      /\ FILE_PUBLIC_ZSET \subseteq Files /\ FILE_NAME_HASH \subseteq Files
  BY FilesIn DEF Programs, Owners
<1>1. CASE /\ Step("dealsharefile", "cancel", "shares")
           /\ SetShared(Row("dealsharefile"), 0)
           /\ UNCHANGED <<file_info, user_file_count, share_file_list, redis, storage, pending, bounds>>
  <2>1. Row("dealsharefile") \in Users \X Files
    BY <1>0, <1>1, StepAt, Locals
  <2>2. FrameOK
    BY <1>1, <2>1, SharedStore
  <2> QED BY <1>0, <1>1, <2>2, StepOrdinary, OrdinaryKeeps DEF Labels, Counted, Entering
<1>2. CASE /\ Select("dealsharefile", "shares", user_file_count[SHARE_COUNT], "shares-1")
           /\ UNCHANGED <<tables, redis, storage, pending, bounds>>
  BY <1>0, <1>2, CountType, CountReadKeeps DEF Labels, Entering
<1>3. CASE /\ Step("dealsharefile", "shares-1", "unshare")
           /\ \/ /\ run["dealsharefile"].seen[1] = 1
                 /\ user_file_count' = [user_file_count EXCEPT ![SHARE_COUNT] = <<>>]
              \/ /\ run["dealsharefile"].seen[1] # 1
                 /\ SetCount(SHARE_COUNT, run["dealsharefile"].seen[1] - 1)
           /\ UNCHANGED <<file_info, user_file_list, share_file_list, redis, storage, pending, bounds>>
  <2>1. run["dealsharefile"].at = "shares-1"
    BY <1>3, StepAt
  <2>2. run["dealsharefile"].seen[1] \in Int
    BY <1>0, <2>1, CountedSeen DEF Counted
  <2>3. run["dealsharefile"].seen[1] - 1 \in Int
    BY <2>2
  <2> QED BY <1>0, <1>3, <2>3, CountKeeps DEF Labels, Counted, Entering
<1>4. CASE /\ Step("dealsharefile", "unshare", "zrem")
           /\ share_file_list' = [share_file_list EXCEPT ![Row("dealsharefile")] = 0]
           /\ UNCHANGED <<file_info, user_file_list, user_file_count, redis, storage, pending, bounds>>
  BY <1>0, <1>4, UnshareKeeps
<1>5. CASE /\ Step("dealsharefile", "zrem", IF File("dealsharefile") \in FILE_PUBLIC_ZSET THEN "hdel" ELSE "END")
           /\ FILE_PUBLIC_ZSET' = FILE_PUBLIC_ZSET \ {File("dealsharefile")}
           /\ UNCHANGED <<tables, FILE_NAME_HASH, storage, pending, bounds>>
  <2>1. PICK to \in {"hdel", "END"} : Step("dealsharefile", "zrem", to)
    BY <1>5
  <2> QED BY <1>0, <1>5, <2>1, RedisKeeps DEF Labels, Counted, Entering
<1>6. CASE /\ Step("dealsharefile", "hdel", "END")
           /\ FILE_NAME_HASH' = FILE_NAME_HASH \ {File("dealsharefile")}
           /\ UNCHANGED <<tables, FILE_PUBLIC_ZSET, storage, pending, bounds>>
  BY <1>0, <1>6, RedisKeeps DEF Labels, Counted, Entering
<1> QED BY <1>1, <1>2, <1>3, <1>4, <1>5, <1>6 DEF cancel_share_file

LEMMA SaveKeeps == ASSUME IInv, save_file PROVE IInv'
<1>0. "dealsharefile" \in Programs \ {"sharefiles"}
  BY DEF Programs
<1>1. CASE /\ Step("dealsharefile", "save", IF user_file_list[Row("dealsharefile")] = <<>> THEN "ref" ELSE "END")
           /\ UNCHANGED <<tables, redis, storage, pending, bounds>>
  <2>1. PICK to \in {"ref", "END"} : Step("dealsharefile", "save", to)
    BY <1>1
  <2> QED BY <1>0, <1>1, <2>1, ReadKeeps DEF Labels, Counted, Entering
<1>2. CASE /\ Select("dealsharefile", "ref", RefCount(Md5("dealsharefile")), "ref+1")
           /\ UNCHANGED <<tables, redis, storage, pending, bounds>>
  <2>1. RefCount(Md5("dealsharefile")) \in Seq(Int)
    BY <1>0, <1>2, SelectAt, Locals, RefCountType
  <2> QED BY <1>0, <1>2, <2>1, CountReadKeeps DEF Labels, Entering
<1>3. CASE AddFile("dealsharefile")
  BY <1>0, <1>3, AddFileKeeps
<1> QED BY <1>1, <1>2, <1>3 DEF save_file

LEMMA PvKeeps == ASSUME IInv, pv_file PROVE IInv'
<1>0. /\ "dealsharefile" \in Programs \ {"sharefiles"}
      /\ FILE_PUBLIC_ZSET \subseteq Files /\ FILE_NAME_HASH \subseteq Files
  BY FilesIn DEF Programs
<1>1. CASE /\ Step("dealsharefile", "pv", IF Shared(File("dealsharefile")) THEN "exit" ELSE "END")
           /\ UNCHANGED <<tables, redis, storage, pending, bounds>>
  <2>1. PICK to \in {"exit", "END"} : Step("dealsharefile", "pv", to)
    BY <1>1
  <2> QED BY <1>0, <1>1, <2>1, ReadKeeps DEF Labels, Counted, Entering
<1>2. CASE /\ \E ret2 \in rop_zset_exit(File("dealsharefile")) :
                 Step("dealsharefile", "exit", IF ret2 = 1 THEN "zincrby" ELSE "zadd")
           /\ UNCHANGED <<tables, redis, storage, pending, bounds>>
  <2>1. PICK to \in {"zincrby", "zadd"} : Step("dealsharefile", "exit", to)
    BY <1>2
  <2> QED BY <1>0, <1>2, <2>1, ReadKeeps DEF Labels, Counted, Entering
<1>3. CASE /\ \/ Step("dealsharefile", "zincrby", "END")
              \/ Step("dealsharefile", "zadd", "hset")
           /\ FILE_PUBLIC_ZSET' = FILE_PUBLIC_ZSET \cup {File("dealsharefile")}
           /\ UNCHANGED <<tables, FILE_NAME_HASH, storage, pending, bounds>>
  <2>1. File("dealsharefile") \in Files
    BY <1>0, <1>3, StepAt, Locals
  <2> QED BY <1>0, <1>3, <2>1, RedisKeeps DEF Labels, Counted, Entering
<1>4. CASE /\ Step("dealsharefile", "hset", "END")
           /\ FILE_NAME_HASH' = FILE_NAME_HASH \cup {File("dealsharefile")}
           /\ UNCHANGED <<tables, FILE_PUBLIC_ZSET, storage, pending, bounds>>
  <2>1. File("dealsharefile") \in Files
    BY <1>0, <1>4, StepAt, Locals
  <2> QED BY <1>0, <1>4, <2>1, RedisKeeps DEF Labels, Counted, Entering
<1> QED BY <1>1, <1>2, <1>3, <1>4 DEF pv_file
-----------------------------------------------------------------------------
(* sharefiles_cgi.c, browsers and kills *)

\* A step that gives a program any request in order, outside the critical places.
LEMMA OtherKeeps ==
    ASSUME IInv, FrameOK, NEW p \in Programs, NEW r \in Request, run' = [run EXCEPT ![p] = r],
           r.at # "idle" /\ p # "sharefiles" => r.user \in Users /\ r.file \in Files,
           p = "sharefiles" /\ r.at = "hset" => r.file \in Files,
           r.at \notin Counted, r.at # "info", r.at \notin Entering
    PROVE  IInv'
<1>1. run \in [Programs -> Request] /\ RequestInv
  BY RunIsOK DEF RunOK
<1>2. run' \in [Programs -> Request] /\ run'[p] = r /\ \A q \in Programs : q # p => run'[q] = run[q]
  BY <1>1
<1>3. RequestInv'
  BY <1>1, <1>2 DEF RequestInv, Entering
<1>4. Ordinary
  BY <1>2, <1>3 DEF Ordinary, RunOK, Programs
<1> QED BY <1>4, OrdinaryKeeps

LEMMA RankingKeeps == ASSUME IInv, get_ranking_filelist PROVE IInv'
<1>0. /\ "sharefiles" \in Programs /\ SHARE_COUNT \in Owners
      /\ FILE_PUBLIC_ZSET \subseteq Files /\ FILE_NAME_HASH \subseteq Files
  BY FilesIn DEF Programs, Owners
<1>1. run["sharefiles"] \in Request /\ run \in [Programs -> Request] /\ RequestInv
  BY <1>0, RunIsOK DEF RunOK
<1>2. CASE /\ Select("sharefiles", "ranking", user_file_count[SHARE_COUNT], "zcard")
           /\ UNCHANGED <<tables, redis, storage, pending, bounds>>
  BY <1>0, <1>2, CountType, CountReadKeeps DEF Labels, Entering
<1>3. CASE /\ Step("sharefiles", "zcard",
                   IF Cardinality(FILE_PUBLIC_ZSET) = run["sharefiles"].seen[1] THEN "END" ELSE "del zset")
           /\ UNCHANGED <<tables, redis, storage, pending, bounds>>
  <2>1. PICK to \in {"END", "del zset"} : Step("sharefiles", "zcard", to)
    BY <1>3
  <2> QED BY <1>0, <1>3, <2>1, ReadKeeps DEF Labels, Counted, Entering
<1>4. CASE /\ Step("sharefiles", "del zset", "del hash")
           /\ FILE_PUBLIC_ZSET' = {}
           /\ UNCHANGED <<tables, FILE_NAME_HASH, storage, pending, bounds>>
  BY <1>0, <1>4, RedisKeeps DEF Labels, Counted, Entering
<1>5. CASE /\ Step("sharefiles", "del hash", "list")
           /\ FILE_NAME_HASH' = {}
           /\ UNCHANGED <<tables, FILE_PUBLIC_ZSET, storage, pending, bounds>>
  BY <1>0, <1>5, RedisKeeps DEF Labels, Counted, Entering
<1>6. CASE /\ run["sharefiles"].at = "list"
           /\ LET fs == {f \in Files : Shared(f)}
              IN  run' = [run EXCEPT !["sharefiles"] =
                            IF fs = {} THEN Idle ELSE [@ EXCEPT !.at = "zadd", !.todo = fs]]
           /\ UNCHANGED <<tables, redis, storage, pending, bounds>>
  <2>1. PICK fs \in SUBSET Files :
            run' = [run EXCEPT !["sharefiles"] =
                      IF fs = {} THEN Idle ELSE [run["sharefiles"] EXCEPT !.at = "zadd", !.todo = fs]]
    <3> DEFINE gs == {f \in Files : Shared(f)}
    <3>1. gs \in SUBSET Files
      OBVIOUS
    <3>2. run' = [run EXCEPT !["sharefiles"] =
                    IF gs = {} THEN Idle ELSE [run["sharefiles"] EXCEPT !.at = "zadd", !.todo = gs]]
      BY <1>0, <1>1, <1>6
    <3> HIDE DEF gs
    <3> QED BY <3>1, <3>2
  <2> DEFINE r == IF fs = {} THEN Idle ELSE [run["sharefiles"] EXCEPT !.at = "zadd", !.todo = fs]
  <2>2. r \in Request /\ r.at \in {"idle", "zadd"}
    <3>1. CASE fs = {}
      BY <3>1, IdleRequest
    <3>2. CASE fs # {}
      <4>1. r = [run["sharefiles"] EXCEPT !.at = "zadd", !.todo = fs]
        BY <3>2
      <4> HIDE DEF r
      <4> QED BY <1>1, <4>1 DEF Request, Labels
    <3> QED BY <3>1, <3>2
  <2>3. FrameOK
    BY <1>6, NoStore
  <2>4. run' = [run EXCEPT !["sharefiles"] = r]
    BY <2>1
  <2> HIDE DEF r
  <2> QED BY <1>0, <2>2, <2>3, <2>4, OtherKeeps DEF Counted, Entering
<1>7. CASE /\ run["sharefiles"].at = "zadd"
           /\ \E f \in run["sharefiles"].todo :
                 /\ FILE_PUBLIC_ZSET' = FILE_PUBLIC_ZSET \cup {f}
                 /\ run' = [run EXCEPT !["sharefiles"].at = "hset", !["sharefiles"].file = f,
                                       !["sharefiles"].todo = @ \ {f}]
           /\ UNCHANGED <<tables, FILE_NAME_HASH, storage, pending, bounds>>
  <2>1. PICK f \in run["sharefiles"].todo :
            /\ FILE_PUBLIC_ZSET' = FILE_PUBLIC_ZSET \cup {f}
            /\ run' = [run EXCEPT !["sharefiles"].at = "hset", !["sharefiles"].file = f,
                                  !["sharefiles"].todo = @ \ {f}]
    BY <1>7
  <2> DEFINE r == [run["sharefiles"] EXCEPT !.at = "hset", !.file = f, !.todo = @ \ {f}]
  <2>2. run["sharefiles"].todo \subseteq Files /\ f \in Files
    BY <1>1, <2>1 DEF Request
  <2>3. r \in Request /\ r.at = "hset" /\ r.file = f
    BY <1>1, <2>2 DEF Request, Labels
  <2>4. run' = [run EXCEPT !["sharefiles"] = r]
    BY <1>0, <1>1, <2>1
  <2>5. FrameOK
    BY <1>0, <1>7, <2>1, <2>2, RedisStore
  <2> HIDE DEF r
  <2> QED BY <1>0, <2>2, <2>3, <2>4, <2>5, OtherKeeps DEF Counted, Entering
<1>8. CASE /\ Step("sharefiles", "hset", IF run["sharefiles"].todo = {} THEN "END" ELSE "zadd")
           /\ FILE_NAME_HASH' = FILE_NAME_HASH \cup {File("sharefiles")}
           /\ UNCHANGED <<tables, FILE_PUBLIC_ZSET, storage, pending, bounds>>
  <2>1. PICK to \in {"END", "zadd"} : Step("sharefiles", "hset", to)
    BY <1>8
  <2>2. File("sharefiles") \in Files
    BY <1>0, <1>1, <2>1, StepAt DEF RequestInv, File
  <2> QED BY <1>0, <1>8, <2>1, <2>2, RedisKeeps DEF Labels, Counted, Entering
<1> QED BY <1>2, <1>3, <1>4, <1>5, <1>6, <1>7, <1>8 DEF get_ranking_filelist

LEMMA AcceptKeeps ==
    ASSUME IInv, NEW p \in Programs, NEW u \in Users \cup {Null}, NEW f \in Files \cup {Null},
           NEW cmd \in {"md5", "share", "del", "cancel", "save", "pv", "ranking", "upload"},
           Accept(p, cmd, u, f), p # "sharefiles" => u \in Users /\ f \in Files,
           pending' \subseteq Users \X Files
    PROVE  IInv'
<1> DEFINE r == [Idle EXCEPT !.at = cmd, !.user = u, !.file = f]
<1>1. r \in Request /\ r.at = cmd /\ r.user = u /\ r.file = f
  <2>1. cmd \in Labels
    BY DEF Labels
  <2> QED BY <2>1, IdleRequest DEF Request
<1>2. run' = [run EXCEPT ![p] = r]
  BY DEF Accept
<1>3. kills' \in 0..MaxKills /\ requests' \in 0..MaxRequests
  BY BoundsType, CloudAssumption DEF Accept
<1>4. FrameOK
  BY <1>3, OutsideStore DEF Accept
<1> HIDE DEF r
<1> QED BY <1>1, <1>2, <1>4, OtherKeeps DEF Counted, Entering

LEMMA BeginKeeps ==
    ASSUME IInv, NEW u \in Users, NEW f \in Files, Begin(u, f) \/ BeginUpload(u, f)
    PROVE  IInv'
<1>1. pending \subseteq Users \X Files
  BY BoundsType
<1>2. CASE Begin(u, f)
  <2>1. PICK p \in Programs, cmd \in {"md5", "share", "del", "cancel", "save", "pv"} : Accept(p, cmd, u, f)
    BY <1>2 DEF Begin, Programs
  <2> QED BY <1>1, <1>2, <2>1, AcceptKeeps DEF Begin
<1>3. CASE BeginUpload(u, f)
  BY <1>1, <1>3, AcceptKeeps DEF BeginUpload, Programs
<1> QED BY <1>2, <1>3

LEMMA BeginRankingKeeps == ASSUME IInv, BeginRanking PROVE IInv'
BY BoundsType, AcceptKeeps DEF BeginRanking, Programs

LEMMA KillKeeps == ASSUME IInv, NEW p \in Programs, Kill(p) PROVE IInv'
<1>1. kills' \in 0..MaxKills /\ requests' \in 0..MaxRequests /\ pending' \subseteq Users \X Files
  BY BoundsType, CloudAssumption DEF Kill
<1>2. FrameOK
  BY <1>1, OutsideStore DEF Kill
<1>3. run' = [run EXCEPT ![p] = Idle]
  BY DEF Kill
<1> QED BY <1>2, <1>3, IdleRequest, OtherKeeps DEF Counted, Entering
-----------------------------------------------------------------------------
LEMMA InitHolds == Init => IInv
<1> SUFFICES ASSUME Init PROVE IInv
  OBVIOUS
<1>1. /\ run = [p \in Programs |-> Idle] /\ run \in [Programs -> Request]
      /\ \A p \in Programs : run[p].at = "idle"
  BY IdleRequest DEF Init
<1>2. /\ file_info \in [Md5s -> Seq([file_id : Fids, count : Int])]
      /\ user_file_list \in [Users \X Files -> Seq({0, 1})]
      /\ user_file_count \in [Owners -> Seq(Int)]
      /\ \A o \in Owners : Len(user_file_count[o]) <= 1
  BY EmptySeq DEF Init
<1>3. share_file_list \in [Users \X Files -> Nat] /\ \A r \in Users \X Files : share_file_list[r] = 0
  BY DEF Init
<1>4. TablesOK
  BY <1>2, <1>3, CloudAssumption DEF Init, TablesOK
<1>5. TypeOK
  BY <1>1, <1>4, TypeParts
<1>6. RequestInv
  BY <1>1 DEF RequestInv, Counted
<1>7. IdInv
  <2>1. \A m \in Md5s : DOMAIN file_info[m] = {}
    BY DEF Init
  <2>2. RowHasFile /\ DistinctIds
    BY <2>1 DEF RowHasFile, DistinctIds
  <2>3. run["upload"].at = "idle" /\ run["dealfile"].at = "idle"
    BY <1>1 DEF Programs
  <2> QED BY <2>2, <2>3 DEF IdInv, UploadHolds, DiscardNamed, DiscardUnnamed
<1>8. ShareInv
  <2>1. ASSUME NEW u \in Users, NEW f \in Files PROVE share_file_list[<<u, f>>] = 0
    BY <1>3
  <2>2. UniqueSharer
    BY <2>1 DEF UniqueSharer
  <2> QED BY <1>1, <2>2 DEF ShareInv, Programs
<1> QED BY <1>5, <1>6, <1>7, <1>8 DEF IInv

LEMMA StutterKeeps == ASSUME IInv, UNCHANGED vars PROVE IInv'
<1>1. FrameOK
  BY NoStore DEF vars
<1>2. RunOK /\ run' = run
  BY RunIsOK DEF vars
<1>3. RunOK'
  BY <1>2 DEF RunOK, RequestInv
<1>4. Ordinary
  BY <1>1, <1>2, <1>3 DEF Ordinary
<1> QED BY <1>4, OrdinaryKeeps

LEMMA NextHolds == IInv /\ [Next]_vars => IInv'
<1> SUFFICES ASSUME IInv, [Next]_vars PROVE IInv'
  OBVIOUS
<1>1. CASE deal_md5
  BY <1>1, DealMd5Keeps
<1>2. CASE upload_to_dstorage
  BY <1>2, UploadKeeps
<1>3. CASE store_fileinfo_to_mysql
  BY <1>3, StoreFileinfoKeeps
<1>4. CASE share_file
  BY <1>4, ShareFileKeeps
<1>5. CASE del_file
  BY <1>5, DelFileKeeps
<1>6. CASE cancel_share_file
  BY <1>6, CancelKeeps
<1>7. CASE save_file
  BY <1>7, SaveKeeps
<1>8. CASE pv_file
  BY <1>8, PvKeeps
<1>9. CASE get_ranking_filelist
  BY <1>9, RankingKeeps
<1>10. ASSUME NEW u \in Users, NEW f \in Files, Begin(u, f) \/ BeginUpload(u, f) PROVE IInv'
  BY <1>10, BeginKeeps
<1>11. CASE BeginRanking
  BY <1>11, BeginRankingKeeps
<1>12. ASSUME NEW p \in Programs, Kill(p) PROVE IInv'
  BY <1>12, KillKeeps
<1>13. CASE UNCHANGED vars
  BY <1>13, StutterKeeps
<1> QED BY <1>1, <1>2, <1>3, <1>4, <1>5, <1>6, <1>7, <1>8, <1>9, <1>10, <1>11, <1>12, <1>13 DEF Next

\* The invariant of every interleaving of the programs' statements, with pages that
\* are out of date and programs killed anywhere.
THEOREM Invariant == Spec => []IInv
BY InitHolds, NextHolds, PTL DEF Spec

\* The tables hold what their columns allow; no statement is built from a count or an
\* id that was not read.
THEOREM TypeCorrect == Spec => []TypeOK
<1>1. IInv => TypeOK
  BY DEF IInv
<1> QED BY <1>1, Invariant, PTL

\* No two users share a file and no user shares it twice, though share_file looks and
\* inserts in different statements.
THEOREM OneSharer == Spec => []UniqueSharer
<1>1. IInv => UniqueSharer
  BY DEF IInv, ShareInv
<1> QED BY <1>1, Invariant, PTL

\* No row of file_info names a file that is not stored, although uploads of the same
\* content overlap with each other and with del_file, and either may be killed.
THEOREM RowsHaveFiles == Spec => []RowHasFile
<1>1. IInv => RowHasFile
  BY DEF IInv, IdInv
<1> QED BY <1>1, Invariant, PTL
=============================================================================
