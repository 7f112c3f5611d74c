------------------------------ MODULE CloudDisk ------------------------------
(***************************************************************************)
(* The CGI programs of 0voice-cloud-disk and the stores they share: four   *)
(* MySQL tables, two Redis keys and the FastDFS storage.  fcgi.sh starts   *)
(* one process of each program, so a program serves one request at a time  *)
(* while the other programs run beside it.  Nothing locks and nothing is a *)
(* transaction: every SQL statement, every Redis command and every FastDFS *)
(* call is a step of its own, and `fcgi.sh stop` (kill -9) can end a       *)
(* program between any two.                                                *)
(***************************************************************************)
EXTENDS Integers, Sequences, FiniteSets

CONSTANTS Users,
          Files,        \* the fileids, md5 and file name together
          Md5s, md5,    \* md5[f] is the md5 part of fileid f
          Fids,         \* ids of files in FastDFS
          SHARE_COUNT,  \* the user "xxx_share_xxx_file_xxx_list_xxx_count_xxx"
          Null,
          Sessions,     \* bound: exchanges with browsers in progress at a time
          Stale,        \* may a browser act on a page that is out of date?
          MaxKills,     \* bound: programs killed
          MaxRequests   \* bound: requests accepted

ASSUME CloudAssumption ==
    /\ md5 \in [Files -> Md5s]
    /\ SHARE_COUNT \notin Users
    /\ Null \notin Users \cup Files \cup Fids
    /\ Sessions \in Nat \ {0} /\ Stale \in BOOLEAN
    /\ MaxKills \in Nat /\ MaxRequests \in Nat

VARIABLES file_info,        \* md5 -> its rows, in the order of their id
          user_file_list,   \* user, fileid -> shared_status of its rows
          user_file_count,  \* user -> the count of its row, if it has one
          share_file_list,  \* user, fileid -> number of rows
          FILE_PUBLIC_ZSET, FILE_NAME_HASH,   \* Redis: sets of fileids
          storage,          \* FastDFS: the ids of the files it holds
          run,              \* program -> where it is in its request
          pending,          \* browsers that were told to upload a file
          kills, requests   \* for the bounds

tables == <<file_info, user_file_list, user_file_count, share_file_list>>
redis  == <<FILE_PUBLIC_ZSET, FILE_NAME_HASH>>
bounds == <<kills, requests>>
vars   == <<tables, redis, storage, run, pending, bounds>>

Programs == {"upload", "md5", "dealfile", "dealsharefile", "sharefiles"}
Owners   == Users \cup {SHARE_COUNT}

\* The local variables of a request: the count read from a table (none: no row),
\* share and flag of del_file, the id of a stored file, and the shared files that
\* get_ranking_filelist has still to import.
Idle == [at |-> "idle", user |-> Null, file |-> Null, seen |-> <<>>,
         flag |-> 0, file_id |-> Null, todo |-> {}]

Init == /\ file_info = [m \in Md5s |-> <<>>]
        /\ user_file_list = [r \in Users \X Files |-> <<>>]
        /\ user_file_count = [o \in Owners |-> <<>>]
        /\ share_file_list = [r \in Users \X Files |-> 0]
        /\ FILE_PUBLIC_ZSET = {} /\ FILE_NAME_HASH = {}
        /\ storage = {}
        /\ run = [p \in Programs |-> Idle]
        /\ pending = {}
        /\ kills = 0 /\ requests = 0
-----------------------------------------------------------------------------
(* Rows and statements *)

User(p) == run[p].user
File(p) == run[p].file
Row(p)  == <<run[p].user, run[p].file>>
Md5(p)  == md5[run[p].file]

Shared_Cached(f) == f \in FILE_PUBLIC_ZSET      \* mutant: asks Redis for what MySQL knows

Shared(f) == \E u \in Users : share_file_list[<<u, f>>] > 0

\* select count from file_info: process_result_one keeps the first row only.
RefCount(m) == IF file_info[m] = <<>> THEN <<>> ELSE <<file_info[m][1].count>>

\* update file_info set count = n where md5 = m: all the rows of m.
SetRefCount(m, n) ==
    file_info' = [file_info EXCEPT
                    ![m] = [k \in DOMAIN file_info[m] |-> [file_info[m][k] EXCEPT !.count = n]]]

\* update user_file_list set shared_status = s
SetShared(row, s) ==
    user_file_list' = [user_file_list EXCEPT ![row] = [k \in DOMAIN user_file_list[row] |-> s]]

\* update user_file_count set count = n where user = o: nothing without the row.
SetCount(o, n) ==
    user_file_count' = [user_file_count EXCEPT ![o] = IF @ = <<>> THEN <<>> ELSE <<n>>]

\* zlexcount, from the member to itself.  Redis defines it for members of equal scores
\* only: with other members about, whose numbers of downloads may differ, it can also
\* miss the one it is asked for.
rop_zset_exit(f) ==
    IF f \notin FILE_PUBLIC_ZSET THEN {0}
    ELSE IF FILE_PUBLIC_ZSET = {f} THEN {1} ELSE {0, 1}

\* The program is at one statement and goes on to another, or to its END label.
Step(p, from, to) == /\ run[p].at = from
                     /\ run' = [run EXCEPT ![p] = IF to = "END" THEN Idle ELSE [@ EXCEPT !.at = to]]

\* A select of a count: without a row the request ends, else the count is kept.
Select(p, from, rows, to) ==
    /\ run[p].at = from
    /\ run' = [run EXCEPT ![p] = IF rows = <<>> THEN Idle ELSE [@ EXCEPT !.at = to, !.seen = rows]]
-----------------------------------------------------------------------------
(* The end that deal_md5, save_file and store_fileinfo_to_mysql have in common, *)
(* and share_file with the count of shared files in place of the user's.        *)

\* user_file_list gets a row, not shared.
InsertFile(p) == /\ Step(p, "row", "count")
                 /\ user_file_list' = [user_file_list EXCEPT ![Row(p)] = Append(@, 0)]
                 /\ UNCHANGED <<file_info, user_file_count, share_file_list, redis, storage, pending, bounds>>

Owner_Shares(p) == SHARE_COUNT                  \* mutant: always the count of shared files

Owner(p) == IF p = "dealfile" THEN SHARE_COUNT ELSE User(p)

SelectCount(p) == /\ run[p].at = "count"
                  /\ run' = [run EXCEPT ![p].at = "count+1", ![p].seen = user_file_count[Owner(p)]]
                  /\ UNCHANGED <<tables, redis, storage, pending, bounds>>

\* insert 1 where there was no row, which the UNIQUE key refuses when there is one
\* by now, or update to one more than what was read.  deal_md5 answers a refusal with
\* 007: the browser is to upload a file that is in its list already.
WriteCount(p) ==
    /\ run[p].at = "count+1"
    /\ LET next == IF p = "dealfile" THEN "zadd" ELSE "END"
       IN  \/ /\ run[p].seen = <<>> /\ user_file_count[Owner(p)] = <<>>
              /\ user_file_count' = [user_file_count EXCEPT ![Owner(p)] = <<1>>]
              /\ Step(p, "count+1", next)
              /\ UNCHANGED pending
           \/ /\ run[p].seen = <<>> /\ user_file_count[Owner(p)] # <<>>
              /\ UNCHANGED user_file_count
              /\ Step(p, "count+1", "END")
              /\ pending' = IF p = "md5" THEN pending \cup {Row(p)} ELSE pending
           \/ /\ run[p].seen # <<>>
              /\ SetCount(Owner(p), run[p].seen[1] + 1)
              /\ Step(p, "count+1", next)
              /\ UNCHANGED pending
    /\ UNCHANGED <<file_info, user_file_list, share_file_list, redis, storage, bounds>>

AddReference_Same(p) ==                        \* mutant: writes back what was read
    /\ Step(p, "ref+1", "row")
    /\ SetRefCount(Md5(p), run[p].seen[1])
    /\ UNCHANGED <<user_file_list, user_file_count, share_file_list, redis, storage, pending, bounds>>

AddReference_Twice(p) ==                       \* mutant: one too many
    /\ Step(p, "ref+1", "row")
    /\ SetRefCount(Md5(p), run[p].seen[1] + 2)
    /\ UNCHANGED <<user_file_list, user_file_count, share_file_list, redis, storage, pending, bounds>>

\* file_info: one reference more than was read.
AddReference(p) == /\ Step(p, "ref+1", "row")
                   /\ SetRefCount(Md5(p), run[p].seen[1] + 1)
                   /\ UNCHANGED <<user_file_list, user_file_count, share_file_list, redis, storage, pending, bounds>>

AddFile(p) == InsertFile(p) \/ SelectCount(p) \/ WriteCount(p) \/ AddReference(p)
-----------------------------------------------------------------------------
(* md5_cgi.c: a file the server knows needs no upload *)

deal_md5 ==
    \/ /\ Select("md5", "md5", RefCount(Md5("md5")), "own")
       \* 007: the browser has to upload the file.
       /\ pending' = IF RefCount(Md5("md5")) = <<>> THEN pending \cup {Row("md5")} ELSE pending
       /\ UNCHANGED <<tables, redis, storage, bounds>>
    \/ /\ Step("md5", "own", IF user_file_list[Row("md5")] = <<>> THEN "ref+1" ELSE "END")
       /\ UNCHANGED <<tables, redis, storage, pending, bounds>>
    \/ AddFile("md5")

(* upload_cgi.c: the file goes to FastDFS, which makes up a new id for it, ... *)

upload_to_dstorage_NoId ==                     \* mutant: the pipe with the id is not read
    /\ Step("upload", "upload", "info")
    /\ \E i \in Fids \ (storage \cup {run[p].file_id : p \in Programs}) : storage' = storage \cup {i}
    /\ UNCHANGED <<tables, redis, pending, bounds>>

upload_to_dstorage ==
    /\ run["upload"].at = "upload"
    /\ \E i \in Fids \ (storage \cup {run[p].file_id : p \in Programs}) :
          /\ storage' = storage \cup {i}
          /\ run' = [run EXCEPT !["upload"].at = "info", !["upload"].file_id = i]
    /\ UNCHANGED <<tables, redis, pending, bounds>>

(* ... and then to the tables. *)

store_fileinfo_to_mysql ==
    \/ /\ Step("upload", "info", "row")
       /\ file_info' = [file_info EXCEPT
                ![Md5("upload")] = Append(@, [file_id |-> run["upload"].file_id, count |-> 1])]
       /\ UNCHANGED <<user_file_list, user_file_count, share_file_list, redis, storage, pending, bounds>>
    \/ AddFile("upload")
-----------------------------------------------------------------------------
(* dealfile_cgi.c *)

share_file ==
    \/ /\ \E ret2 \in rop_zset_exit(File("dealfile")) :
             Step("dealfile", "share", IF ret2 = 1 THEN "END" ELSE "shared?")
       /\ UNCHANGED <<tables, redis, storage, pending, bounds>>
    \/ /\ Step("dealfile", "shared?", IF Shared(File("dealfile")) THEN "zadd again" ELSE "status")
       /\ UNCHANGED <<tables, redis, storage, pending, bounds>>
    \/ /\ Step("dealfile", "zadd again", "END")
       /\ FILE_PUBLIC_ZSET' = FILE_PUBLIC_ZSET \cup {File("dealfile")}
       /\ UNCHANGED <<tables, FILE_NAME_HASH, storage, pending, bounds>>
    \/ /\ Step("dealfile", "status", "share row")
       /\ SetShared(Row("dealfile"), 1)
       /\ UNCHANGED <<file_info, user_file_count, share_file_list, redis, storage, pending, bounds>>
    \/ /\ Step("dealfile", "share row", "count")
       /\ share_file_list' = [share_file_list EXCEPT ![Row("dealfile")] = @ + 1]
       /\ UNCHANGED <<file_info, user_file_list, user_file_count, redis, storage, pending, bounds>>
    \/ SelectCount("dealfile")
    \/ WriteCount("dealfile")
    \/ /\ Step("dealfile", "zadd", "hset")
       /\ FILE_PUBLIC_ZSET' = FILE_PUBLIC_ZSET \cup {File("dealfile")}
       /\ UNCHANGED <<tables, FILE_NAME_HASH, storage, pending, bounds>>
    \/ /\ Step("dealfile", "hset", "END")
       /\ FILE_NAME_HASH' = FILE_NAME_HASH \cup {File("dealfile")}
       /\ UNCHANGED <<tables, FILE_PUBLIC_ZSET, storage, pending, bounds>>

\* del_file, first part: Redis or, failing that, the user's own row says whether
\* the file is shared; then the share is undone.
unshare_file ==
    \/ /\ run["dealfile"].at = "del"
       /\ \E ret2 \in rop_zset_exit(File("dealfile")) :
             run' = [run EXCEPT !["dealfile"].at = IF ret2 = 1 THEN "unshare" ELSE "status?",
                                !["dealfile"].flag = ret2]
       /\ UNCHANGED <<tables, redis, storage, pending, bounds>>
    \/ /\ LET rows == user_file_list[Row("dealfile")]
          IN  Step("dealfile", "status?", IF rows # <<>> /\ rows[1] = 1 THEN "unshare" ELSE "files")
       /\ UNCHANGED <<tables, redis, storage, pending, bounds>>
    \/ /\ Step("dealfile", "unshare", "shares")
       /\ share_file_list' = [share_file_list EXCEPT ![Row("dealfile")] = 0]
       /\ UNCHANGED <<file_info, user_file_list, user_file_count, redis, storage, pending, bounds>>
    \/ /\ Select("dealfile", "shares", user_file_count[SHARE_COUNT], "shares-1")
       /\ UNCHANGED <<tables, redis, storage, pending, bounds>>
    \/ /\ Step("dealfile", "shares-1", IF run["dealfile"].flag = 1 THEN "zrem" ELSE "files")
       /\ SetCount(SHARE_COUNT, run["dealfile"].seen[1] - 1)
       /\ UNCHANGED <<file_info, user_file_list, share_file_list, redis, storage, pending, bounds>>
    \/ /\ Step("dealfile", "zrem", "hdel")
       /\ FILE_PUBLIC_ZSET' = FILE_PUBLIC_ZSET \ {File("dealfile")}
       /\ UNCHANGED <<tables, FILE_NAME_HASH, storage, pending, bounds>>
    \/ /\ Step("dealfile", "hdel", "files")
       /\ FILE_NAME_HASH' = FILE_NAME_HASH \ {File("dealfile")}
       /\ UNCHANGED <<tables, FILE_PUBLIC_ZSET, storage, pending, bounds>>

\* Second part: the user has one file less, ...
disown_file ==
    \/ /\ Select("dealfile", "files", user_file_count[User("dealfile")], "files-1")
       /\ UNCHANGED <<tables, redis, storage, pending, bounds>>
    \/ /\ Step("dealfile", "files-1", "del row")
       /\ \/ /\ run["dealfile"].seen[1] = 1
             /\ user_file_count' = [user_file_count EXCEPT ![User("dealfile")] = <<>>]
          \/ /\ run["dealfile"].seen[1] # 1
             /\ SetCount(User("dealfile"), run["dealfile"].seen[1] - 1)
       /\ UNCHANGED <<file_info, user_file_list, share_file_list, redis, storage, pending, bounds>>
    \/ /\ Step("dealfile", "del row", "ref")
       /\ user_file_list' = [user_file_list EXCEPT ![Row("dealfile")] = <<>>]
       /\ UNCHANGED <<file_info, user_file_count, share_file_list, redis, storage, pending, bounds>>
    \/ /\ Select("dealfile", "ref", RefCount(Md5("dealfile")), "ref-1")
       /\ UNCHANGED <<tables, redis, storage, pending, bounds>>
    \/ /\ Step("dealfile", "ref-1", IF run["dealfile"].seen[1] - 1 = 0 THEN "file_id" ELSE "END")
       /\ SetRefCount(Md5("dealfile"), run["dealfile"].seen[1] - 1)
       /\ UNCHANGED <<user_file_list, user_file_count, share_file_list, redis, storage, pending, bounds>>

\* mutant: the stored file goes before its rows
discard_file_StorageFirst ==
    \/ /\ run["dealfile"].at = "file_id"
       /\ run' = [run EXCEPT !["dealfile"] =
                    IF file_info[Md5("dealfile")] = <<>> THEN Idle ELSE [@ EXCEPT !.at = "del info"]]
       /\ storage' = storage \ {file_info[Md5("dealfile")][k].file_id : k \in DOMAIN file_info[Md5("dealfile")]}
       /\ UNCHANGED <<tables, redis, pending, bounds>>
    \/ /\ Step("dealfile", "del info", "END")
       /\ file_info' = [file_info EXCEPT ![Md5("dealfile")] = <<>>]
       /\ UNCHANGED <<user_file_list, user_file_count, share_file_list, redis, storage, pending, bounds>>

\* ... and a file nobody refers to is removed: the id is fetched, the rows go, and
\* remove_file_from_storage comes last.
discard_file ==
    \/ /\ run["dealfile"].at = "file_id"
       /\ run' = [run EXCEPT !["dealfile"] =
                    IF file_info[Md5("dealfile")] = <<>> THEN Idle
                    ELSE [@ EXCEPT !.at = "del info",
                                   !.file_id = file_info[Md5("dealfile")][1].file_id]]
       /\ UNCHANGED <<tables, redis, storage, pending, bounds>>
    \/ /\ Step("dealfile", "del info", "del storage")
       /\ file_info' = [file_info EXCEPT ![Md5("dealfile")] = <<>>]
       /\ UNCHANGED <<user_file_list, user_file_count, share_file_list, redis, storage, pending, bounds>>
    \/ /\ Step("dealfile", "del storage", "END")
       /\ storage' = storage \ {run["dealfile"].file_id}
       /\ UNCHANGED <<tables, redis, pending, bounds>>

del_file == unshare_file \/ disown_file \/ discard_file
-----------------------------------------------------------------------------
(* dealsharefile_cgi.c *)

cancel_share_file ==
    \/ /\ Step("dealsharefile", "cancel", "shares")
       /\ SetShared(Row("dealsharefile"), 0)
       /\ UNCHANGED <<file_info, user_file_count, share_file_list, redis, storage, pending, bounds>>
    \/ /\ Select("dealsharefile", "shares", user_file_count[SHARE_COUNT], "shares-1")
       /\ UNCHANGED <<tables, redis, storage, pending, bounds>>
    \/ /\ Step("dealsharefile", "shares-1", "unshare")
       /\ \/ /\ run["dealsharefile"].seen[1] = 1
             /\ user_file_count' = [user_file_count EXCEPT ![SHARE_COUNT] = <<>>]
          \/ /\ run["dealsharefile"].seen[1] # 1
             /\ SetCount(SHARE_COUNT, run["dealsharefile"].seen[1] - 1)
       /\ UNCHANGED <<file_info, user_file_list, share_file_list, redis, storage, pending, bounds>>
    \/ /\ Step("dealsharefile", "unshare", "zrem")
       /\ share_file_list' = [share_file_list EXCEPT ![Row("dealsharefile")] = 0]
       /\ UNCHANGED <<file_info, user_file_list, user_file_count, redis, storage, pending, bounds>>
    \* Here a member that is not there is an error.
    \/ /\ Step("dealsharefile", "zrem", IF File("dealsharefile") \in FILE_PUBLIC_ZSET THEN "hdel" ELSE "END")
       /\ FILE_PUBLIC_ZSET' = FILE_PUBLIC_ZSET \ {File("dealsharefile")}
       /\ UNCHANGED <<tables, FILE_NAME_HASH, storage, pending, bounds>>
    \/ /\ Step("dealsharefile", "hdel", "END")
       /\ FILE_NAME_HASH' = FILE_NAME_HASH \ {File("dealsharefile")}
       /\ UNCHANGED <<tables, FILE_PUBLIC_ZSET, storage, pending, bounds>>

save_file ==
    \/ /\ Step("dealsharefile", "save", IF user_file_list[Row("dealsharefile")] = <<>> THEN "ref" ELSE "END")
       /\ UNCHANGED <<tables, redis, storage, pending, bounds>>
    \/ /\ Select("dealsharefile", "ref", RefCount(Md5("dealsharefile")), "ref+1")
       /\ UNCHANGED <<tables, redis, storage, pending, bounds>>
    \/ AddFile("dealsharefile")

\* The number of downloads is not modelled, what counting it does to Redis is.
pv_file ==
    \/ /\ Step("dealsharefile", "pv", IF Shared(File("dealsharefile")) THEN "exit" ELSE "END")
       /\ UNCHANGED <<tables, redis, storage, pending, bounds>>
    \/ /\ \E ret2 \in rop_zset_exit(File("dealsharefile")) :
             Step("dealsharefile", "exit", IF ret2 = 1 THEN "zincrby" ELSE "zadd")
       /\ UNCHANGED <<tables, redis, storage, pending, bounds>>
    \* ZINCRBY adds the member when it has gone in the meantime.
    \/ /\ \/ Step("dealsharefile", "zincrby", "END")
          \/ Step("dealsharefile", "zadd", "hset")
       /\ FILE_PUBLIC_ZSET' = FILE_PUBLIC_ZSET \cup {File("dealsharefile")}
       /\ UNCHANGED <<tables, FILE_NAME_HASH, storage, pending, bounds>>
    \/ /\ Step("dealsharefile", "hset", "END")
       /\ FILE_NAME_HASH' = FILE_NAME_HASH \cup {File("dealsharefile")}
       /\ UNCHANGED <<tables, FILE_PUBLIC_ZSET, storage, pending, bounds>>
-----------------------------------------------------------------------------
(* sharefiles_cgi.c: before it shows the ranking, the program imports the shared *)
(* files into Redis again when the numbers of the two differ.                    *)

get_ranking_filelist ==
    \/ /\ Select("sharefiles", "ranking", user_file_count[SHARE_COUNT], "zcard")
       /\ UNCHANGED <<tables, redis, storage, pending, bounds>>
    \/ /\ Step("sharefiles", "zcard",
               IF Cardinality(FILE_PUBLIC_ZSET) = run["sharefiles"].seen[1] THEN "END" ELSE "del zset")
       /\ UNCHANGED <<tables, redis, storage, pending, bounds>>
    \/ /\ Step("sharefiles", "del zset", "del hash")
       /\ FILE_PUBLIC_ZSET' = {}
       /\ UNCHANGED <<tables, FILE_NAME_HASH, storage, pending, bounds>>
    \/ /\ Step("sharefiles", "del hash", "list")
       /\ FILE_NAME_HASH' = {}
       /\ UNCHANGED <<tables, FILE_PUBLIC_ZSET, storage, pending, bounds>>
    \/ /\ run["sharefiles"].at = "list"
       /\ LET fs == {f \in Files : Shared(f)}
          IN  run' = [run EXCEPT !["sharefiles"] =
                        IF fs = {} THEN Idle ELSE [@ EXCEPT !.at = "zadd", !.todo = fs]]
       /\ UNCHANGED <<tables, redis, storage, pending, bounds>>
    \/ /\ run["sharefiles"].at = "zadd"
       /\ \E f \in run["sharefiles"].todo :
             /\ FILE_PUBLIC_ZSET' = FILE_PUBLIC_ZSET \cup {f}
             /\ run' = [run EXCEPT !["sharefiles"].at = "hset", !["sharefiles"].file = f,
                                   !["sharefiles"].todo = @ \ {f}]
       /\ UNCHANGED <<tables, FILE_NAME_HASH, storage, pending, bounds>>
    \/ /\ Step("sharefiles", "hset", IF run["sharefiles"].todo = {} THEN "END" ELSE "zadd")
       /\ FILE_NAME_HASH' = FILE_NAME_HASH \cup {File("sharefiles")}
       /\ UNCHANGED <<tables, FILE_PUBLIC_ZSET, storage, pending, bounds>>

-----------------------------------------------------------------------------
(* Browsers.  An exchange is a request, or an upload together with the md5    *)
(* request that asked for it.  Pages offer a user its own files to share and  *)
(* delete and its own shares to cancel, and everybody's shares to download    *)
(* and save; a page that is out of date offers anything.                      *)

Exchanges == Cardinality({p \in Programs : run[p].at # "idle"}) + Cardinality(pending)

Accept(p, cmd, u, f) ==
    /\ run[p].at = "idle"
    /\ requests < MaxRequests
    /\ requests' = requests + 1
    /\ run' = [run EXCEPT ![p] = [Idle EXCEPT !.at = cmd, !.user = u, !.file = f]]
    /\ UNCHANGED <<tables, redis, storage, kills>>

Begin(u, f) ==
    /\ Exchanges < Sessions
    /\ \/ Accept("md5", "md5", u, f)
       \/ /\ Stale \/ user_file_list[<<u, f>>] # <<>>
          /\ \E cmd \in {"share", "del"} : Accept("dealfile", cmd, u, f)
       \/ /\ Stale \/ share_file_list[<<u, f>>] > 0
          /\ Accept("dealsharefile", "cancel", u, f)
       \/ /\ Stale \/ Shared(f)
          /\ \E cmd \in {"save", "pv"} : Accept("dealsharefile", cmd, u, f)
    /\ UNCHANGED pending

BeginRanking == /\ Exchanges < Sessions
                /\ Accept("sharefiles", "ranking", Null, Null)
                /\ UNCHANGED pending

BeginUpload(u, f) == /\ <<u, f>> \in pending
                     /\ pending' = pending \ {<<u, f>>}
                     /\ Accept("upload", "upload", u, f)

\* fcgi.sh stop and start: the program is killed and starts afresh.
Kill(p) == /\ run[p].at # "idle"
           /\ kills < MaxKills
           /\ kills' = kills + 1
           /\ run' = [run EXCEPT ![p] = Idle]
           /\ UNCHANGED <<tables, redis, storage, pending, requests>>

Next == \/ deal_md5 \/ upload_to_dstorage \/ store_fileinfo_to_mysql
        \/ share_file \/ del_file
        \/ cancel_share_file \/ save_file \/ pv_file
        \/ get_ranking_filelist
        \/ \E u \in Users, f \in Files : Begin(u, f) \/ BeginUpload(u, f)
        \/ BeginRanking
        \/ \E p \in Programs : Kill(p)

Spec == Init /\ [][Next]_vars
-----------------------------------------------------------------------------
Labels == {"idle", "md5", "own", "ref+1", "row", "count", "count+1", "upload", "info",
           "share", "shared?", "zadd again", "status", "share row", "zadd", "hset",
           "del", "status?", "unshare", "shares", "shares-1", "zrem", "hdel", "files",
           "files-1", "del row", "ref", "ref-1", "file_id", "del info", "del storage",
           "cancel", "save", "pv", "exit", "zincrby",
           "ranking", "zcard", "del zset", "del hash", "list"}

\* The tables hold what their columns allow: one row of user_file_count per user,
\* any number of rows of the others.
TypeOK ==
    /\ file_info \in [Md5s -> Seq([file_id : Fids, count : Int])]
    /\ user_file_list \in [Users \X Files -> Seq({0, 1})]
    /\ user_file_count \in [Owners -> Seq(Int)]
    /\ \A o \in Owners : Len(user_file_count[o]) <= 1
    /\ share_file_list \in [Users \X Files -> Nat]
    /\ FILE_PUBLIC_ZSET \subseteq Files /\ FILE_NAME_HASH \subseteq Files
    /\ storage \subseteq Fids
    /\ run \in [Programs -> [at : Labels, user : Users \cup {Null}, file : Files \cup {Null},
                             seen : Seq(Int), flag : {0, 1}, file_id : Fids \cup {Null},
                             todo : SUBSET Files]]
    /\ pending \subseteq Users \X Files
    /\ kills \in 0..MaxKills /\ requests \in 0..MaxRequests

Quiet == \A p \in Programs : run[p].at = "idle"

\* The rows of user_file_list for the users and fileids in S, a user's, those of an md5,
\* and the rows of share_file_list.
ListRows(S)   == UNION {{r} \X DOMAIN user_file_list[r] : r \in S}
RowsOf(u)     == Cardinality(ListRows({u} \X Files))
References(m) == Cardinality(ListRows(Users \X {f \in Files : md5[f] = m}))
ShareRows     == UNION {{r} \X (1..share_file_list[r]) : r \in Users \X Files}

(* While exchanges do not overlap and no program is killed: *)

\* del_file decides to discard a file, on a count of 0, only when no user's list has
\* the file any more, under any name.
ZeroMeansUnreferenced ==
    run["dealfile"].at \in {"file_id", "del info", "del storage"} => References(Md5("dealfile")) = 0

\* Between requests, file_info has one row for each md5 in a user's list, its count
\* is the number of rows of the lists, and FastDFS holds exactly the files named there.
RefCountsAgree ==
    Quiet => /\ \A m \in Md5s :
                    IF References(m) = 0 THEN file_info[m] = <<>>
                    ELSE Len(file_info[m]) = 1 /\ file_info[m][1].count = References(m)
             /\ storage = {file_info[m][1].file_id : m \in {x \in Md5s : file_info[x] # <<>>}}

\* Between requests, a user's number of files is the length of the user's list, and a
\* user without files has no row; add and remove are spread over four programs.
UserCountsAgree ==
    Quiet => \A u \in Users :
                user_file_count[u] = IF RowsOf(u) = 0 THEN <<>> ELSE <<RowsOf(u)>>

\* The number of shared files is never more than the shares there are.  It can be
\* less: del_file takes one off when anybody deletes a file that somebody shares.
ShareCountBounded ==
    Quiet => \A k \in DOMAIN user_file_count[SHARE_COUNT] :
                user_file_count[SHARE_COUNT][k] <= Cardinality(ShareRows)

(* Whatever overlaps, and whatever is killed: *)

\* A file is shared by one user at most, once: share_file looks in Redis, then in
\* share_file_list, and inserts several statements later.
UniqueSharer ==
    \A f \in Files : \A u, v \in Users :
        /\ share_file_list[<<u, f>>] <= 1
        /\ share_file_list[<<u, f>>] > 0 /\ share_file_list[<<v, f>>] > 0 => u = v

\* What file_info names can be downloaded: the upload stores before it inserts, and
\* del_file removes the rows before the file, so no kill leaves a row without a file.
RowHasFile ==
    \A m \in Md5s : \A k \in DOMAIN file_info[m] : file_info[m][k].file_id \in storage
=============================================================================
