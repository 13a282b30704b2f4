------------------------------ MODULE Downloads ------------------------------
(***************************************************************************)
(* How a node reads files: every file of a batch is asked for through      *)
(* DownloadManager.download, which puts it in a list; a timer moves files  *)
(* from the list to a bounded number of lanes and ends the ones that came  *)
(* back.  A lane reads the content addressable store, here IpfsCas behind  *)
(* a cache in the database (IpfsCasWithCache, MongoDbCasCache).            *)
(*                                                                         *)
(* A step is one run of the timer, which does not await anything, one call *)
(* of the cache or of IPFS, or the continuation of one download.  Sizes    *)
(* are not modelled: neither store ever looks at the maximum it is given.  *)
(***************************************************************************)
EXTENDS Integers, Sequences, FiniteSets

CONSTANTS
  Downloads,              \* the calls of DownloadManager.download
  Contents,               \* the files they are about
  ContentOf,              \* the file of each call
  MaxConcurrentDownloads  \* DownloadManager.maxConcurrentDownloads

ASSUME ConstantsAssumption ==
  /\ IsFiniteSet(Downloads)
  /\ ContentOf \in [Downloads -> Contents]
  /\ MaxConcurrentDownloads \in Nat \ {0}

Codes == {"success", "notFound", "casNotReachable"}
FetchResults == [code : Codes, content : Contents]

\* `fetchResult` before the download is completed.
NoResult == [code |-> "none", content |-> "none"]

VARIABLES
  published,  \* files that IPFS can find
  cache,      \* files in the cache
  indexed,    \* the cache's unique index exists
  pending,    \* pendingDownloads
  active,     \* activeDownloads
  completed,  \* completedDownloads
  at,         \* where each download is
  result,     \* fetchResult of each download
  returned,   \* what download() returned
  timer       \* the timer is set

cas     == <<published, cache, indexed>>
manager == <<pending, active, completed, timer>>
calls   == <<at, result, returned>>
vars    == <<cas, manager, calls>>

-----------------------------------------------------------------------------
(* Helpers                                                                 *)

\* Maps are keyed by random bytes that no two downloads share.
Handle(d) == d

\* find({ hash }).limit(1)
AnyCached(d) == cache
Cached(d) == {c \in cache : c = ContentOf[d]}

\* The cache's unique index is on a property that no document has, so with it the database
\* refuses every insert but the first, and the refusal is ignored.
CacheWith(c) == IF indexed /\ cache # {} THEN cache ELSE cache \cup {c}

Completed == {d \in active : at[d] = "completed"}

\* activeDownloads.size is read after the completed ones were deleted.
AllLanes == MaxConcurrentDownloads
AvailableLanes == MaxConcurrentDownloads - Cardinality(active \ Completed)

Started == {pending[i] : i \in {j \in DOMAIN pending : j <= AvailableLanes}}

\* completedDownloads.set(handle, fetchResult) for every completed download.
CompletedWith(S) ==
  {e \in completed : \A d \in S : e.handle # Handle(d)}
    \cup {[handle |-> Handle(d), result |-> result[d]] : d \in S}

\* Where a download is after its read rejected: downloadAsync catches it.
AtAfterLeak == "lost"
AtAfterRejection == "completed"

-----------------------------------------------------------------------------

Init ==
  /\ published = {} /\ cache = {} /\ indexed \in BOOLEAN
  /\ pending = << >> /\ active = {} /\ completed = {}
  /\ at = [d \in Downloads |-> "none"]
  /\ result = [d \in Downloads |-> NoResult]
  /\ returned = [d \in Downloads |-> NoResult]
  /\ timer = TRUE

Publish(c) ==
  /\ c \notin published
  /\ published' = published \cup {c}
  /\ UNCHANGED <<cache, indexed, manager, calls>>

Download(d) ==
  /\ at[d] = "none"
  /\ at' = [at EXCEPT ![d] = "pending"]
  /\ pending' = Append(pending, d)
  /\ UNCHANGED <<cas, active, completed, timer, result, returned>>

-----------------------------------------------------------------------------
(* DownloadManager.start                                                   *)

Start ==
  /\ timer
  /\ completed' = CompletedWith(Completed)
  /\ active' = (active \ Completed) \cup Started
  /\ pending' = SubSeq(pending, Cardinality(Started) + 1, Len(pending))
  /\ at' = [d \in Downloads |-> CASE d \in Completed -> "resolved"
                                  [] d \in Started   -> "readCache"
                                  [] OTHER           -> at[d]]
  /\ UNCHANGED <<cas, timer, result, returned>>

Stop ==
  /\ timer
  /\ timer' = FALSE
  /\ UNCHANGED <<cas, pending, active, completed, calls>>

-----------------------------------------------------------------------------
(* A lane: IpfsCasWithCache.read, called by downloadAsync                   *)

Finish(d, code, content) ==
  /\ result' = [result EXCEPT ![d] = [code |-> code, content |-> content]]
  /\ at' = [at EXCEPT ![d] = "completed"]

ReadCache(d) ==
  /\ at[d] = "readCache"
  /\ \/ \E c \in Cached(d) : Finish(d, "success", c)
     \/ /\ Cached(d) = {}
        /\ at' = [at EXCEPT ![d] = "readIpfs"]
        /\ UNCHANGED result
  /\ UNCHANGED <<cas, manager, returned>>

\* IPFS finds the file, or not within the timeout although it may be there.
ReadIpfs(d) ==
  /\ at[d] = "readIpfs"
  /\ \/ /\ ContentOf[d] \in published
        /\ at' = [at EXCEPT ![d] = "writeCache"]
        /\ UNCHANGED result
     \/ Finish(d, "notFound", ContentOf[d])
  /\ UNCHANGED <<cas, manager, returned>>

WriteCache(d) ==
  /\ at[d] = "writeCache"
  /\ cache' = CacheWith(ContentOf[d])
  /\ Finish(d, "success", ContentOf[d])
  /\ UNCHANGED <<published, indexed, manager, returned>>

\* A call of the cache or of IPFS rejects.
Reject(d) ==
  /\ at[d] \in {"readCache", "readIpfs", "writeCache"}
  /\ result' = [result EXCEPT ![d] = [code |-> "casNotReachable", content |-> ContentOf[d]]]
  /\ at' = [at EXCEPT ![d] = AtAfterRejection]
  /\ UNCHANGED <<cas, manager, returned>>

\* download() goes on after its promise was resolved.
Return(d) ==
  LET mine == {e \in completed : e.handle = Handle(d)}
  IN  /\ at[d] = "resolved"
      /\ returned' = [returned EXCEPT ![d] = IF mine = {} THEN NoResult
                                             ELSE (CHOOSE e \in mine : TRUE).result]
      /\ completed' = completed \ mine
      /\ at' = [at EXCEPT ![d] = "returned"]
      /\ UNCHANGED <<cas, pending, active, timer, result>>

Lane(d) == ReadCache(d) \/ ReadIpfs(d) \/ WriteCache(d) \/ Reject(d) \/ Return(d)

Next ==
  \/ \E c \in Contents : Publish(c)
  \/ \E d \in Downloads : Download(d) \/ Lane(d)
  \/ Start \/ Stop

Spec == Init /\ [][Next]_vars

\* The timer is set again by every run, and every call returns or rejects: IPFS is given a
\* timeout of ten seconds.
FairSpec == Spec /\ WF_vars(Start) /\ \A d \in Downloads : WF_vars(Lane(d))

-----------------------------------------------------------------------------
(* Properties                                                              *)

TypeOK ==
  /\ published \subseteq Contents
  /\ cache \subseteq Contents
  /\ indexed \in BOOLEAN
  /\ pending \in Seq(Downloads)
  /\ active \subseteq Downloads
  /\ completed \subseteq [handle : Downloads, result : FetchResults]
  /\ at \in [Downloads -> {"none", "pending", "readCache", "readIpfs", "writeCache",
                           "completed", "resolved", "returned"}]
  /\ result \in [Downloads -> FetchResults \cup {NoResult}]
  /\ returned \in [Downloads -> FetchResults \cup {NoResult}]
  /\ timer \in BOOLEAN

\* At most maxConcurrentDownloads files are read at a time, and no read runs outside a lane.
LanesBounded ==
  /\ Cardinality(active) <= MaxConcurrentDownloads
  /\ {d \in Downloads : at[d] \in {"readCache", "readIpfs", "writeCache"}} \subseteq active

\* A download returns its own result, although others for the same file may end before its
\* continuation runs, and it has the content only if that was once published.
ReturnsOwnResult ==
  \A d \in Downloads : at[d] = "returned" =>
    /\ returned[d] = result[d]
    /\ returned[d].content = ContentOf[d]
    /\ returned[d].code = "success" => ContentOf[d] \in published

\* downloadAsync: "ALWAYS set downloadInfo.completed = true, else it will LEAK the available
\* download lanes and in turn hang the Observer".  Every download returns, unless the
\* manager is stopped.
EventuallyReturned ==
  \A d \in Downloads : at[d] = "pending" ~> at[d] = "returned" \/ ~timer
=============================================================================
