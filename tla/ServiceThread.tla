---------------------------- MODULE ServiceThread ----------------------------
(***************************************************************************)
(* The thread of an Android service, such as that of the book database     *)
(* (db/ServiceThread.java, db/BaseService.java).  What is posted before    *)
(* its looper runs goes to mQueue; a post is one step, for it holds the    *)
(* lock of mQueue, as run does when it hands mQueue over.  The service is  *)
(* destroyed by stop, which waits until the looper comes to a task of its  *)
(* own, but not for longer than a timeout, and quits the looper.           *)
(***************************************************************************)
EXTENDS Looper

CONSTANTS MaxPosts      \* bound: how many tasks are posted

ASSUME ServiceThreadAssumption == MaxPosts \in Nat

VARIABLES
    service,    \* the thread: what it runs, its looper, mQueue and mStopped
    stopping,   \* the call of stop: whether it waits, was notified, or is over
    record      \* history: the tasks by how they were posted, those that ran in order, and
                \* those without delay that were posted when stop was called

serviceVars == <<service, stopping, record>>

Notifying == 0          \* the task of waitForCompletion; the others are numbered

ServiceInit ==
    /\ service = [stage |-> "new", loop |-> NewLooper, mQueue |-> <<>>, mStopped |-> TRUE]
    /\ stopping = "no"
    /\ record = [how |-> <<>>, ran |-> <<>>, before |-> {}, started |-> FALSE]

HasLooper == service.stage \in {"handler", "looping"}

\* postQueuedTasks
HandOver(s) == [s EXCEPT !.loop = PostAll(@, s.mQueue), !.mQueue = <<>>]

\* The thread is not yet, or no more, to be posted to.
Early == ~ HasLooper \/ service.mStopped

\* post, postAtFrontOfQueue, postDelayed
PostTask(how) ==
    LET t == Len(record.how) + 1
        s == HandOver(service)
        Taken(l) == CASE how = "post" -> Post(l, t)
                      [] how = "front" -> PostAtFront(l, t)
                      [] how = "delayed" -> PostLater(l, t)
    IN /\ t <= MaxPosts
       /\ service' = IF Early THEN [service EXCEPT !.mQueue = Append(@, t)]
                     ELSE [s EXCEPT !.loop = Taken(@)]
       /\ record' = [record EXCEPT !.how = Append(@, how)]
       /\ UNCHANGED stopping

\* run makes the handler,
PrepareService ==
    /\ service.stage = "new"
    /\ service' = [service EXCEPT !.stage = "handler"]
    /\ UNCHANGED <<stopping, record>>

\* Mutant of StartLoop: what is in mQueue waits for the next post.
StartLoopLater ==
    /\ service.stage = "handler"
    /\ service' = [service EXCEPT !.stage = "looping", !.mStopped = FALSE]
    /\ UNCHANGED <<stopping, record>>

\* and hands mQueue over.
StartLoop ==
    /\ service.stage = "handler"
    /\ service' = [HandOver(service) EXCEPT !.stage = "looping", !.mStopped = FALSE]
    /\ UNCHANGED <<stopping, record>>

\* The loop takes a task; that of waitForCompletion notifies who waits.
RunService ==
    /\ service.stage = "looping"
    /\ \E t \in Ready(service.loop) :
          /\ service' = [service EXCEPT !.loop = Without(@, t)]
          /\ IF t = Notifying
             THEN /\ stopping' = IF stopping = "waits" THEN "notified" ELSE stopping
                  /\ UNCHANGED record
             ELSE record' = [record EXCEPT !.ran = Append(@, t)] /\ UNCHANGED stopping

EndService ==
    /\ service.stage = "looping" /\ Done(service.loop)
    /\ service' = [service EXCEPT !.stage = "ended"]
    /\ UNCHANGED <<stopping, record>>

\* Mutant of StopService: it does not wait behind other tasks.
StopServiceFirst ==
    /\ stopping = "no" /\ HasLooper
    /\ service' = [service EXCEPT !.loop = PostAtFront(@, Notifying)]
    /\ stopping' = "waits"
    /\ record' = [record EXCEPT !.before = {t \in DOMAIN record.how : record.how[t] # "delayed"},
                                !.started = ~ Early]

\* stop posts its task, past mQueue. Before the looper is there it gets a
\* NullPointerException, and nothing is stopped.
StopService ==
    /\ stopping = "no" /\ HasLooper
    /\ service' = [service EXCEPT !.loop = Post(@, Notifying)]
    /\ stopping' = "waits"
    /\ record' = [record EXCEPT !.before = {t \in DOMAIN record.how : record.how[t] # "delayed"},
                                !.started = ~ Early]

\* Its wait ends, when it is notified, when the time is over, or without a reason.
QuitService ==
    /\ stopping \in {"waits", "notified"}
    /\ service' = [service EXCEPT !.loop = Quit(@)]
    /\ stopping' = IF stopping = "notified" THEN "done" ELSE "expired"
    /\ UNCHANGED record

ServiceNext ==
    \/ \E how \in {"post", "front", "delayed"} : PostTask(how)
    \/ PrepareService \/ StartLoop \/ RunService \/ EndService
    \/ StopService \/ QuitService

ServiceSpec == ServiceInit /\ [][ServiceNext]_serviceVars

-----------------------------------------------------------------------------
(* Properties. *)

ServiceRan(t) == t \in Range(record.ran)

\* The tasks that post takes are run in the order in which they came, those that waited
\* for the looper included. While the service is not stopped, none is left when the thread
\* has nothing to do, and none runs twice.
ServiceInOrder ==
    /\ \A a, b \in DOMAIN record.how :
          a < b /\ record.how[a] = "post" /\ record.how[b] = "post" /\ ServiceRan(b)
              => \E x, y \in DOMAIN record.ran : x < y /\ record.ran[x] = a /\ record.ran[y] = b
    /\ stopping = "no" /\ service.stage = "looping" /\ Ready(service.loop) = {}
          => \A t \in DOMAIN record.how : ServiceRan(t)
    /\ \A x, y \in DOMAIN record.ran : record.ran[x] = record.ran[y] => x = y

\* A service whose looper had started loses no task that was posted before stop, unless it
\* was delayed, when stop got its notification; it may when the wait ended otherwise.
StopLosesNothing ==
    stopping = "done" /\ record.started => \A t \in record.before : ServiceRan(t)
=============================================================================
