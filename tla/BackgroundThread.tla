-------------------------- MODULE BackgroundThread --------------------------
(***************************************************************************)
(* The tasks that the Android program runs in its background thread and in *)
(* its GUI thread (crengine/BackgroundThread.java), from the start of the  *)
(* services to their stop and over restarts (crengine/Services.java).      *)
(*                                                                         *)
(* BackgroundThread.instance() is a thread with a looper, made when it is  *)
(* asked for and forgotten when its loop has returned.  What is posted     *)
(* before the looper or the GUI handler is there goes to a list.  Posting  *)
(* takes two steps: the handler is tested without the lock of the list.    *)
(***************************************************************************)
EXTENDS Looper

CONSTANTS Others,       \* threads that post, besides the GUI thread
          MaxTasks,     \* bound: how many tasks are posted
          MaxThreads,   \* bound: how often the background thread is made
          MaxStarts     \* bound: how often the services are started

ASSUME BackgroundThreadAssumption ==
    /\ "gui" \notin Others /\ IsFiniteSet(Others)
    /\ MaxTasks \in Nat /\ MaxThreads \in Nat /\ MaxStarts \in Nat

VARIABLES
    threads,    \* every BackgroundThread there was
    instance,   \* the one that instance() returns, 0 when it is to be made
    gui,        \* the looper of the GUI thread
    call,       \* what each thread that posts is in
    services,   \* Services: up from start to stop, and mEngine
    log         \* history, see NoLog

vars == <<threads, instance, gui, call, services, log>>

Posters == Others \cup {"gui"}

\* The tasks are numbered as they are posted. Two more belong to stopServices.
Tasks == 1 .. MaxTasks
Stopping == 0       \* the task of stopServices, which calls quit
Quitting == -1      \* that of quit

\* A thread: what it runs, its looper, and its lists. stopped and forwarded are history:
\* the task of stopServices was posted to it; setGUIHandler was called that often.
NewThread ==
    [stage |-> "new", loop |-> NewLooper, posted |-> <<>>, guiHandler |-> FALSE,
     postedGUI |-> <<>>, stopped |-> FALSE, forwarded |-> 0]

HasHandler(b) == b.stage \in {"handler", "looping"}

\* A call of a thread; seen is what it saw of the handler.
NoCall == [op |-> "none", task |-> 0, thread |-> 0, seen |-> FALSE, delay |-> FALSE, wait |-> FALSE]

\* The tasks posted, by whom and to what; those that ran, in order; those called
\* by callGUI; those whose Sync is completed; those that no looper took; those that were
\* added to a list after it was copied; those that a looper took before the list was.
NoLog == [posts |-> <<>>, ran |-> <<>>, called |-> {}, completed |-> {},
          dropped |-> {}, late |-> {}, early |-> {}]

Init ==
    /\ threads = <<>> /\ instance = 0 /\ gui = NewLooper
    /\ call = [p \in Posters |-> NoCall]
    /\ services = [up |-> FALSE, engine |-> FALSE, clean |-> TRUE, starts |-> 0]
    /\ log = NoLog

-----------------------------------------------------------------------------
(* Posting. *)

\* BackgroundThread.instance() tests the field and reads it again. When the end of a thread
\* comes in between it returns null: its caller gets a NullPointerException before anything
\* is posted, so that such a call is no step here.
Made == IF instance = 0 THEN Append(threads, NewThread) ELSE threads
Current == IF instance = 0 THEN Len(threads) + 1 ELSE instance
GetInstance == Current <= MaxThreads /\ threads' = Made /\ instance' = Current

Idle(p) == call[p].op = "none"
Called(p, c) == call' = [call EXCEPT ![p] = c]
NewTask == Len(log.posts) + 1
Posted(p, to, delay) ==
    [log EXCEPT !.posts = Append(@, [by |-> p, thread |-> Current, to |-> to, delay |-> delay])]

\* postBackground tests the handler.
PostBackground(p, delay) ==
    /\ Idle(p) /\ NewTask \in Tasks
    /\ GetInstance
    /\ Called(p, [NoCall EXCEPT !.op = "background", !.task = NewTask, !.delay = delay, 
                                !.thread = Current, !.seen = HasHandler(Made[Current])])
    /\ log' = Posted(p, "background", delay)
    /\ UNCHANGED <<gui, services>>

\* It adds the task to the list when there was none. Otherwise it reads the handler again:
\* when that has gone, the caller gets a NullPointerException.
PostBackgroundEnds(p) ==
    /\ call[p].op = "background"
    /\ LET i == call[p].thread
           t == call[p].task
           b == threads[i]
       IN \/ /\ ~ call[p].seen
             /\ threads' = [threads EXCEPT ![i].posted = Append(@, t)]
             /\ log' = [log EXCEPT !.late = IF b.stage \in {"new", "handler"} THEN @ ELSE @ \cup {t}]
          \/ /\ call[p].seen /\ HasHandler(b)
             /\ threads' = [threads EXCEPT ![i].loop = PostWithDelay(@, t, call[p].delay)]
             /\ log' = [log EXCEPT !.dropped = IF b.loop.quit THEN @ \cup {t} ELSE @,
                                   !.early = IF b.stage = "handler" THEN @ \cup {t} ELSE @]
          \/ /\ call[p].seen /\ ~ HasHandler(b)
             /\ log' = [log EXCEPT !.dropped = @ \cup {t}]
             /\ UNCHANGED threads
    /\ Called(p, NoCall)
    /\ UNCHANGED <<instance, gui, services>>

\* postGUI, or callGUI, which waits and which the GUI thread does itself.
PostGUI(p, delay, wait) ==
    /\ Idle(p) /\ NewTask \in Tasks
    /\ wait => p # "gui" /\ ~ delay
    /\ GetInstance
    /\ Called(p, [NoCall EXCEPT !.op = "gui", !.task = NewTask, !.delay = delay, 
                                !.thread = Current, !.seen = Made[Current].guiHandler, !.wait = wait])
    /\ log' = [Posted(p, "gui", delay) EXCEPT !.called = IF wait THEN @ \cup {NewTask} ELSE @]
    /\ UNCHANGED <<gui, services>>

PostGUIEnds(p) ==
    /\ call[p].op = "gui"
    /\ LET i == call[p].thread
           t == call[p].task
       IN IF call[p].seen
          THEN gui' = PostWithDelay(gui, t, call[p].delay) /\ UNCHANGED <<threads, log>>
          ELSE /\ threads' = [threads EXCEPT ![i].postedGUI = Append(@, t)]
               /\ log' = [log EXCEPT !.late = IF threads[i].guiHandler THEN @ \cup {t} ELSE @]
               /\ UNCHANGED gui
    /\ Called(p, IF call[p].wait THEN [call[p] EXCEPT !.op = "get"] ELSE NoCall)
    /\ UNCHANGED <<instance, services>>

-----------------------------------------------------------------------------
(* Sync of ReaderView, by which callGUI waits. *)

\* get tests completed without the lock, and again with it before it waits.
Get(p) ==
    /\ call[p].op = "get"
    /\ Called(p, IF call[p].task \in log.completed THEN NoCall ELSE [call[p] EXCEPT !.op = "lock"])
    /\ UNCHANGED <<threads, instance, gui, services, log>>

\* Mutant of Lock: the second test is missing.
LockBlind(p) ==
    /\ call[p].op = "lock"
    /\ Called(p, [call[p] EXCEPT !.op = "waiting"])
    /\ UNCHANGED <<threads, instance, gui, services, log>>

Lock(p) ==
    /\ call[p].op = "lock"
    /\ Called(p, [call[p] EXCEPT !.op = IF call[p].task \in log.completed THEN "get" ELSE "waiting"])
    /\ UNCHANGED <<threads, instance, gui, services, log>>

\* The end of set, after completed was set: notify.
Notify ==
    /\ call["gui"].op = "notify"
    /\ call' = [p \in Posters |->
                   IF p = "gui" THEN NoCall
                   ELSE IF call[p].op = "waiting" /\ call[p].task = call["gui"].task
                        THEN [call[p] EXCEPT !.op = "get"] ELSE call[p]]
    /\ UNCHANGED <<threads, instance, gui, services, log>>

-----------------------------------------------------------------------------
(* The threads. *)

\* run makes the handler,
Prepare(i) ==
    /\ threads[i].stage = "new"
    /\ threads' = [threads EXCEPT ![i].stage = "handler"]
    /\ UNCHANGED <<instance, gui, call, services, log>>

\* Mutant of Copy: the list is copied backwards.
CopyReversed(i) ==
    /\ threads[i].stage = "handler"
    /\ threads' = [threads EXCEPT ![i].stage = "looping", ![i].posted = <<>>,
                                  ![i].loop = PostAll(@, Reverse(threads[i].posted))]
    /\ UNCHANGED <<instance, gui, call, services, log>>

\* and copies the list.
Copy(i) ==
    /\ threads[i].stage = "handler"
    /\ threads' = [threads EXCEPT ![i].stage = "looping", ![i].posted = <<>>,
                                  ![i].loop = PostAll(@, threads[i].posted)]
    /\ UNCHANGED <<instance, gui, call, services, log>>

\* The loop takes the next task. That of stopServices calls quit, which posts another one;
\* it drops what is delayed (quitSafely, which every Android version has that the program is
\* built for).
RunBackground(i) ==
    /\ threads[i].stage = "looping"
    /\ \E t \in Ready(threads[i].loop) :
       LET rest == Without(threads[i].loop, t)
           stops == t = Stopping /\ services.engine
       IN /\ threads' = [threads EXCEPT ![i].loop =
                 CASE stops -> Post(rest, Quitting)
                   [] t = Quitting -> QuitSafely(rest)
                   [] OTHER -> rest]
          /\ services' = [services EXCEPT !.engine = @ /\ ~ stops]
          /\ log' = [log EXCEPT !.ran = IF t \in Tasks THEN Append(@, t) ELSE @,
                                !.dropped = IF t = Quitting THEN @ \cup rest.delayed ELSE @]
    /\ UNCHANGED <<instance, gui, call>>

\* Mutant of Leave: the instance goes with the handler.
LeaveForgotten(i) ==
    /\ threads[i].stage = "looping" /\ Done(threads[i].loop)
    /\ threads' = [threads EXCEPT ![i].stage = "left"]
    /\ instance' = 0
    /\ UNCHANGED <<gui, call, services, log>>

\* The loop has returned: the handler goes, then the instance.
Leave(i) ==
    /\ threads[i].stage = "looping" /\ Done(threads[i].loop)
    /\ threads' = [threads EXCEPT ![i].stage = "left"]
    /\ UNCHANGED <<instance, gui, call, services, log>>

End(i) ==
    /\ threads[i].stage = "left"
    /\ threads' = [threads EXCEPT ![i].stage = "ended"]
    /\ instance' = 0
    /\ UNCHANGED <<gui, call, services, log>>

\* The GUI thread takes its next task.
RunGUI ==
    /\ Idle("gui")
    /\ \E t \in Ready(gui) :
          /\ gui' = Without(gui, t)
          /\ log' = [log EXCEPT !.ran = Append(@, t),
                                !.completed = IF t \in log.called THEN @ \cup {t} ELSE @]
          /\ Called("gui", IF t \in log.called THEN [NoCall EXCEPT !.op = "notify", !.task = t]
                           ELSE NoCall)
    /\ UNCHANGED <<threads, instance, services>>

-----------------------------------------------------------------------------
(* Services, in the GUI thread. *)

\* startServices: setGUIHandler sets the handler.
StartServices ==
    /\ Idle("gui") /\ ~ services.up /\ services.starts < MaxStarts
    /\ Current <= MaxThreads
    /\ threads' = [Made EXCEPT ![Current].guiHandler = TRUE, ![Current].forwarded = @ + 1]
    /\ instance' = Current
    /\ Called("gui", [NoCall EXCEPT !.op = "forward", !.thread = Current])
    /\ services' = [services EXCEPT !.up = TRUE, !.starts = @ + 1,
                                    !.clean = ~ Made[Current].stopped]
    /\ UNCHANGED <<gui, log>>

\* Mutant of Forward: what is in the list is dropped.
ForwardNothing ==
    /\ call["gui"].op = "forward"
    /\ threads' = [threads EXCEPT ![call["gui"].thread].postedGUI = <<>>]
    /\ Called("gui", NoCall)
    /\ services' = [services EXCEPT !.engine = TRUE]
    /\ UNCHANGED <<gui, instance, log>>

\* It posts what is in the list, which stays there; then mEngine is set.
Forward ==
    /\ call["gui"].op = "forward"
    /\ gui' = PostAll(gui, threads[call["gui"].thread].postedGUI)
    /\ Called("gui", NoCall)
    /\ services' = [services EXCEPT !.engine = TRUE]
    /\ UNCHANGED <<threads, instance, log>>

\* stopServices posts a task, as postBackground does.
StopServices ==
    /\ Idle("gui") /\ services.up
    /\ Current <= MaxThreads
    /\ threads' = [Made EXCEPT ![Current].stopped = TRUE]
    /\ instance' = Current
    /\ Called("gui", [NoCall EXCEPT !.op = "background", !.task = Stopping, !.thread = Current,
                                    !.seen = HasHandler(Made[Current])])
    /\ services' = [services EXCEPT !.up = FALSE]
    /\ UNCHANGED <<gui, log>>

-----------------------------------------------------------------------------
\* What threads do that are in a call, and the loopers.
Continue(p) == PostBackgroundEnds(p) \/ PostGUIEnds(p) \/ Get(p) \/ Lock(p)
Background(i) == Prepare(i) \/ Copy(i) \/ RunBackground(i) \/ Leave(i) \/ End(i)
GUI == RunGUI \/ Notify \/ Forward

Next ==
    \/ \E p \in Posters, delay, wait \in BOOLEAN : PostBackground(p, delay) \/ PostGUI(p, delay, wait)
    \/ StartServices \/ StopServices
    \/ \E p \in Posters : Continue(p)
    \/ \E i \in DOMAIN threads : Background(i)
    \/ GUI

Spec == Init /\ [][Next]_vars

-----------------------------------------------------------------------------
(* Properties. *)

Ran(t) == t \in Range(log.ran)
\* A task that waits for a GUI handler that its BackgroundThread does not have.
NoGUI(t) == \E i \in DOMAIN threads : ~ threads[i].guiHandler /\ t \in Range(threads[i].postedGUI)
\* One in the list of a BackgroundThread that was given it twice.
GUITwice(t) == \E i \in DOMAIN threads : threads[i].forwarded > 1 /\ t \in Range(threads[i].postedGUI)

\* A thread has something to do.
Busy ==
    \/ \E p \in Posters : ENABLED Continue(p)
    \/ \E i \in DOMAIN threads : ENABLED Background(i)
    \/ ENABLED GUI

\* When all threads are at rest, every task that was posted has run, and once, and who
\* waits for it in callGUI has returned. Except for a task that no looper took, that was
\* added to a list which had been copied after the handler was tested, that is for the GUI
\* when nobody gives its BackgroundThread a GUI handler, or that is in the list of one
\* which was given it twice.
EveryTaskRuns ==
    ~ Busy =>
        \A t \in DOMAIN log.posts :
            \/ /\ Cardinality({k \in DOMAIN log.ran : log.ran[k] = t}) = 1
               /\ \A p \in Others : call[p].task # t
            \/ t \in log.dropped \cup log.late \/ NoGUI(t) \/ GUITwice(t)

\* Tasks that a thread posts to the same BackgroundThread are run in this order, unless
\* one was delayed, or the first was added to a list which had been copied, or the second
\* was taken by the looper while the list was not copied yet.
InOrder ==
    \A a, b \in DOMAIN log.posts :
        (/\ a < b /\ log.posts[a] = log.posts[b]
         /\ log.posts[a].to = "background" /\ ~ log.posts[a].delay
         /\ Ran(b) /\ b \notin log.early
         /\ a \notin log.late)
        => \E x, y \in DOMAIN log.ran : x < y /\ log.ran[x] = a /\ log.ran[y] = b

\* Services that were started when no thread had been told to stop keep their engine,
\* and a background thread, the newest, with its GUI handler, until they are stopped.
CleanStart ==
    services.up /\ services.clean /\ call["gui"].op # "forward" =>
        /\ services.engine
        /\ instance # 0 /\ instance = Len(threads) /\ threads[instance].guiHandler
=============================================================================
