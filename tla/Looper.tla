------------------------------- MODULE Looper -------------------------------
(***************************************************************************)
(* The message queue of an Android thread (Looper and Handler) as the      *)
(* classes BackgroundThread and ServiceThread use it: what is due, in      *)
(* order, what is due later, and whether the loop was told to quit.  A     *)
(* post to a queue that quits returns false, which nobody looks at.        *)
(***************************************************************************)
EXTENDS Integers, Sequences, FiniteSets, SequencesExt

NewLooper == [queue |-> <<>>, delayed |-> {}, quit |-> FALSE]

\* Handler.post
Post(l, t) == IF l.quit THEN l ELSE [l EXCEPT !.queue = Append(@, t)]

\* Handler.postAtFrontOfQueue
PostAtFront(l, t) == IF l.quit THEN l ELSE [l EXCEPT !.queue = <<t>> \o @]

\* Handler.postDelayed
PostLater(l, t) == IF l.quit THEN l ELSE [l EXCEPT !.delayed = @ \cup {t}]

\* post or postDelayed
PostWithDelay(l, t, delay) == IF delay THEN PostLater(l, t) ELSE Post(l, t)

PostAll(l, list) == IF l.quit THEN l ELSE [l EXCEPT !.queue = @ \o list]

\* The tasks that the loop may take: the first, or one whose delay is over.
Ready(l) == (IF l.queue = <<>> THEN {} ELSE {Head(l.queue)}) \cup l.delayed
Without(l, t) ==
    IF t \in l.delayed THEN [l EXCEPT !.delayed = @ \ {t}] ELSE [l EXCEPT !.queue = Tail(@)]

\* Looper.quit drops everything, quitSafely what is not due yet.
Quit(l) == [queue |-> <<>>, delayed |-> {}, quit |-> TRUE]
QuitSafely(l) == [l EXCEPT !.delayed = {}, !.quit = TRUE]

\* Looper.loop returns.
Done(l) == l.quit /\ l.queue = <<>>
=============================================================================
