------------------------------- MODULE Notices -------------------------------
(***************************************************************************)
(* The notices (operations/notices): rows of sys_notice_log that are       *)
(* written as pending, handed to the SMS provider or not, and retried by a *)
(* job while they have failed; and the reminders of tomorrow's bookings,   *)
(* which a clerk may send by hand as well.                                 *)
(*                                                                         *)
(* deliver() is the only writer of a row's status.  It does not ask for    *)
(* the status it replaces, nor does anything else keep two workers from    *)
(* one row but that each looks for another status.  Between the answer of  *)
(* the provider and the row that says so the process may die.              *)
(***************************************************************************)
EXTENDS Integers, Sequences, FiniteSetsExt, Functions

CONSTANTS
    Senders,   \* requests and services that send
    Retrier,   \* the job retryFailedNotices
    Reminder,  \* the job sendBookingReminders
    Notices,   \* rows that can be written, numbered in that order
    Expected,  \* the confirmed bookings of tomorrow
    Templates, \* channels a template may have, in the order they are sent
    Limit,     \* retryLimit
    MaxUpset   \* bound of the exploration: restarts, failures of the
               \* database and resends by hand together

NoBooking == "no booking"

ASSUME NoticesAssumption ==
    /\ \E n \in Notices : Notices = 1..n
    /\ Templates \subseteq {<<"site">>, <<"sms">>, <<"site", "sms">>, <<"sms", "site">>}
    /\ Limit \in Nat /\ MaxUpset \in Nat
    /\ Retrier \notin Senders /\ Reminder \notin Senders \cup {Retrier}
    /\ NoBooking \notin Expected

VARIABLES
    notice,   \* sys_notice_log
    task,     \* what a worker has still to write and to deliver
    accepted, \* history: how often the provider took the message of a row
    unclear,  \* history: rows whose accepted message was not recorded as such
    byHand,   \* history: rows a clerk sent again
    manual,   \* history: rows of reminders that the job did not write
    crossed,  \* history: those of them about a booking that the job had found
              \* without a reminder and had still on its list
    upset     \* how much of the bound is used up

noticesVars == <<notice, task, accepted, unclear, byHand, manual, crossed, upset>>

Same == -1   \* deliver() without a retryCount leaves the column alone
Nothing == <<>>
At(i, retries) == [j \in {i} |-> retries]

NoTask == [op |-> "idle", bookings |-> {}, posts |-> <<>>, left |-> Nothing, answer |-> "none"]
Workers == Senders \cup {Retrier, Reminder}

Written == {i \in Notices : notice[i].status # "none"}
Unwritten == Notices \ Written

Upset ==
    /\ upset < MaxUpset
    /\ upset' = upset + 1

NoticesInit ==
    /\ notice = [i \in Notices |-> [status |-> "none", channel |-> "site", retries |-> 0,
                                    booking |-> NoBooking]]
    /\ task = [w \in Workers |-> NoTask]
    /\ accepted = [i \in Notices |-> 0]
    /\ unclear = {} /\ byHand = {}
    /\ manual = {} /\ crossed = {}
    /\ upset = 0

\* A worker with nothing left to send, to write and to deliver has returned
Goes(w, next) ==
    task' = [task EXCEPT ![w] =
        IF next.bookings = {} /\ next.posts = <<>> /\ next.left = Nothing THEN NoTask ELSE next]

Posts(booking, channels) ==
    [k \in DOMAIN channels |-> [booking |-> booking, channel |-> channels[k]]]
New(post) ==
    [status |-> "pending", channel |-> post.channel, retries |-> 0, booking |-> post.booking]

-----------------------------------------------------------------------------
(* What begins a delivery                                                  *)

\* send, and sendToMany for each of its recipients; the manual send of the back
\* office takes any template and booking, the reminder of a booking of tomorrow too
Send(w) ==
    /\ task[w] = NoTask
    /\ Unwritten # {}
    /\ \E channels \in Templates, booking \in Expected \cup {NoBooking} :
          task' = [task EXCEPT ![w] = [NoTask EXCEPT !.op = "send",
                                                     !.posts = Posts(booking, channels)]]
    /\ UNCHANGED <<notice, accepted, unclear, byHand, manual, crossed, upset>>

\* sendBookingReminders has still to remind of the booking
OnTheList(b) ==
    \/ b \in task[Reminder].bookings
    \/ \E k \in DOMAIN task[Reminder].posts : task[Reminder].posts[k].booking = b

\* send writes the row of a channel when the one before was delivered
Post(w) ==
    /\ task[w].posts # <<>> /\ task[w].left = Nothing
    /\ Unwritten # {}
    /\ LET i == Min(Unwritten)
           b == Head(task[w].posts).booking
           others == IF w # Reminder /\ b # NoBooking THEN {i} ELSE {}
       IN  /\ notice' = [notice EXCEPT ![i] = New(Head(task[w].posts))]
           /\ task' = [task EXCEPT ![w].posts = Tail(@), ![w].left = At(i, Same)]
           /\ manual' = manual \cup others
           /\ crossed' = IF OnTheList(b) THEN crossed \cup others ELSE crossed
    /\ UNCHANGED <<accepted, unclear, byHand, upset>>

\* enqueueInTx: a transaction commits with the pending rows of its notice, which
\* nobody sees before; flushPending is called with their ids afterwards
Enqueue(w) ==
    /\ task[w] = NoTask
    /\ Unwritten # {}
    /\ \E channels \in Templates :
          LET first == Min(Unwritten)
              ids == first .. first + Len(channels) - 1
          IN  /\ ids \subseteq Notices
              /\ notice' = [i \in Notices |->
                               IF i \in ids THEN New(Posts(NoBooking, channels)[i - first + 1])
                               ELSE notice[i]]
              /\ task' = [task EXCEPT ![w] = [NoTask EXCEPT !.op = "committed",
                                                            !.left = [i \in ids |-> Same]]]
    /\ UNCHANGED <<accepted, unclear, byHand, manual, crossed, upset>>

FlushRead(w) ==
    /\ task[w].op = "committed"
    /\ LET pending == {i \in DOMAIN task[w].left : notice[i].status = "pending"}
       IN  Goes(w, [task[w] EXCEPT !.op = "flush", !.left = Restrict(@, pending)])
    /\ UNCHANGED <<notice, accepted, unclear, byHand, manual, crossed, upset>>

\* Mutant: what never got sent is retried too
RetryablePending ==
    {i \in Written : notice[i].status \in {"failed", "pending"} /\ notice[i].retries < Limit}

\* Mutant: the limit is reached once more
RetryableOnceMore == {i \in Written : notice[i].status = "failed" /\ notice[i].retries <= Limit}

\* Mutant: only what was not retried yet
RetryableFresh == {i \in Written : notice[i].status = "failed" /\ notice[i].retries = 0 /\ Limit > 0}

\* The condition of retryFailed
Retryable == {i \in Written : notice[i].status = "failed" /\ notice[i].retries < Limit}

RetryRead ==
    /\ task[Retrier] = NoTask
    /\ Retryable # {}
    /\ task' = [task EXCEPT ![Retrier] = [NoTask EXCEPT !.op = "retry",
                                       !.left = [i \in Retryable |-> notice[i].retries + 1]]]
    /\ UNCHANGED <<notice, accepted, unclear, byHand, manual, crossed, upset>>

\* resend: by hand, whatever the status and however often
ResendRead(w, i) ==
    /\ task[w] = NoTask
    /\ i \in Written
    /\ Upset
    /\ task' = [task EXCEPT ![w] = [NoTask EXCEPT !.op = "resend",
                                                  !.left = At(i, notice[i].retries + 1)]]
    /\ byHand' = byHand \cup {i}
    /\ UNCHANGED <<notice, accepted, unclear, manual, crossed>>

\* Mutant: what was not delivered does not count as a reminder
RemindedDelivered(b) == \E i \in Written : notice[i].booking = b /\ notice[i].status = "success"

\* alreadySent: any row of today, whatever became of it
Reminded(b) == \E i \in Written : notice[i].booking = b

RemindRead ==
    /\ task[Reminder] = NoTask
    /\ LET bookings == {b \in Expected : ~Reminded(b)}
       IN  /\ bookings # {}
           /\ task' = [task EXCEPT ![Reminder] = [NoTask EXCEPT !.op = "remind",
                                                                !.bookings = bookings]]
    /\ UNCHANGED <<notice, accepted, unclear, byHand, manual, crossed, upset>>

\* The loop calls send for the next booking
RemindNext ==
    /\ task[Reminder].posts = <<>> /\ task[Reminder].left = Nothing
    /\ \E b \in task[Reminder].bookings, channels \in Templates :
          task' = [task EXCEPT ![Reminder].bookings = @ \ {b},
                               ![Reminder].posts = Posts(b, channels)]
    /\ UNCHANGED <<notice, accepted, unclear, byHand, manual, crossed, upset>>

-----------------------------------------------------------------------------
(* deliver                                                                 *)

Delivering(w) == task[w].op \notin {"idle", "committed"} /\ task[w].left # Nothing
Current(w) == Min(DOMAIN task[w].left)
Left(w) == Restrict(task[w].left, DOMAIN task[w].left \ {Current(w)})

\* The UPDATE at the end asks for nothing but the id
Record(w, status) ==
    LET i == Current(w)
        retries == task[w].left[i]
    IN  /\ notice' = [notice EXCEPT ![i].status = status,
                                    ![i].retries = IF retries = Same THEN @ ELSE retries]
        /\ Goes(w, [task[w] EXCEPT !.left = Left(w), !.answer = "none"])
        /\ UNCHANGED <<accepted, unclear, byHand, manual, crossed, upset>>

\* A message of the site is delivered by being written; the three gates of an
\* SMS ask for the switch, the template and the phone number of that moment
Deliver(w) ==
    /\ Delivering(w) /\ task[w].answer = "none"
    /\ IF notice[Current(w)].channel = "site" THEN Record(w, "success") ELSE Record(w, "skipped")

\* The provider takes the message and says so, or its answer is lost, or the
\* row cannot be updated with it; or it does not take the message
Hand(w) ==
    /\ Delivering(w) /\ task[w].answer = "none"
    /\ LET i == Current(w)
       IN  /\ notice[i].channel = "sms"
           /\ \E taken \in BOOLEAN, answer \in {"success", "failed"} :
                 /\ answer = "success" => taken
                 /\ accepted' = IF taken THEN [accepted EXCEPT ![i] = @ + 1] ELSE accepted
                 /\ unclear' = IF taken /\ answer = "failed" THEN unclear \cup {i} ELSE unclear
                 /\ task' = [task EXCEPT ![w].answer = answer]
    /\ UNCHANGED <<notice, byHand, manual, crossed, upset>>

\* The row says what the provider said
Answered(w) == Delivering(w) /\ task[w].answer # "none" /\ Record(w, task[w].answer)

-----------------------------------------------------------------------------
(* Failures                                                                *)

\* A statement fails: send swallows it with what it had still to write, the
\* loops over rows go on with the next one
Fails(w) ==
    /\ task[w] # NoTask /\ task[w].answer # "success"
    /\ Upset
    /\ Goes(w, [task[w] EXCEPT !.posts = <<>>, !.answer = "none",
                               !.left = IF Delivering(w) THEN Left(w) ELSE Nothing])
    /\ UNCHANGED <<notice, accepted, unclear, byHand, manual, crossed>>

\* Workers are gone; an accepted message of one of them is not recorded
Restart ==
    /\ Upset
    /\ task' = [w \in Workers |-> NoTask]
    /\ unclear' = unclear \cup {Current(w) : w \in {v \in Workers : task[v].answer = "success"}}
    /\ UNCHANGED <<notice, accepted, byHand, manual, crossed>>

Serve(w) == Post(w) \/ FlushRead(w) \/ Deliver(w) \/ Hand(w) \/ Answered(w)

NoticesNext ==
    \/ \E w \in Senders : Send(w) \/ Enqueue(w) \/ \E i \in Notices : ResendRead(w, i)
    \/ RetryRead \/ RemindRead \/ RemindNext
    \/ \E w \in Workers : Serve(w) \/ Fails(w)
    \/ Restart

\* The job is started again and again, and a run of it goes on or fails
NoticesSpec ==
    NoticesInit /\ [][NoticesNext]_noticesVars /\ WF_noticesVars(RetryRead \/ Serve(Retrier))

-----------------------------------------------------------------------------
NoticeRows == [status : {"none", "pending", "success", "failed", "skipped"},
               channel : {"site", "sms"}, retries : Nat, booking : Expected \cup {NoBooking}]
TaskFor(ids) ==
    [op : {"idle", "send", "committed", "flush", "retry", "resend", "remind"},
     bookings : SUBSET Expected,
     posts : Seq([booking : Expected \cup {NoBooking}, channel : {"site", "sms"}]),
     left : [ids -> Nat \cup {Same}], answer : {"none", "success", "failed"}]

\* Rows and workers keep their types, and only written rows are delivered.
NoticesTypeOK ==
    /\ notice \in [Notices -> NoticeRows]
    /\ task = [w \in Workers |-> task[w]]
    /\ \A w \in Workers : LET ids == DOMAIN task[w].left
                          IN  task[w] \in TaskFor(ids) /\ ids \subseteq Written
    /\ accepted \in [Notices -> Nat]
    /\ unclear \subseteq Written /\ byHand \subseteq Written
    /\ manual \subseteq Written /\ crossed \subseteq Written
    /\ upset \in 0..MaxUpset

\* A customer gets a message once, whoever delivers it: the request that wrote it,
\* the flush after its transaction or the job.  Only a clerk sends it again, or the
\* job when nobody could record that the provider had taken it.
SentOnce == \A i \in Notices \ (byHand \cup unclear) : accepted[i] <= 1

\* Even when every answer of the provider is lost the copies of a message are
\* bounded by the limit, but for one more with each failure of the database or
\* restart that loses the count.
CopiesBounded == \A i \in Notices \ byHand : accepted[i] <= 1 + Limit + upset

SameReminder(i, j) ==
    /\ notice[i].booking = notice[j].booking /\ notice[i].booking # NoBooking
    /\ notice[i].channel = notice[j].channel

\* However often the reminders of a day are started, fail half-way and are started
\* again: the job adds no reminder to one that is there, in the same channel (the
\* comment of sendBookingReminders: rerunning does not disturb the customer again).
\* Of two reminders the later was sent by hand, or the earlier was, at a time when
\* the job had looked already and had the booking on its list.
RemindedOnce ==
    \A i, j \in Written :
        i < j /\ SameReminder(i, j) => j \in manual \/ i \in crossed

\* What has failed is retried until it was sent, was skipped or has reached the limit.
FailedIsRetried ==
    \A i \in Notices :
        notice[i].status = "failed" /\ notice[i].retries < Limit
               ~> notice[i].status # "failed" \/ notice[i].retries >= Limit
=============================================================================
