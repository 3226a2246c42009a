------------------------------- MODULE TelegramBot -------------------------------
(***************************************************************************)
(* The message about a result and its two buttons (providers/telegram.py), and   *)
(* the bot in the scheduler's process that polls Telegram for presses            *)
(* (telegram_bot.py): a manager that starts and cancels the poller of a token, the *)
(* poller's offset, and the handler, which may be cancelled or die at any await.  *)
(* Telegram keeps a press until a request names an offset behind it.            *)
(***************************************************************************)
EXTENDS Naturals, Sequences

CONSTANTS MaxPresses, MaxFaults, MaxChanges   \* bounds

BotAssumption == {MaxPresses, MaxFaults, MaxChanges} \subseteq Nat

VARIABLES
  row,        \* generation_history.status of the result
  buttons,    \* does the message of the result have its two buttons?
  pressed,    \* the presses so far, in order
  confirmed,  \* presses before it are gone at Telegram
  preset,     \* the preset with the token: does its chat fit?
  poller,     \* its state, the offset, the rest of the batch
  handled,    \* presses whose handler came to an end
  faults, changes

vars == <<row, buttons, pressed, confirmed, preset, poller, handled, faults, changes>>

Statuses == {"PENDING_REVIEW", "UPLOADED", "REJECTED", "FAILED", "absent"}
Idle     == [state |-> "off", offset |-> 1, current |-> 0, left |-> {}]
Stages   == {"reading", "deciding", "uploading", "uploaded", "editing", "failing"}

TypeOK ==
  /\ row \in Statuses /\ buttons \in BOOLEAN
  /\ pressed \in UNION {[1..n -> {"accept", "reject"}] : n \in 0..MaxPresses}
  /\ confirmed \in 1..(MaxPresses + 1)
  /\ preset \in {"fits", "another chat", "none"}
  /\ poller \in [state : {"off", "polling"} \cup Stages, offset : 1..(MaxPresses + 1),
                 current : 0..MaxPresses, left : SUBSET (1..MaxPresses)]
  /\ handled \subseteq 1..MaxPresses
  /\ faults \in 0..MaxFaults /\ changes \in 0..MaxChanges

Init ==
  /\ row = "PENDING_REVIEW" /\ buttons = FALSE
  /\ pressed = <<>> /\ confirmed = 1
  /\ preset = "fits" /\ poller = Idle
  /\ handled = {} /\ faults = 0 /\ changes = 0

-----------------------------------------------------------------------------
(* The user: a message, its buttons, the preset, and the same result in the web UI. *)

\* send_telegram_notification, once the result is stored.
Send ==
  /\ ~buttons /\ pressed = <<>> /\ preset # "none"
  /\ buttons' = TRUE
  /\ UNCHANGED <<row, pressed, confirmed, preset, poller, handled, faults, changes>>

Press(button) ==
  /\ buttons /\ Len(pressed) < MaxPresses
  /\ pressed' = Append(pressed, button)
  /\ UNCHANGED <<row, buttons, confirmed, preset, poller, handled, faults, changes>>

ChangePreset == \E value \in {"fits", "another chat", "none"} \ {preset} :
  /\ changes < MaxChanges /\ changes' = changes + 1
  /\ preset' = value
  /\ UNCHANGED <<row, buttons, pressed, confirmed, poller, handled, faults>>

\* An upload that succeeds or fails, a rejection, a deletion: ResultReview has them in full.
Review == \E status \in Statuses \ {row, "PENDING_REVIEW"} :
  /\ row # "absent" /\ (status = "REJECTED" => row # "UPLOADED")
  /\ changes < MaxChanges /\ changes' = changes + 1
  /\ row' = status
  /\ UNCHANGED <<buttons, pressed, confirmed, preset, poller, handled, faults>>

-----------------------------------------------------------------------------
(* start_telegram_bot_listener and _poll_bot_updates.                        *)

\* A token in the database whose task is not running; its offset starts anew.
StartPoller ==
  /\ preset # "none" /\ poller.state = "off"
  /\ poller' = [Idle EXCEPT !.state = "polling"]
  /\ UNCHANGED <<row, buttons, pressed, confirmed, preset, handled, faults, changes>>

\* The token is gone: the task ends at its await, wherever that is.
CancelPoller ==
  /\ preset = "none" /\ poller.state # "off"
  /\ poller' = Idle
  /\ UNCHANGED <<row, buttons, pressed, confirmed, preset, handled, faults, changes>>

\* The scheduler's process ends.
Crash ==
  /\ faults < MaxFaults /\ faults' = faults + 1
  /\ poller' = Idle
  /\ UNCHANGED <<row, buttons, pressed, confirmed, preset, handled, changes>>

\* getUpdates: Telegram forgets what is before the offset and sends the rest.
Forget == confirmed' = IF poller.offset > confirmed THEN poller.offset ELSE confirmed

Poll ==
  /\ poller.state = "polling" /\ poller.left = {}
  /\ Forget
  /\ poller' = [poller EXCEPT !.left = confirmed'..Len(pressed)]
  /\ UNCHANGED <<row, buttons, pressed, preset, handled, faults, changes>>

\* A status, a timeout or an answer that cannot be read: the loop goes on.
PollFails ==
  /\ poller.state = "polling" /\ poller.left = {} /\ faults < MaxFaults
  /\ faults' = faults + 1
  /\ Forget \/ UNCHANGED confirmed
  /\ UNCHANGED <<row, buttons, pressed, preset, poller, handled, changes>>

First(S) == CHOOSE n \in S : \A k \in S : n <= k
Current  == poller.current

\* Mutant: the offset of the whole batch at its first press.
NextOffsetOfBatch(n) == Len(pressed) + 1

\* Each press moves the offset behind itself before it is handled.
NextOffset(n) == n + 1

TakeUpdate ==
  /\ poller.state = "polling" /\ poller.left # {}
  /\ LET n == First(poller.left) IN
     poller' = [poller EXCEPT !.state = "reading", !.offset = NextOffset(n),
                                 !.current = n, !.left = @ \ {n}]
  /\ UNCHANGED <<row, buttons, pressed, confirmed, preset, handled, faults, changes>>

-----------------------------------------------------------------------------
(* _handle_callback_query.                                                 *)

HandlerEnds == poller' = [poller EXCEPT !.state = "polling", !.current = 0]
            /\ handled' = handled \cup {Current}

\* Another chat is told so, and that is all.
Unauthorized ==
  /\ poller.state = "reading" /\ preset # "fits"
  /\ HandlerEnds
  /\ UNCHANGED <<row, buttons, pressed, confirmed, preset, faults, changes>>

\* The row is read; one that is decided, or gone, is only shown.
ReadRow ==
  /\ poller.state = "reading" /\ preset = "fits"
  /\ poller' = [poller EXCEPT !.state = IF row = "PENDING_REVIEW" THEN "deciding" ELSE "editing"]
  /\ UNCHANGED <<row, buttons, pressed, confirmed, preset, handled, faults, changes>>

\* accept_generation, after the answer to Telegram: the row is read once more, for
\* its file and not for its status.
AcceptStart ==
  /\ poller.state = "deciding" /\ pressed[Current] = "accept"
  /\ poller' = [poller EXCEPT !.state = IF row = "absent" THEN "failing" ELSE "uploading"]
  /\ UNCHANGED <<row, buttons, pressed, confirmed, preset, handled, faults, changes>>

\* Immich has the file, or not: then the row fails.
Upload ==
  /\ poller.state = "uploading"
  /\ \/ /\ poller' = [poller EXCEPT !.state = "uploaded"]
        /\ UNCHANGED <<row, faults>>
     \/ /\ faults < MaxFaults /\ faults' = faults + 1
        /\ poller' = [poller EXCEPT !.state = "failing"]
        /\ row' = IF row # "absent" THEN "FAILED" ELSE row
  /\ UNCHANGED <<buttons, pressed, confirmed, preset, handled, changes>>

Decides(status) ==
  /\ poller' = [poller EXCEPT !.state = IF row = "absent" THEN "failing" ELSE "editing"]
  /\ row' = IF row = "absent" THEN row ELSE status

AcceptEnd ==
  /\ poller.state = "uploaded"
  /\ Decides("UPLOADED")
  /\ UNCHANGED <<buttons, pressed, confirmed, preset, handled, faults, changes>>

\* reject_generation, with the handler's session: accepted_at is the one that was
\* read before the answer to Telegram, so that an upload in between is no obstacle.
Reject ==
  /\ poller.state = "deciding" /\ pressed[Current] = "reject"
  /\ Decides("REJECTED")
  /\ UNCHANGED <<buttons, pressed, confirmed, preset, handled, faults, changes>>

\* The message loses its buttons; Telegram may refuse, which is only logged.
Edit ==
  /\ poller.state = "editing"
  /\ \/ buttons' = FALSE /\ UNCHANGED faults
     \/ faults < MaxFaults /\ faults' = faults + 1 /\ UNCHANGED buttons
  /\ HandlerEnds
  /\ UNCHANGED <<row, pressed, confirmed, preset, changes>>

\* An exception: the user is told, and the buttons stay.
Fails ==
  /\ poller.state = "failing" /\ HandlerEnds
  /\ UNCHANGED <<row, buttons, pressed, confirmed, preset, faults, changes>>

Handler == Unauthorized \/ ReadRow \/ AcceptStart \/ Upload \/ AcceptEnd \/ Reject \/ Edit \/ Fails
Bot     == StartPoller \/ CancelPoller \/ Poll \/ TakeUpdate \/ Handler

Next ==
  \/ Send \/ (\E button \in {"accept", "reject"} : Press(button)) \/ ChangePreset \/ Review
  \/ Crash \/ PollFails \/ Bot

Spec == Init /\ [][Next]_vars

FairSpec == Spec /\ WF_vars(Bot)

-----------------------------------------------------------------------------
(* Again and again every press so far has been handled to its end, or the preset is *)
(* gone: none is lost when a poll or an upload fails, or when the poller is        *)
(* cancelled or dies within a batch or a handler (telegram_bot.py:105: a new one    *)
(* starts without an offset).                                                *)
PressHandled == []<>(preset = "none" \/ 1..Len(pressed) \subseteq handled)

\* Telegram forgets a press only when its handler came to an end: the offset that is
\* sent is in the memory of a poller, which may be gone, or behind another one's.
ForgottenHandled == 1..(confirmed - 1) \subseteq handled
================================================================================
