----------------------------- MODULE MessageBox -----------------------------
(***************************************************************************)
(* The second message box, which tells of the wallet.  The wallet's sync   *)
(* thread fills and shows it from on_output_received and on_sync_progress; *)
(* the main thread hides it and, in every draw that finds it hidden,       *)
(* empties it with Message::restore.  There is no lock.  The box has two   *)
(* labels and a button, as test/main0.cpp makes it; the first label is the *)
(* box's own and is drawn with it, whatever its flag, which is left out.   *)
(***************************************************************************)
CONSTANT Deposits   \* confirmed outputs the wallet may receive

None == ""
SyncDone == "SYNCHRONIZATION DONE"

VARIABLES
  text0, text1,   \* what the labels say
  label1,         \* the second label is visible
  button,         \* the Close button is visible
  box,            \* the box is visible
  synced,         \* the wallet has synced, and syncs on in the background
  posting,        \* the deposit on_output_received is posting, or None
  post,           \* the next thing it does
  draw,           \* the next thing the main thread's draw does
  raced           \* history: the latest posting overlapped with a restore, or came
                  \* before one that had a label to hide

vars == <<text0, text1, label1, button, box, synced, posting, post, draw, raced>>

TypeOK ==
  /\ text0 \in Deposits \cup {None, SyncDone}
  /\ text1 \in Deposits \cup {None}
  /\ label1 \in BOOLEAN
  /\ button \in BOOLEAN
  /\ box \in BOOLEAN
  /\ synced \in BOOLEAN
  /\ posting \in Deposits \cup {None}
  /\ post \in {"idle", "done", "text0", "text1", "label1", "button", "box"}
  /\ draw \in {"idle", "text0", "text1", "button", "label1"}
  /\ raced \in BOOLEAN

Init ==
  /\ text0 = None
  /\ text1 = None
  /\ label1 = FALSE
  /\ button = FALSE
  /\ box = FALSE
  /\ synced = FALSE
  /\ posting = None
  /\ post = "idle"
  /\ draw = "idle"
  /\ raced = FALSE

-----------------------------------------------------------------------------
(* The wallet.                                                             *)

\* The first sync's on_sync_progress at 100%, in the main thread while
\* daemon_connect holds it: once or more, and the Close button may be pressed
\* before it returns.
OnSyncProgress ==
  /\ ~synced
  /\ draw = "idle"
  /\ synced' = TRUE
  /\ text0' = SyncDone
  /\ button' = TRUE
  /\ box' \in BOOLEAN
  /\ UNCHANGED <<text1, label1, posting, post, draw, raced>>

\* on_sync_progress at the end of a background sync, on the sync thread: only over
\* a box that is not shown.
SyncedAgain ==
  /\ synced
  /\ post = "idle"
  /\ ~box
  /\ post' = "done"
  /\ raced' = (draw # "idle" \/ label1)
  /\ UNCHANGED <<text0, text1, label1, button, box, synced, posting, draw>>

\* on_sync_progress finds the Close button pressed.
PressCloseInSync ==
  /\ synced
  /\ post = "idle"
  /\ box /\ button
  /\ box' = FALSE
  /\ UNCHANGED <<text0, text1, label1, button, synced, posting, post, draw, raced>>

\* on_output_received of a confirmed output, which a wallet that is not synced
\* skips.
Receive(d) ==
  /\ synced
  /\ post = "idle"
  /\ posting' = d
  /\ post' = "text0"
  /\ raced' = (draw # "idle")
  /\ UNCHANGED <<text0, text1, label1, button, box, synced, draw>>

Then(step, next) == post = step /\ post' = next

PostDone ==
  /\ Then("done", "button")
  /\ text0' = SyncDone
  /\ UNCHANGED <<text1, label1, button, box, synced, posting, draw, raced>>

PostText0 ==
  /\ Then("text0", "text1")
  /\ text0' = posting
  /\ UNCHANGED <<text1, label1, button, box, synced, posting, draw, raced>>

PostText1 ==
  /\ Then("text1", "label1")
  /\ text1' = posting
  /\ UNCHANGED <<text0, label1, button, box, synced, posting, draw, raced>>

ShowLabel1 ==
  /\ Then("label1", "button")
  /\ label1' = TRUE
  /\ UNCHANGED <<text0, text1, button, box, synced, posting, draw, raced>>

\* Mistake: the button is shown only with a box that is already shown.
ShowButtonOfShown ==
  /\ Then("button", "box")
  /\ button' = (button \/ box)
  /\ UNCHANGED <<text0, text1, label1, box, synced, posting, draw, raced>>

ShowButton ==
  /\ Then("button", "box")
  /\ button' = TRUE
  /\ UNCHANGED <<text0, text1, label1, box, synced, posting, draw, raced>>

ShowBox ==
  /\ Then("box", "idle")
  /\ box' = TRUE
  /\ posting' = None
  /\ UNCHANGED <<text0, text1, label1, button, synced, draw, raced>>

-----------------------------------------------------------------------------
(* The main thread.                                                        *)

\* The Close button is pressed, in the main loop before it draws.
PressClose ==
  /\ draw = "idle"
  /\ box /\ button
  /\ box' = FALSE
  /\ UNCHANGED <<text0, text1, label1, button, synced, posting, post, draw, raced>>

\* on_draw: the escape key hides the box; a box that is hidden is restored.
OnDraw ==
  /\ draw = "idle"
  /\ \E escape \in BOOLEAN : box' = (box /\ ~escape)
  /\ draw' = IF box' THEN "idle" ELSE "text0"
  /\ raced' = (raced \/ (~box' /\ post # "idle"))
  /\ UNCHANGED <<text0, text1, label1, button, synced, posting, post>>

\* restore clears the labels one after the other, hides the buttons, and then
\* the labels.
RestoreText0 ==
  /\ draw = "text0"
  /\ draw' = "text1"
  /\ text0' = None
  /\ UNCHANGED <<text1, label1, button, box, synced, posting, post, raced>>

RestoreText1 ==
  /\ draw = "text1"
  /\ draw' = "button"
  /\ text1' = None
  /\ UNCHANGED <<text0, label1, button, box, synced, posting, post, raced>>

HideButton ==
  /\ draw = "button"
  /\ draw' = "label1"
  /\ button' = FALSE
  /\ UNCHANGED <<text0, text1, label1, box, synced, posting, post, raced>>

HideLabel1 ==
  /\ draw = "label1"
  /\ draw' = "idle"
  /\ label1' = FALSE
  /\ UNCHANGED <<text0, text1, button, box, synced, posting, post, raced>>

-----------------------------------------------------------------------------
SyncThread ==
  \/ \E d \in Deposits : Receive(d)
  \/ SyncedAgain \/ PressCloseInSync \/ PostDone
  \/ PostText0 \/ PostText1 \/ ShowLabel1 \/ ShowButton \/ ShowBox

MainThread ==
  \/ OnSyncProgress \/ PressClose \/ OnDraw
  \/ RestoreText0 \/ RestoreText1 \/ HideButton \/ HideLabel1

Next == SyncThread \/ MainThread

Spec == Init /\ [][Next]_vars

-----------------------------------------------------------------------------
\* A box that is shown tells of one thing, whole, and can be closed: the end of
\* the synchronization alone, or a deposit with its address below.
Whole ==
  /\ button
  /\ \/ text0 = SyncDone /\ ~label1
     \/ text0 \in Deposits /\ text1 = text0 /\ label1

\* Every shown box is whole once its posting is done, unless a restore was
\* under way in it or began in it: only a draw that finds the box hidden
\* between two of the sync thread's calls leaves a line empty or a label or
\* the button hidden.  A deposit that comes while another is shown, or between
\* the Close button and the next draw, does not; the end of a sync that comes
\* there does, and is shown above the closed deposit's address.
WholeUnlessRaced ==
  box /\ post = "idle" /\ ~raced => Whole

=============================================================================
