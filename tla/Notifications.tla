---------------------------- MODULE Notifications ----------------------------
(***************************************************************************)
(* Telegram notifications: the single notify_settings row, the endpoints   *)
(* of the dashboard's panel that edit it (notifications.go), each of which *)
(* reads the whole row, changes its own columns and writes the whole row   *)
(* back, and the workflow_run deliveries and test sends that act on it     *)
(* (handleWorkflowRun in webhook.go, internal/notify).                     *)
(***************************************************************************)
EXTENDS Naturals

CONSTANTS
  Bots,      \* bot tokens
  Chats,     \* chats that have written to a bot
  Nobody,    \* the empty column, no call, no message
  Edits,     \* edits in flight at a time
  Sends,     \* deliveries and test sends in flight at a time
  NotifyEnv  \* which failures a run explores

VARIABLES
  saved,  \* notify_settings; an absent row reads as the default
  edit,   \* what an edit holds between its read and its write
  send,   \* what a delivery or a test send holds
  heard   \* history: the row wanted the message at some time since it came in

notifyVars == <<saved, edit, send, heard>>

Modes == {"all", "failures"}
Rows  == [enabled : BOOLEAN, bot : Bots \cup {Nobody}, chat : Chats \cup {Nobody}, mode : Modes]
DefaultRow == [enabled |-> FALSE, bot |-> Nobody, chat |-> Nobody, mode |-> "all"]

(* overtaken: history, another edit was written since this one was read.   *)
EditCalls == [field : {"enabled", "bot", "chat", "mode"}, row : Rows, overtaken : BOOLEAN]

ASSUME NotifyAssumption == Nobody \notin Bots \cup Chats \cup EditCalls

(* to: the bot and the chat of the row a message goes by.                  *)
Events    == {"success", "failure", "test"}
SendCalls == [what : Events, to : (Bots \X Chats) \cup {Nobody}]

NotifyInit ==
  /\ saved = DefaultRow
  /\ edit = [e \in Edits |-> Nobody] /\ send = [d \in Sends |-> Nobody]
  /\ heard = [d \in Sends |-> FALSE]

(* History: what the switch and the mode say.                              *)
Sought(what, row) ==
  \/ what = "test"
  \/ row.enabled /\ (row.mode = "all" \/ what = "failure")

----------------------------------------------------------------------------
(* The panel.                                                              *)

(* Mutant: Connect does not look for a bot.                                *)
BeginAnyEdit(e, f) ==
  /\ edit[e] = Nobody
  /\ edit' = [edit EXCEPT ![e] = [field |-> f, row |-> saved, overtaken |-> FALSE]]
  /\ UNCHANGED <<saved, send, heard>>

(* beginMutation; Connect needs a bot to ask.                              *)
BeginEdit(e, f) ==
  /\ edit[e] = Nobody
  /\ f = "chat" => saved.bot # Nobody
  /\ edit' = [edit EXCEPT ![e] = [field |-> f, row |-> saved, overtaken |-> FALSE]]
  /\ UNCHANGED <<saved, send, heard>>

Choices == [enabled |-> BOOLEAN, bot |-> Bots, chat |-> Chats, mode |-> Modes]

(* Mutant: the row is built anew from the body.                            *)
ChangedFromDefault(row, f, x) == [DefaultRow EXCEPT ![f] = x]

Changed(row, f, x) == [row EXCEPT ![f] = x]

(* SaveNotifySettings: every column of the row that was read.  Connect has *)
(* asked Telegram in between for the chat of its latest update.            *)
SaveEdit(e) ==
  /\ edit[e] # Nobody
  /\ \E x \in Choices[edit[e].field] : saved' = Changed(edit[e].row, edit[e].field, x)
  /\ edit' = [i \in Edits |-> IF i = e \/ edit[i] = Nobody THEN Nobody
                               ELSE [edit[i] EXCEPT !.overtaken = TRUE]]
  /\ heard' = [d \in Sends |-> heard[d] \/ (send[d] # Nobody /\ Sought(send[d].what, saved'))]
  /\ UNCHANGED send

(* A value is refused, Telegram has no update to offer or answers with an  *)
(* error, a statement fails.                                               *)
RefuseEdit(e) ==
  /\ edit[e] # Nobody
  /\ edit' = [edit EXCEPT ![e] = Nobody]
  /\ UNCHANGED <<saved, send, heard>>

----------------------------------------------------------------------------
(* Messages.                                                               *)

(* A completed workflow_run, or POST of a test.                            *)
Arrive(d, what) ==
  /\ send[d] = Nobody
  /\ send' = [send EXCEPT ![d] = [what |-> what, to |-> Nobody]]
  /\ heard' = [heard EXCEPT ![d] = Sought(what, saved)]
  /\ UNCHANGED <<saved, edit>>

Over(d) == /\ send' = [send EXCEPT ![d] = Nobody]
           /\ heard' = [heard EXCEPT ![d] = FALSE]

(* Mutant: a chat that is connected is good enough.                        *)
WantedIfConnected(what, row) == row.bot # Nobody /\ row.chat # Nobody

(* A test goes out while notifications are off, too.                       *)
Wanted(what, row) ==
  /\ row.bot # Nobody /\ row.chat # Nobody
  /\ what # "test" => row.enabled
  /\ what = "success" => row.mode # "failures"

LoadSettings(d) ==
  /\ send[d] # Nobody /\ send[d].to = Nobody
  /\ \/ /\ Wanted(send[d].what, saved)
        /\ send' = [send EXCEPT ![d].to = <<saved.bot, saved.chat>>] /\ UNCHANGED heard
     \/ (~Wanted(send[d].what, saved) \/ "storeError" \in NotifyEnv) /\ Over(d)
  /\ UNCHANGED <<saved, edit>>

(* To the bot and the chat of the row that was read; an error is logged,   *)
(* or the test's answer.                                                   *)
SendMessage(d) ==
  /\ send[d] # Nobody /\ send[d].to # Nobody
  /\ Over(d)
  /\ UNCHANGED <<saved, edit>>

NotifyNext ==
  \/ \E e \in Edits : \/ SaveEdit(e) \/ RefuseEdit(e)
                      \/ \E f \in DOMAIN Choices : BeginEdit(e, f)
  \/ \E d \in Sends : \/ LoadSettings(d) \/ SendMessage(d)
                      \/ \E what \in Events : Arrive(d, what)

NotifySpec == NotifyInit /\ [][NotifyNext]_notifyVars
----------------------------------------------------------------------------
(* The row, the edits and the messages hold values of their kinds.         *)
NotifyTypeOK ==
  /\ saved \in Rows
  /\ edit \in [Edits -> EditCalls \cup {Nobody}]
  /\ send \in [Sends -> SendCalls \cup {Nobody}]
  /\ heard \in [Sends -> BOOLEAN]

(* An edit whose read and write no other edit came between changes its own *)
(* column and no other, though it writes them all: what is lost is lost to *)
(* an overlap.                                                             *)
OnlyOverlapsLose ==
  [][\A e \in Edits : edit[e] # Nobody /\ edit'[e] = Nobody /\ ~edit[e].overtaken =>
       \A f \in DOMAIN Choices \ {edit[e].field} : saved'[f] = saved[f]]_notifyVars

(* However edits overlap and undo each other, and whatever becomes of      *)
(* them, the row never has a chat without a bot to reach it by.            *)
ChatThroughBot == saved.chat # Nobody => saved.bot # Nobody

(* Nothing is sent about a run that the switch and the mode kept quiet at  *)
(* all times since its delivery came in, edits in between or not.          *)
QuietWhenOff ==
  \A d \in Sends : send[d] # Nobody /\ send[d].to # Nobody => heard[d]
=============================================================================
