------------------------------ MODULE TaskPanel ------------------------------
(***************************************************************************)
(* The open task over BoardLive: the title's input, which starts from the  *)
(* task, is typed into, and saves when it loses the focus; and what the    *)
(* board's page shows of another user who is typing a comment              *)
(* (task-panel.tsx, the `comment:typing` messages of use-realtime.ts and   *)
(* realtime.gateway.ts).                                                   *)
(*                                                                         *)
(* Every change of the task may be one of its title.  React runs an effect *)
(* after each change of what it depends on; React Query keeps a query's    *)
(* object when a fetch brings nothing new.                                 *)
(***************************************************************************)
EXTENDS BoardLive

CONSTANT MaxSent  \* bound: messages on their way, but for a timer's

VARIABLES draft,    \* the task the input was set from; NoData without a panel
          typed,    \* the user has typed into it since
          writing,  \* the other user has the panel open
          timer,    \* the other's typingTimeout is running
          sent,     \* isTyping of the messages on their way to the server
          heard,    \* and of those on their way to this tab
          typing,   \* this tab shows the other as typing
          lost      \* history: a message that ends the typing did not arrive

other == <<writing, timer, sent>>
panelVars == <<draft, typed, other, heard, typing, lost>>
panel == <<boardVars, panelVars>>

-----------------------------------------------------------------------------
PanelInit == /\ BoardInit
             /\ draft = NoData /\ typed = FALSE
             /\ writing = FALSE /\ timer = FALSE /\ sent = <<>>
             /\ heard = <<>> /\ typing = FALSE /\ lost = FALSE

Stops(messages) == \E i \in DOMAIN messages : ~messages[i]

-----------------------------------------------------------------------------
(***************************************************************************)
(* What a step of BoardLive does to the two.                               *)
(***************************************************************************)
\* A bug to catch: an effect that runs when the task arrives, not on opening.
OnArrival == data["panel"] = NoData

\* A bug to catch: an effect that depends on the task's id alone.
OnOpening == data["panel"] = NoData \/ "panel" \notin opened

\* The effect depends on the task: it runs on opening and after a change.
TaskChanges == data'["panel"] # data["panel"] \/ "panel" \notin opened

\* The input is set; what has been typed into it and not saved is gone.
SetDraft ==
  IF "panel" \notin opened' \/ data'["panel"] = NoData
  THEN draft' = NoData /\ typed' = FALSE
  ELSE IF TaskChanges
  THEN draft' = data'["panel"] /\ typed' = FALSE
  ELSE UNCHANGED <<draft, typed>>

\* A connection that breaks loses what is on its way; the page's state goes with it.
Hearing ==
  /\ heard' = IF conn' THEN heard ELSE <<>>
  /\ typing' = (typing /\ "board" \in opened')
  /\ lost' = /\ lost \/ (~conn' /\ Stops(heard))
             /\ "board" \in opened' \/ heard' # <<>>

Around(step) == step /\ SetDraft /\ Hearing /\ UNCHANGED other

-----------------------------------------------------------------------------
\* setTitle, on a key.
Type ==
  /\ draft # NoData /\ ~typed
  /\ typed' = TRUE
  /\ UNCHANGED <<boardVars, draft, other, heard, typing, lost>>

\* The title in the input is not the task's.
Differs == typed \/ draft["task"] # data["panel"]["task"]

\* onBlur; a title of blanks is not saved.
Blur == draft # NoData /\ Differs /\ Around(saveField)

-----------------------------------------------------------------------------
(***************************************************************************)
(* The other user, who writes a comment on the task.                       *)
(***************************************************************************)
emitTyping(isTyping) == sent' = Append(sent, isTyping)

here == <<boardVars, draft, typed, heard, typing>>

OtherOpens ==
  /\ ~writing /\ writing' = TRUE
  /\ UNCHANGED <<here, timer, sent, lost>>

\* The timer is set anew.
onCommentChange ==
  /\ writing /\ Len(sent) + Len(heard) < MaxSent
  /\ emitTyping(TRUE) /\ timer' = TRUE
  /\ UNCHANGED <<here, writing, lost>>

\* 1.5 seconds without a key.
TimerFires ==
  /\ timer /\ timer' = FALSE
  /\ emitTyping(FALSE)
  /\ UNCHANGED <<here, writing, lost>>

\* The comment has been posted; the timer is left to run.
submitComment ==
  /\ writing /\ Len(sent) + Len(heard) < MaxSent
  /\ emitTyping(FALSE)
  /\ UNCHANGED <<here, writing, timer, lost>>

\* A bug to catch: a clean-up that clears the timer.
TimerCleared == FALSE

\* The timer outlives the panel.
TimerKept == timer

OtherCloses ==
  /\ writing /\ writing' = FALSE
  /\ timer' = TimerKept
  /\ UNCHANGED <<here, sent, lost>>

\* The other's connection breaks; `gone`: for good, as the tab is closed, or its socket
\* is replaced because its access token was: the timer has the old one.
OtherDisconnects(gone) ==
  /\ sent' = <<>>
  /\ timer' = (timer /\ ~gone)
  /\ writing' = (writing /\ ~gone)
  /\ lost' = (lost \/ Stops(sent) \/ (gone /\ timer))
  /\ other' # other
  /\ UNCHANGED here

-----------------------------------------------------------------------------
\* The gateway's `comment:typing`: to the sockets in the room.
Relay ==
  /\ sent # <<>>
  /\ sent' = Tail(sent)
  /\ heard' = IF room = "in" THEN Append(heard, Head(sent)) ELSE heard
  /\ lost' = (lost \/ (room # "in" /\ ~Head(sent)))
  /\ UNCHANGED <<boardVars, draft, typed, writing, timer, typing>>

\* A message that comes while the board is closed finds no listener.
onTyping ==
  /\ heard # <<>>
  /\ heard' = Tail(heard)
  /\ typing' = (Listening /\ Head(heard))
  /\ lost' = (lost /\ (Listening \/ heard' # <<>>))
  /\ UNCHANGED <<boardVars, draft, typed, other>>

OtherTypes ==
  \/ OtherOpens \/ onCommentChange \/ TimerFires \/ submitComment \/ OtherCloses
  \/ \E gone \in BOOLEAN : OtherDisconnects(gone)

PanelNext == Around(BoardNext) \/ Type \/ Blur \/ OtherTypes \/ Relay \/ onTyping

PanelSpec == PanelInit /\ [][PanelNext]_panel

-----------------------------------------------------------------------------
\* The tab's state is of its type: there is an input while there is a panel to show.
PanelTypeOK ==
  /\ BoardTypeOK
  /\ draft \in Version \cup {NoData}
  /\ typed \in BOOLEAN /\ (typed => draft # NoData)
  /\ (draft # NoData) <=> PageShown("panel")
  /\ writing \in BOOLEAN /\ timer \in BOOLEAN
  /\ sent \in Seq(BOOLEAN) /\ heard \in Seq(BOOLEAN)
  /\ typing \in BOOLEAN /\ lost \in BOOLEAN
  /\ (heard # <<>> => conn) /\ (typing => "board" \in opened)

\* A title that nobody typed is not saved: leaving the input of a panel that has been
\* open while others edited the task does not undo their edits.
SavedTextWasTyped == draft # NoData /\ Differs => typed

\* "someone is commenting" ends: once all messages have arrived, a tab shows another
\* user as typing only while that user's timer runs, also after the comment was posted
\* or the panel closed, unless the message that ends it was lost with a connection.
TypingIsReal ==
  LET messages == heard \o sent
      shows == IF messages = <<>> THEN typing ELSE messages[Len(messages)]
  IN shows => timer \/ lost
=============================================================================
