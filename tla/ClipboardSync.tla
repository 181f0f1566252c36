---------------------------- MODULE ClipboardSync ----------------------------
(***************************************************************************)
(* The clipboard of a shared desktop and those of its viewers: the X11     *)
(* host takes what an application of its display copies and sends it to    *)
(* every viewer, and offers what a viewer sends to the applications        *)
(* (src/x11_vnc/x11_vnc_server.c); a viewer does the same with the         *)
(* display it runs on (src/vncview/vncview.c).  Either side learns of a    *)
(* copy by an event, asks the owner of the selection for the text, and     *)
(* gets it later, when it may not be the latest any more; and either side  *)
(* drops what it believes the other to have.                               *)
(*                                                                         *)
(* A display's selection belongs to its applications, which are one here,  *)
(* or to the host (viewer) itself.  A text is a value; both ends are       *)
(* connected throughout, and the output buffer is ClientOutput's.          *)
(***************************************************************************)
EXTENDS Naturals, FiniteSets, Sequences

CONSTANTS
  Viewers,
  Texts,
  MaxCopies   \* bound: texts that users copy

NoText == "none"   \* NULL, an empty clipboard, a property that is not there

ASSUME ClipboardAssumption ==
  "host" \notin Viewers /\ NoText \notin Texts /\ MaxCopies \in Nat

VARIABLES
  owner,             \* of the host's CLIPBOARD: "app" or "server"
  app_text,          \* what the host's applications copied last
  g_clipboard_text,  \* what the host serves
  x_events,          \* X events the host has not handled
  converting,        \* its XConvertSelection()s that no application answered
  property           \* VNC_SELECTION of its window

atHost == <<owner, app_text, g_clipboard_text, x_events, converting, property>>

VARIABLES
  view_owner,     \* of each viewer's CLIPBOARD: "app" or "viewer"
  local_text,     \* what its display's applications copied last
  set_text,       \* what gtk_clipboard_set_text() was given last
  changes,        \* owner-change events it has not handled
  requested,      \* its requests for the text that no application answered
  to_apply,          \* apply_server_clipboard_idle() calls, with their text
  last_sent       \* last_sent_clipboard

atViewer == <<view_owner, local_text, set_text, changes, requested, to_apply,
                last_sent>>

VARIABLES
  down, up,       \* cut texts on their way, per viewer
  lately,         \* history: where the copies since the last rest were made
  copiers,        \* history: where any copy was made
  rivals,         \* history: copies in two places were under way at once
  copies

onWire == <<down, up>>
copyHistory == <<lately, copiers, rivals, copies>>
clipboardVars == <<atHost, atViewer, onWire, copyHistory>>

TextOrNone == Texts \cup {NoText}

HostText == IF owner = "app" THEN app_text ELSE g_clipboard_text
ViewerText(v) == IF view_owner[v] = "app" THEN local_text[v] ELSE set_text[v]

(* Nothing is on its way and nobody has anything left to handle.           *)
AtRest ==
  /\ x_events = <<>> /\ converting = 0
  /\ \A v \in Viewers :
       /\ changes[v] = 0 /\ requested[v] = 0
       /\ to_apply[v] = <<>> /\ down[v] = <<>> /\ up[v] = <<>>

ClipboardTypeOK ==
  /\ owner \in {"app", "server"}
  /\ {app_text, g_clipboard_text, property} \subseteq TextOrNone
  /\ x_events \in Seq({"owner app", "owner server", "request", "notify"})
  /\ converting \in 0..MaxCopies
  /\ view_owner \in [Viewers -> {"app", "viewer"}]
  /\ {local_text, set_text, last_sent} \subseteq [Viewers -> TextOrNone]
  /\ {changes, requested} \subseteq [Viewers -> Nat]
  /\ {to_apply, down, up} \subseteq [Viewers -> Seq(Texts)]
  /\ lately \subseteq copiers /\ copiers \subseteq Viewers \cup {"host"}
  /\ rivals \in BOOLEAN /\ copies \in 0..MaxCopies

ClipboardInit ==
  /\ owner = "app" /\ app_text = NoText /\ g_clipboard_text = NoText
  /\ x_events = <<>> /\ converting = 0 /\ property = NoText
  /\ view_owner = [v \in Viewers |-> "app"]
  /\ local_text = [v \in Viewers |-> NoText]
  /\ set_text = [v \in Viewers |-> NoText]
  /\ changes = [v \in Viewers |-> 0] /\ requested = [v \in Viewers |-> 0]
  /\ to_apply = [v \in Viewers |-> <<>>]
  /\ last_sent = [v \in Viewers |-> NoText]
  /\ down = [v \in Viewers |-> <<>>] /\ up = [v \in Viewers |-> <<>>]
  /\ lately = {} /\ copiers = {} /\ rivals = FALSE /\ copies = 0

Put(f, v, text) == [f EXCEPT ![v] = Append(@, text)]
Take(f, v) == [f EXCEPT ![v] = Tail(@)]

(* A user copies a text somewhere.                                         *)
Copying(place) ==
  /\ copies < MaxCopies
  /\ copies' = copies + 1
  /\ lately' = IF AtRest THEN {place} ELSE lately \cup {place}
  /\ copiers' = copiers \cup {place}
  /\ rivals' = (rivals \/ lately' # {place})
  /\ UNCHANGED onWire

-----------------------------------------------------------------------------
(* The host's display. *)

HostCopy(text) ==
  /\ Copying("host")
  /\ owner' = "app" /\ app_text' = text
  /\ x_events' = Append(x_events, "owner app")
  /\ UNCHANGED <<g_clipboard_text, converting, property, atViewer>>

(* The application writes the property that it was asked to, over what     *)
(* an earlier answer may have left there.                                  *)
AppAnswers ==
  /\ converting > 0
  /\ converting' = converting - 1
  /\ property' = app_text
  /\ x_events' = Append(x_events, "notify")
  /\ UNCHANGED <<owner, app_text, g_clipboard_text, atViewer, onWire,
                 copyHistory>>

(* The event loop of the host.  HostEvent is the first event, of a kind;   *)
(* more are the events that handling it gives rise to.                   *)
HostEvent(kind, more) ==
  /\ x_events # <<>> /\ Head(x_events) = kind
  /\ x_events' = Tail(x_events) \o more
  /\ UNCHANGED <<owner, app_text, atViewer, up, copyHistory>>

(* The text is asked from the owner, who can be the host itself by now.    *)
XFixesSelectionNotify ==
  /\ \/ /\ HostEvent("owner app", <<>>) /\ owner = "app"
        /\ converting' = converting + 1
     \/ /\ HostEvent("owner app", <<"request">>) /\ owner = "server"
        /\ UNCHANGED converting
     \/ HostEvent("owner server", <<>>) /\ UNCHANGED converting
  /\ UNCHANGED <<g_clipboard_text, property, down>>

SelectionRequest ==
  /\ HostEvent("request", <<"notify">>)
  /\ property' = g_clipboard_text
  /\ UNCHANGED <<g_clipboard_text, converting, down>>

SendClipboard(text) == down' = [v \in Viewers |-> Append(down[v], text)]

(* Reading the property deletes it, so that it is read once.               *)
SelectionNotify ==
  /\ HostEvent("notify", <<>>)
  /\ property' = NoText
  /\ IF property \in {NoText, g_clipboard_text}
     THEN UNCHANGED <<g_clipboard_text, down>>
     ELSE g_clipboard_text' = property /\ SendClipboard(property)
  /\ UNCHANGED converting

(* on_clipboard(): a viewer's text is offered to the applications.         *)
OnClipboard(v) ==
  /\ up[v] # <<>>
  /\ up' = Take(up, v)
  /\ g_clipboard_text' = Head(up[v])
  /\ owner' = "server"
  /\ x_events' = Append(x_events, "owner server")
  /\ UNCHANGED <<app_text, converting, property, atViewer, down, copyHistory>>

-----------------------------------------------------------------------------
(* A viewer. *)

ViewerStep(v) == v \in Viewers /\ UNCHANGED <<atHost, copyHistory>>

LocalCopy(v, text) ==
  /\ Copying(v)
  /\ view_owner' = [view_owner EXCEPT ![v] = "app"]
  /\ local_text' = [local_text EXCEPT ![v] = text]
  /\ changes' = [changes EXCEPT ![v] = @ + 1]
  /\ UNCHANGED <<atHost, set_text, requested, to_apply, last_sent>>

(* on_clipboard_text_received() *)
TextReceived(v, text) ==
  /\ IF text \in {NoText, last_sent[v]} THEN UNCHANGED <<last_sent, up>>
     ELSE /\ last_sent' = [last_sent EXCEPT ![v] = text]
          /\ up' = Put(up, v, text)
  /\ UNCHANGED <<view_owner, local_text, set_text, to_apply, down>>

(* gtk_clipboard_request_text(): what the viewer has set itself is there   *)
(* at once, an application answers later.                                  *)
OnClipboardOwnerChange(v) ==
  /\ ViewerStep(v) /\ changes[v] > 0
  /\ changes' = [changes EXCEPT ![v] = @ - 1]
  /\ \/ /\ view_owner[v] = "app"
        /\ requested' = [requested EXCEPT ![v] = @ + 1]
        /\ UNCHANGED <<view_owner, local_text, set_text, to_apply, last_sent,
                       onWire>>
     \/ /\ view_owner[v] = "viewer"
        /\ TextReceived(v, set_text[v])
        /\ UNCHANGED requested

LocalAppAnswers(v) ==
  /\ ViewerStep(v) /\ requested[v] > 0
  /\ requested' = [requested EXCEPT ![v] = @ - 1]
  /\ TextReceived(v, local_text[v])
  /\ UNCHANGED changes

(* on_clipboard_update_cb(), on the network thread.                        *)
OnClipboardUpdate(v) ==
  /\ ViewerStep(v) /\ down[v] # <<>>
  /\ down' = Take(down, v)
  /\ to_apply' = Put(to_apply, v, Head(down[v]))
  /\ UNCHANGED <<view_owner, local_text, set_text, changes, requested,
                 last_sent, up>>

ForgetsSource(v, text) == UNCHANGED last_sent   \* mutant: it is sent back

Remembers(v, text) == last_sent' = [last_sent EXCEPT ![v] = text]

ApplyServerClipboard(v) ==
  /\ ViewerStep(v) /\ to_apply[v] # <<>>
  /\ to_apply' = Take(to_apply, v)
  /\ Remembers(v, Head(to_apply[v]))
  /\ set_text' = [set_text EXCEPT ![v] = Head(to_apply[v])]
  /\ view_owner' = [view_owner EXCEPT ![v] = "viewer"]
  /\ changes' = [changes EXCEPT ![v] = @ + 1]
  /\ UNCHANGED <<local_text, requested, onWire>>

-----------------------------------------------------------------------------
ClipboardNext ==
  \/ \E text \in Texts : HostCopy(text)
  \/ AppAnswers
  \/ XFixesSelectionNotify \/ SelectionRequest \/ SelectionNotify
  \/ \E v \in Viewers :
       \/ \E text \in Texts : LocalCopy(v, text)
       \/ OnClipboard(v)
       \/ OnClipboardOwnerChange(v) \/ LocalAppAnswers(v)
       \/ OnClipboardUpdate(v) \/ ApplyServerClipboard(v)

ClipboardSpec == ClipboardInit /\ [][ClipboardNext]_clipboardVars

-----------------------------------------------------------------------------
(* When everything has come to rest, a viewer and the host show the same   *)
(* text, whoever copied it and however fast one copy followed another; and *)
(* an application that copied on the host still owns its selection: no     *)
(* viewer has sent the text back.  This is for copies that no copy in      *)
(* another place crosses, which can swap the texts for good; and for a     *)
(* viewer besides which no other viewer copies, since the host passes no   *)
(* viewer's text on to the others.                                         *)
ClipboardsAgree ==
  AtRest /\ ~rivals /\ copies > 0 =>
    /\ \A v \in Viewers : copiers \subseteq {"host", v} => ViewerText(v) = HostText
    /\ lately = {"host"} => owner = "app"
=============================================================================
