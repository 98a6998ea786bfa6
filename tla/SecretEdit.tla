----------------------------- MODULE SecretEdit -----------------------------
(***************************************************************************)
(* Editing a decoded Secret: what is between pressing e in the document    *)
(* and the patch (src/src/app/secret_edit.rs, request_document_edit and    *)
(* edit_document_object of src/src/app/actions.rs), while others change    *)
(* the Secret.  The plaintext on the disk is SecretFiles.                  *)
(***************************************************************************)
EXTENDS Naturals

CONSTANTS
  Secrets, NoSecret,
  Values,      \* what a Secret may hold
  Unpinned,    \* a patch without a resourceVersion
  MaxRequests, \* bound: times e is pressed
  MaxWrites    \* bound: times a Secret changes

SecretEditAssumption ==
  /\ NoSecret \notin Secrets /\ Unpinned \notin Nat
  /\ MaxRequests \in Nat /\ MaxWrites \in Nat

VARIABLES
  stored,   \* stored[s]: [rv, value], the Secret in the cluster
  screen,   \* "table", "document", "editor", "confirm", "palette" over the dialog
  document, \* document_source: the Secret the document shows
  request,  \* document_edit_request
  waiting,  \* document_edit_task
  reads,    \* reads under way, and answers in the channel
  edit,     \* secret_edit, or what the dialog is about: at most one
  patches   \* patches on their way

vars == <<stored, screen, document, request, waiting, reads, edit, patches>>
user == <<screen, document, request, waiting>>

Init ==
  /\ stored \in [Secrets -> [rv : {0}, value : Values]]
  /\ screen = "table" /\ document = NoSecret /\ request = 0 /\ waiting = FALSE
  /\ reads = {} /\ edit = {} /\ patches = {}

-----------------------------------------------------------------------------
(* The cluster.                                                            *)

Write(s, v) == stored' = [stored EXCEPT ![s] = [rv |-> @.rv + 1, value |-> v]]

\* Somebody else changes the Secret, perhaps back to what it was.
OthersWrite(s, v) ==
  /\ stored[s].rv < MaxWrites /\ Write(s, v)
  /\ UNCHANGED <<user, reads, edit, patches>>

\* The API server refuses a patch pinned to another resourceVersion: 409.
Server(p) ==
  /\ p \in patches /\ patches' = patches \ {p}
  /\ IF p.rv \in {Unpinned, stored[p.secret].rv}
     THEN Write(p.secret, p.value)
     ELSE UNCHANGED stored
  /\ UNCHANGED <<user, reads, edit>>

\* RefreshSource::read
ReadAnswers(r) ==
  /\ r \in reads /\ ~r.sent
  /\ reads' = (reads \ {r}) \cup {[r EXCEPT !.sent = TRUE, !.got = stored[r.secret]]}
  /\ UNCHANGED <<stored, user, edit, patches>>

-----------------------------------------------------------------------------
(* The document.                                                           *)

\* show_decoded_secret
Show(s) ==
  /\ screen = "table" /\ screen' = "document" /\ document' = s
  /\ UNCHANGED <<stored, request, waiting, reads, edit, patches>>

\* clear_document_source: a read that is not answered is aborted; an answer in the
\* channel stays there.
Leave ==
  /\ screen = "document" /\ screen' = "table" /\ document' = NoSecret
  /\ waiting' = FALSE /\ reads' = {r \in reads : r.sent}
  /\ UNCHANGED <<stored, request, edit, patches>>

\* request_document_edit
PressE ==
  /\ screen = "document" /\ ~waiting /\ request < MaxRequests
  /\ request' = request + 1 /\ waiting' = TRUE
  /\ reads' = reads \cup {[secret |-> document, request |-> request', sent |-> FALSE,
                           got |-> stored[document]]}
  /\ UNCHANGED <<stored, screen, document, edit, patches>>

\* The guard of Msg::DocumentEditRead.
Awaited(r) == waiting /\ r.request = request

\* edit_document_object, edit_decoded_secret: the editor opens on what was read, unless
\* the read failed, the Secret is immutable, or a guardrail or the disk refuses.
ReadLands(r) ==
  /\ r \in reads /\ r.sent /\ screen # "editor"
  /\ reads' = reads \ {r}
  /\ IF Awaited(r)
     THEN /\ waiting' = FALSE
          /\ \/ /\ screen = "document" /\ screen' = "editor"
                /\ edit' = {[secret |-> r.secret, rv |-> r.got.rv, shown |-> r.got.value,
                             on |-> document, value |-> r.got.value]}
             \/ UNCHANGED <<screen, edit>>
     ELSE UNCHANGED <<screen, waiting, edit>>
  /\ UNCHANGED <<stored, document, request, patches>>

-----------------------------------------------------------------------------
(* finish_secret_edit; the event loop stands while the editor is open.     *)

\* The editor failed, the document is unchanged or says the same, or a guardrail denies:
\* nothing happens. A document that does not parse is opened again, which is where it was.
EditNothing ==
  /\ screen = "editor" /\ screen' = "document" /\ edit' = {}
  /\ UNCHANGED <<stored, document, request, waiting, reads, patches>>

\* The dialog names the keys.
EditSaves(v) ==
  \E e \in edit :
    /\ screen = "editor" /\ screen' = "confirm" /\ v # e.shown
    /\ edit' = {[e EXCEPT !.value = v]}
    /\ UNCHANGED <<stored, document, request, waiting, reads, patches>>

\* Mutant: the patch does not say what it changes.
UnpinnedPatch(e) == [secret |-> e.secret, rv |-> Unpinned, value |-> e.value,
                     shown |-> e.shown, on |-> e.on]

\* secret_patch
Patch(e) == [secret |-> e.secret, rv |-> e.rv, value |-> e.value,
             shown |-> e.shown, on |-> e.on]

\* run_confirm_action, apply_secret_edit; read-only mode refuses.
Accept ==
  \E e \in edit :
    /\ screen = "confirm" /\ screen' = "document" /\ edit' = {}
    /\ patches' \in {patches, patches \cup {Patch(e)}}
    /\ UNCHANGED <<stored, document, request, waiting, reads>>

Cancel ==
  /\ screen = "confirm" /\ screen' = "document" /\ edit' = {}
  /\ UNCHANGED <<stored, document, request, waiting, reads, patches>>

\* open_palette takes the key from the dialog, and gives it back when it is left.
OpenPalette ==
  /\ screen = "confirm" /\ screen' = "palette"
  /\ UNCHANGED <<stored, document, request, waiting, reads, edit, patches>>

LeavePalette ==
  /\ screen = "palette" /\ screen' = "confirm"
  /\ UNCHANGED <<stored, document, request, waiting, reads, edit, patches>>

\* palette_accept: the command opens a view of its own, and the dialog is not seen again.
Command ==
  /\ screen = "palette" /\ screen' = "table" /\ document' = NoSecret /\ edit' = {}
  /\ waiting' = FALSE /\ reads' = {r \in reads : r.sent}
  /\ UNCHANGED <<stored, request, patches>>

Next ==
  \/ \E s \in Secrets : Show(s) \/ (\E v \in Values : OthersWrite(s, v))
  \/ \E p \in patches : Server(p)
  \/ \E r \in reads : ReadAnswers(r) \/ ReadLands(r)
  \/ Leave \/ PressE
  \/ EditNothing \/ (\E v \in Values : EditSaves(v))
  \/ Accept \/ Cancel \/ OpenPalette \/ LeavePalette \/ Command

Spec == Init /\ [][Next]_vars

-----------------------------------------------------------------------------
\* Nothing is overwritten unseen: when a patch changes a Secret, it is the Secret whose
\* document was on screen, and it holds what the editor showed, whoever wrote it while the
\* read, the editor, the dialog or the patch took its time.
SeesWhatItOverwrites ==
  \A p \in patches \ patches' :
    stored' # stored => p.secret = p.on /\ p.shown = stored[p.secret].value

NothingUnseenOverwritten == [][SeesWhatItOverwrites]_vars
=============================================================================
