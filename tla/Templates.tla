----------------------------- MODULE Templates ------------------------------
(***************************************************************************)
(* Which file a notification run renders.  A row of templates names a file *)
(* in TEMPLATE_DIR; a notification channel refers to a row.  Rows and      *)
(* channels are changed by the API (template.go, notification.go), files   *)
(* by the operator and by the container's entrypoint; a run of a           *)
(* notification worker (getTemplatePath, sendWebhook) looks for the row,   *)
(* then for its file, then for the default file, and opens what it found.  *)
(* None of this is in a transaction: a step is one statement or one call   *)
(* of the file system, and each of a run's may fail with an error of its   *)
(* own.                                                                    *)
(*                                                                         *)
(* The database is external.  Rows of templates are deleted softly; Save   *)
(* writes a whole row, and inserts or updates it again with deleted_at     *)
(* cleared if it was deleted meanwhile; an insert turns a false Enabled    *)
(* into its default, true.  Save of a channel writes the foreign key of    *)
(* the preloaded template back.  Failed statements change nothing.         *)
(***************************************************************************)
CONSTANTS
    Files, Default,        \* Default is discord.json
    Shipped,               \* the files that come with the container
    Ids,                   \* templates; the database never uses an id twice
    Channels,
    Requests,              \* API calls that can be in progress at once
    NotificationWorkers,
    None                   \* no row, no template, no file

Rows == [file : Files, enabled : BOOLEAN, deleted : BOOLEAN]

ASSUME TemplatesAssumption ==
    /\ Default \in Shipped /\ Shipped \subseteq Files
    /\ None \notin Rows \union Ids \union Files \union Channels

VARIABLES
    files,       \* the files in TEMPLATE_DIR
    malformed,   \* those that do not parse or do not execute
    row,         \* the templates
    uses,        \* the template of each channel, None before its creation
    req,         \* API calls between two of their steps
    run,         \* per worker: how far its run is, its template, its file
    erred,       \* history: where the run was when a call of its failed
    watched      \* history: what was the case at some moment of the run

fileVars == <<files, malformed>>
runVars == <<run, erred>>
vars == <<fileVars, row, uses, req, runVars, watched>>

Idle == [at |-> "idle", target |-> None, copy |-> None]
NoRun == [at |-> "idle", template |-> None, path |-> None]
NothingSeen == [named |-> {}, dead |-> FALSE, missing |-> {}, broken |-> {}]

Init ==
    /\ files = Shipped
    /\ malformed = {}
    /\ row = [t \in Ids |-> None]
    /\ uses = [c \in Channels |-> None]
    /\ req = [r \in Requests |-> Idle]
    /\ run = [w \in NotificationWorkers |-> NoRun]
    /\ erred = [w \in NotificationWorkers |-> {}]
    /\ watched = [w \in NotificationWorkers |-> NothingSeen]

Found(t) == row[t] # None /\ ~row[t].deleted
Live(t) == Found(t) /\ row[t].enabled

Proceed(r, where, target, copy) ==
    req' = [req EXCEPT ![r] = [at |-> where, target |-> target, copy |-> copy]]

Respond(r) == req' = [req EXCEPT ![r] = Idle]

-----------------------------------------------------------------------------
(* TemplateHandler.Create looks for the file, then inserts the row. *)
CreateStat(r, f) ==
    /\ req[r].at = "idle"
    /\ f \in files
    /\ Proceed(r, "statted", None, f)
    /\ UNCHANGED <<fileVars, row, uses, runVars>>

CreateInsert(r, t) ==
    /\ req[r].at = "statted"
    /\ row[t] = None
    /\ row' = [row EXCEPT
          ![t] = [file |-> req[r].copy, enabled |-> TRUE, deleted |-> FALSE]]
    /\ Respond(r)
    /\ UNCHANGED <<fileVars, uses, runVars>>

(* Update does not look for the file. *)
UpdateLoad(r, t, f, enabled) ==
    /\ req[r].at = "idle"
    /\ Found(t)
    /\ Proceed(r, "loaded", t, [file |-> f, enabled |-> enabled, deleted |-> FALSE])
    /\ UNCHANGED <<fileVars, row, uses, runVars>>

UpdateSave(r) ==
    LET t == req[r].target IN
    /\ req[r].at = "loaded"
    /\ row' = [row EXCEPT
          ![t] = [req[r].copy EXCEPT !.enabled = @ \/ ~Found(t)]]
    /\ Respond(r)
    /\ UNCHANGED <<fileVars, uses, runVars>>

Delete(t) ==
    /\ Found(t)
    /\ row' = [row EXCEPT ![t].deleted = TRUE]
    /\ UNCHANGED <<fileVars, uses, req, runVars>>

-----------------------------------------------------------------------------
(* NotificationHandler.Create asks for the template, then inserts. *)
ChannelCheck(r, t) ==
    /\ req[r].at = "idle"
    /\ Found(t)
    /\ Proceed(r, "checked", None, t)
    /\ UNCHANGED <<fileVars, row, uses, runVars>>

ChannelInsert(r, c) ==
    /\ req[r].at = "checked"
    /\ uses[c] = None
    /\ uses' = [uses EXCEPT ![c] = req[r].copy]
    /\ Respond(r)
    /\ UNCHANGED <<fileVars, row, runVars>>

(* Update asks for nothing.  The preloaded template, if it was not deleted  *)
(* by then, puts the channel's old template_id back into the row.           *)
ChannelLoad(r, c, t) ==
    /\ req[r].at = "idle"
    /\ uses[c] # None
    /\ row[t] # None
    /\ Proceed(r, "preloaded", c, IF Found(uses[c]) THEN uses[c] ELSE t)
    /\ UNCHANGED <<fileVars, row, uses, runVars>>

ChannelSave(r) ==
    /\ req[r].at = "preloaded"
    /\ uses' = [uses EXCEPT ![req[r].target] = req[r].copy]
    /\ Respond(r)
    /\ UNCHANGED <<fileVars, row, runVars>>

(* The request is refused, or its statement fails. *)
RequestFails(r) ==
    /\ req[r].at # "idle"
    /\ Respond(r)
    /\ UNCHANGED <<fileVars, row, uses, runVars>>

-----------------------------------------------------------------------------
Move(w, where, t, path) ==
    /\ run' = [run EXCEPT ![w] = [at |-> where, template |-> t, path |-> path]]
    /\ UNCHANGED <<fileVars, row, uses, req>>

Advance(w, where, t, path) == Move(w, where, t, path) /\ UNCHANGED erred

BeginRun(w, c) ==
    /\ run[w].at = "idle"
    /\ uses[c] # None
    /\ Advance(w, "begun", uses[c], None)

(* Mutant: the query does not ask for enabled. *)
FindTemplateAny(w) ==
    LET t == run[w].template IN
    /\ run[w].at = "begun"
    /\ IF Found(t) THEN Advance(w, "found", t, row[t].file)
                   ELSE Advance(w, "fallback", t, None)

(* Mutant: the query's error is not looked at. *)
FindTemplateUnchecked(w) ==
    LET t == run[w].template IN
    /\ run[w].at = "begun"
    /\ Advance(w, "found", t, IF Live(t) THEN row[t].file ELSE None)

FindTemplate(w) ==
    LET t == run[w].template IN
    /\ run[w].at = "begun"
    /\ IF Live(t) THEN Advance(w, "found", t, row[t].file)
                  ELSE Advance(w, "fallback", t, None)

(* Mutant: the test of the error is the wrong way round. *)
StatFileInverted(w) ==
    LET f == run[w].path IN
    /\ run[w].at = "found"
    /\ IF f \notin files THEN Advance(w, "resolved", run[w].template, f)
                         ELSE Advance(w, "fallback", run[w].template, None)

StatFile(w) ==
    LET f == run[w].path IN
    /\ run[w].at = "found"
    /\ IF f \in files THEN Advance(w, "resolved", run[w].template, f)
                      ELSE Advance(w, "fallback", run[w].template, None)

StatDefault(w) ==
    /\ run[w].at = "fallback"
    /\ Advance(w, IF Default \in files THEN "resolved" ELSE "failed",
               run[w].template, Default)

(* ParseFiles and ExecuteTemplate in sendWebhook. *)
ParseFile(w) ==
    /\ run[w].at = "resolved"
    /\ Advance(w, IF run[w].path \in files \ malformed THEN "rendered" ELSE "failed",
               run[w].template, run[w].path)

(* The query, a Stat or the reading fails with an error of its own.  None   *)
(* is told from a row or a file that is not there.                          *)
CallFails(w) ==
    /\ \/ /\ run[w].at \in {"begun", "found"}
          /\ Move(w, "fallback", run[w].template, None)
       \/ /\ run[w].at = "fallback"
          /\ Move(w, "failed", run[w].template, Default)
       \/ /\ run[w].at = "resolved"
          /\ Move(w, "failed", run[w].template, run[w].path)
    /\ erred' = [erred EXCEPT ![w] = @ \union {run[w].at}]

(* A run may also end in front of the parsing: there is no review to send,  *)
(* or it or the rating cannot be loaded.                                    *)
EndRun(w) ==
    /\ run[w].at \in {"resolved", "rendered", "failed"}
    /\ Move(w, "idle", None, None)
    /\ erred' = [erred EXCEPT ![w] = {}]

-----------------------------------------------------------------------------
(* The operator's changes, and a restart of the container: the entrypoint   *)
(* puts the default files back that are missing, and no request or run is   *)
(* left.                                                                    *)
WriteFile(f) ==
    /\ files' = files \union {f}
    /\ malformed' \in {malformed \union {f}, malformed \ {f}}
    /\ UNCHANGED <<row, uses, req, runVars>>

RemoveFile(f) ==
    /\ f \in files
    /\ files' = files \ {f}
    /\ malformed' = malformed \ {f}
    /\ UNCHANGED <<row, uses, req, runVars>>

Restart ==
    /\ files' = files \union Shipped
    /\ req' = [r \in Requests |-> Idle]
    /\ run' = [w \in NotificationWorkers |-> NoRun]
    /\ erred' = [w \in NotificationWorkers |-> {}]
    /\ UNCHANGED <<malformed, row, uses>>

-----------------------------------------------------------------------------
(* The history behind each step: of the run's template, the files it named  *)
(* while it was enabled, whether it was ever not; of the files that the run *)
(* had come to, those that were then missing, or malformed.                 *)
Sight(w) ==
    LET t == run[w].template IN
    IF run[w].at = "idle" THEN NothingSeen
    ELSE [named |-> IF Live(t) THEN {row[t].file} ELSE {},
          dead |-> ~Live(t),
          missing |-> {run[w].path} \ (files \union {None}),
          broken |-> malformed \intersect {run[w].path}]

Watch ==
    watched' = [w \in NotificationWorkers |->
        LET now == Sight(w)' IN
        IF run'[w].at = "idle" THEN NothingSeen
        ELSE [named |-> watched[w].named \union now.named,
              dead |-> watched[w].dead \/ now.dead,
              missing |-> watched[w].missing \union now.missing,
              broken |-> watched[w].broken \union now.broken]]

ApiStep(r) ==
    \/ \E f \in Files : CreateStat(r, f)
    \/ \E t \in Ids : CreateInsert(r, t)
    \/ \E t \in Ids, f \in Files, enabled \in BOOLEAN :
          UpdateLoad(r, t, f, enabled)
    \/ UpdateSave(r)
    \/ \E t \in Ids : ChannelCheck(r, t)
    \/ \E c \in Channels : ChannelInsert(r, c)
    \/ \E c \in Channels, t \in Ids : ChannelLoad(r, c, t)
    \/ ChannelSave(r)
    \/ RequestFails(r)

RunStep(w) ==
    \/ \E c \in Channels : BeginRun(w, c)
    \/ FindTemplate(w) \/ StatFile(w) \/ StatDefault(w)
    \/ ParseFile(w) \/ CallFails(w) \/ EndRun(w)

Step ==
    \/ \E r \in Requests : ApiStep(r)
    \/ \E t \in Ids : Delete(t)
    \/ \E w \in NotificationWorkers : RunStep(w)
    \/ \E f \in Files : WriteFile(f) \/ RemoveFile(f)
    \/ Restart

Next == Step /\ Watch

Spec == Init /\ [][Next]_vars

-----------------------------------------------------------------------------
(* The types of the tables, the requests and the runs. *)
TypeOK ==
    /\ files \subseteq Files /\ malformed \subseteq files
    /\ row \in [Ids -> Rows \union {None}]
    /\ uses \in [Channels -> Ids \union {None}]
    /\ req \in [Requests ->
                     [at : {"idle"}, target : {None}, copy : {None}]
            \union [at : {"statted"}, target : {None}, copy : Files]
            \union [at : {"loaded"}, target : Ids, copy : Rows]
            \union [at : {"checked"}, target : {None}, copy : Ids]
            \union [at : {"preloaded"}, target : Channels, copy : Ids]]
    /\ run \in [NotificationWorkers ->
                     [at : {"idle"}, template : {None}, path : {None}]
            \union [at : {"begun", "fallback"}, template : Ids, path : {None}]
            \union [at : {"found", "resolved", "rendered", "failed"},
                    template : Ids, path : Files]]
    /\ erred \in [NotificationWorkers ->
                    SUBSET {"begun", "found", "fallback", "resolved"}]
    /\ watched \in [NotificationWorkers ->
                      [named : SUBSET Files, dead : BOOLEAN,
                       missing : SUBSET Files, broken : SUBSET Files]]

(* Whatever changes under a run, it sends what somebody asked for: a file   *)
(* other than the default only if the channel's template was enabled and    *)
(* named it at some moment of the run.                                      *)
RendersWhatWasNamed ==
    \A w \in NotificationWorkers :
        run[w].at = "rendered" =>
            run[w].path \in watched[w].named \union {Default}

(* The silent fallback has a reason: at some moment of the run the template *)
(* was not enabled, or deleted, or a file that it named was missing, or the *)
(* query or the Stat failed.  The run fails over its template only if the   *)
(* default, or the file it had found, was missing or malformed, or the Stat *)
(* of the default or the reading failed.                                    *)
FallbackForAReason ==
    \A w \in NotificationWorkers :
        LET seen == watched[w] IN
        /\ \/ run[w].at = "fallback"
           \/ run[w].at = "rendered" /\ run[w].path \notin seen.named
           => \/ seen.dead
              \/ seen.named \intersect seen.missing # {}
              \/ erred[w] \intersect {"begun", "found"} # {}
        /\ run[w].at = "failed" =>
              \/ run[w].path \in seen.missing \union seen.broken
              \/ erred[w] \intersect {"fallback", "resolved"} # {}
=============================================================================
