--------------------------- MODULE TemplatesProofs --------------------------
(***************************************************************************)
(* Proofs about Templates, for any templates, files, channels, requests    *)
(* and workers: what a run renders was named, and a fallback has a reason. *)
(***************************************************************************)
EXTENDS Templates, TLAPS

USE TemplatesAssumption

Requested ==
           [at : {"idle"}, target : {None}, copy : {None}]
    \union [at : {"statted"}, target : {None}, copy : Files]
    \union [at : {"loaded"}, target : Ids, copy : Rows]
    \union [at : {"checked"}, target : {None}, copy : Ids]
    \union [at : {"preloaded"}, target : Channels, copy : Ids]

Running ==
           [at : {"idle"}, template : {None}, path : {None}]
    \union [at : {"begun", "fallback"}, template : Ids, path : {None}]
    \union [at : {"found", "resolved", "rendered", "failed"}, template : Ids,
            path : Files]

Calls == {"begun", "found", "fallback", "resolved"}

(* The types but for the history's. *)
Typed ==
    /\ files \subseteq Files /\ malformed \subseteq files
    /\ row \in [Ids -> Rows \union {None}]
    /\ uses \in [Channels -> Ids \union {None}]
    /\ req \in [Requests -> Requested]
    /\ run \in [NotificationWorkers -> Running]
    /\ erred \in [NotificationWorkers -> SUBSET Calls]

Histories == [named : SUBSET Files, dead : BOOLEAN, missing : SUBSET Files,
              broken : SUBSET Files]

LEMMA InitTyped == Init => Typed /\ watched \in [NotificationWorkers -> Histories]
BY DEF Init, Typed, Requested, Running, Histories, Idle, NoRun, NothingSeen

LEMMA FoundIsRow == ASSUME Typed, NEW t \in Ids, Found(t) PROVE row[t] \in Rows
BY DEF Typed, Found

LEMMA RowsAreNotNone == None \notin Rows /\ None \notin Ids
OBVIOUS

-----------------------------------------------------------------------------
(* Requests.                                                                *)
LEMMA ApiStepTyped == ASSUME Typed, NEW r \in Requests, ApiStep(r) PROVE Typed'
<1> USE DEF fileVars, runVars
<1>1. req[r] \in Requested
    BY DEF Typed
<1>2. ASSUME NEW f \in Files, CreateStat(r, f) PROVE Typed'
  <2>1. [at |-> "statted", target |-> None, copy |-> f] \in Requested
      BY DEF Requested
  <2>2. QED
      BY <1>2, <2>1 DEF CreateStat, Proceed, Typed
<1>3. Idle \in Requested
    BY DEF Idle, Requested
<1>4. ASSUME NEW t \in Ids, CreateInsert(r, t) PROVE Typed'
  <2>1. req[r].copy \in Files
      BY <1>1, <1>4 DEF CreateInsert, Requested
  <2>2. [file |-> req[r].copy, enabled |-> TRUE, deleted |-> FALSE] \in Rows
      BY <2>1 DEF Rows
  <2>3. QED
      BY <1>3, <1>4, <2>2 DEF CreateInsert, Respond, Typed
<1>5. ASSUME NEW t \in Ids, NEW f \in Files, NEW enabled \in BOOLEAN,
             UpdateLoad(r, t, f, enabled)
      PROVE  Typed'
  <2>1. [at |-> "loaded", target |-> t,
         copy |-> [file |-> f, enabled |-> enabled, deleted |-> FALSE]] \in Requested
      BY DEF Requested, Rows
  <2>2. QED
      BY <1>5, <2>1 DEF UpdateLoad, Proceed, Typed
<1>6. CASE UpdateSave(r)
  <2>1. req[r].target \in Ids /\ req[r].copy \in Rows
      BY <1>1, <1>6 DEF UpdateSave, Requested
  <2>2. [req[r].copy EXCEPT !.enabled = @ \/ ~Found(req[r].target)] \in Rows
      BY <2>1 DEF Rows
  <2>3. QED
      BY <1>3, <1>6, <2>1, <2>2 DEF UpdateSave, Respond, Typed
<1>7. ASSUME NEW t \in Ids, ChannelCheck(r, t) PROVE Typed'
  <2>1. [at |-> "checked", target |-> None, copy |-> t] \in Requested
      BY DEF Requested
  <2>2. QED
      BY <1>7, <2>1 DEF ChannelCheck, Proceed, Typed
<1>8. ASSUME NEW c \in Channels, ChannelInsert(r, c) PROVE Typed'
  <2>1. req[r].copy \in Ids
      BY <1>1, <1>8 DEF ChannelInsert, Requested
  <2>2. QED
      BY <1>3, <1>8, <2>1 DEF ChannelInsert, Respond, Typed
<1>9. ASSUME NEW c \in Channels, NEW t \in Ids, ChannelLoad(r, c, t) PROVE Typed'
  <2>1. (IF Found(uses[c]) THEN uses[c] ELSE t) \in Ids
      BY <1>9 DEF ChannelLoad, Typed
  <2>2. [at |-> "preloaded", target |-> c,
         copy |-> IF Found(uses[c]) THEN uses[c] ELSE t] \in Requested
      BY <2>1 DEF Requested
  <2>3. QED
      BY <1>9, <2>2 DEF ChannelLoad, Proceed, Typed
<1>10. CASE ChannelSave(r)
  <2>1. req[r].target \in Channels /\ req[r].copy \in Ids
      BY <1>1, <1>10 DEF ChannelSave, Requested
  <2>2. QED
      BY <1>3, <1>10, <2>1 DEF ChannelSave, Respond, Typed
<1>11. CASE RequestFails(r)
    BY <1>3, <1>11 DEF RequestFails, Respond, Typed
<1>12. QED
    BY <1>2, <1>4, <1>5, <1>6, <1>7, <1>8, <1>9, <1>10, <1>11 DEF ApiStep

-----------------------------------------------------------------------------
(* Runs.                                                                    *)
LEMMA MoveTyped ==
    ASSUME Typed, NEW w \in NotificationWorkers, NEW where, NEW t, NEW path,
           Move(w, where, t, path), erred' \in [NotificationWorkers -> SUBSET Calls],
           [at |-> where, template |-> t, path |-> path] \in Running
    PROVE  Typed'
BY DEF Move, fileVars, Typed

LEMMA AdvanceTyped ==
    ASSUME Typed, NEW w \in NotificationWorkers, NEW where, NEW t, NEW path,
           Advance(w, where, t, path),
           [at |-> where, template |-> t, path |-> path] \in Running
    PROVE  Typed'
BY MoveTyped DEF Advance, Typed

LEMMA RunStepTyped == ASSUME Typed, NEW w \in NotificationWorkers, RunStep(w) PROVE Typed'
<1>1. run[w] \in Running
    BY DEF Typed
<1>2. ASSUME NEW c \in Channels, BeginRun(w, c) PROVE Typed'
    BY <1>2, AdvanceTyped DEF BeginRun, Typed, Running
<1>3. CASE FindTemplate(w)
  <2>1. run[w].template \in Ids
      BY <1>1, <1>3 DEF FindTemplate, Running
  <2>2. CASE Live(run[w].template)
    <3>1. row[run[w].template].file \in Files
        BY <2>1, <2>2, FoundIsRow DEF Live, Rows
    <3>2. QED
        BY <1>3, <2>1, <2>2, <3>1, AdvanceTyped DEF FindTemplate, Running
  <2>3. CASE ~Live(run[w].template)
      BY <1>3, <2>1, <2>3, AdvanceTyped DEF FindTemplate, Running
  <2>4. QED
      BY <2>2, <2>3
<1>4. CASE StatFile(w)
  <2>1. run[w].template \in Ids /\ run[w].path \in Files
      BY <1>1, <1>4 DEF StatFile, Running
  <2>2. QED
      BY <1>4, <2>1, AdvanceTyped DEF StatFile, Running
<1>5. CASE StatDefault(w)
  <2>1. run[w].template \in Ids
      BY <1>1, <1>5 DEF StatDefault, Running
  <2>2. QED
      BY <1>5, <2>1, AdvanceTyped DEF StatDefault, Running
<1>6. CASE ParseFile(w)
  <2>1. run[w].template \in Ids /\ run[w].path \in Files
      BY <1>1, <1>6 DEF ParseFile, Running
  <2>2. QED
      BY <1>6, <2>1, AdvanceTyped DEF ParseFile, Running
<1>7. CASE CallFails(w)
  <2>1. run[w].template \in Ids
      BY <1>1, <1>7 DEF CallFails, Running
  <2>2. erred' \in [NotificationWorkers -> SUBSET Calls]
      BY <1>7 DEF CallFails, Typed, Calls
  <2>3. CASE run[w].at \in {"begun", "found"}
    <3>1. [at |-> "fallback", template |-> run[w].template, path |-> None] \in Running
        BY <2>1 DEF Running
    <3>2. Move(w, "fallback", run[w].template, None)
        BY <1>7, <2>3 DEF CallFails
    <3>3. QED
        BY <2>2, <3>1, <3>2, MoveTyped
  <2>4. CASE run[w].at = "fallback"
    <3>1. [at |-> "failed", template |-> run[w].template, path |-> Default] \in Running
        BY <2>1 DEF Running
    <3>2. Move(w, "failed", run[w].template, Default)
        BY <1>7, <2>4 DEF CallFails
    <3>3. QED
        BY <2>2, <3>1, <3>2, MoveTyped
  <2>5. CASE run[w].at = "resolved"
    <3>1. run[w].path \in Files
        BY <1>1, <2>5 DEF Running
    <3>2. [at |-> "failed", template |-> run[w].template, path |-> run[w].path]
              \in Running
        BY <2>1, <3>1 DEF Running
    <3>3. Move(w, "failed", run[w].template, run[w].path)
        BY <1>7, <2>5 DEF CallFails
    <3>4. QED
        BY <2>2, <3>2, <3>3, MoveTyped
  <2>6. QED
      BY <1>7, <2>3, <2>4, <2>5 DEF CallFails
<1>8. CASE EndRun(w)
  <2>1. erred' \in [NotificationWorkers -> SUBSET Calls]
      BY <1>8 DEF EndRun, Typed
  <2>2. [at |-> "idle", template |-> None, path |-> None] \in Running
      BY DEF Running
  <2>3. QED
      BY <1>8, <2>1, <2>2, MoveTyped DEF EndRun
<1>9. QED
    BY <1>2, <1>3, <1>4, <1>5, <1>6, <1>7, <1>8 DEF RunStep

LEMMA StepTyped == ASSUME Typed, [Next]_vars PROVE Typed'
<1> USE DEF fileVars, runVars
<1>1. ASSUME NEW t \in Ids, Delete(t) PROVE Typed'
  <2>1. row[t] \in Rows
      BY <1>1, FoundIsRow DEF Delete
  <2>2. [row[t] EXCEPT !.deleted = TRUE] \in Rows
      BY <2>1 DEF Rows
  <2>3. QED
      BY <1>1, <2>1, <2>2 DEF Delete, Typed
<1>2. ASSUME NEW f \in Files, WriteFile(f) \/ RemoveFile(f) PROVE Typed'
    BY <1>2 DEF WriteFile, RemoveFile, Typed
<1>3. CASE Restart
    BY <1>3 DEF Restart, Typed, Idle, NoRun, Requested, Running
<1>4. CASE UNCHANGED vars
    BY <1>4 DEF vars, Typed
<1>5. QED
    BY <1>1, <1>2, <1>3, <1>4, ApiStepTyped, RunStepTyped DEF Next, Step

-----------------------------------------------------------------------------
(* What the history knows of a run that is not idle: the present, and what  *)
(* the run's own state came from.                                           *)
SeesThePresent(w) ==
    LET t == run[w].template IN
    /\ Live(t) => row[t].file \in watched[w].named
    /\ ~Live(t) => watched[w].dead
    /\ run[w].path \in Files \ files => run[w].path \in watched[w].missing
    /\ run[w].path \in malformed => run[w].path \in watched[w].broken

Excused(w) ==
    \/ watched[w].dead
    \/ watched[w].named \intersect watched[w].missing # {}
    \/ erred[w] \intersect {"begun", "found"} # {}

FailureExcused(w) ==
    \/ run[w].path \in watched[w].missing \union watched[w].broken
    \/ erred[w] \intersect {"fallback", "resolved"} # {}

Justified(w) ==
    /\ run[w].at = "found" => run[w].path \in watched[w].named
    /\ run[w].at \in {"resolved", "rendered"} =>
          /\ run[w].path \in watched[w].named \union {Default}
          /\ run[w].path \in watched[w].named \/ Excused(w)
    /\ run[w].at = "fallback" => Excused(w)
    /\ run[w].at = "failed" => FailureExcused(w)

Watched(w) == run[w].at # "idle" => SeesThePresent(w) /\ Justified(w)

TemplatesInv ==
    /\ Typed
    /\ watched \in [NotificationWorkers -> Histories]
    /\ \A w \in NotificationWorkers : Watched(w)

(* Nothing is forgotten during a run, and the present is noted.             *)
LEMMA WatchNotes ==
    ASSUME TemplatesInv, Typed', Watch, NEW w \in NotificationWorkers,
           run'[w].at # "idle"
    PROVE  /\ watched[w].named \subseteq watched'[w].named
           /\ watched[w].dead => watched'[w].dead
           /\ watched[w].missing \subseteq watched'[w].missing
           /\ watched[w].broken \subseteq watched'[w].broken
           /\ SeesThePresent(w)'
<1> DEFINE now == Sight(w)'
<1>1. /\ now.named = IF Live(run[w].template)' THEN {row'[run'[w].template].file} ELSE {}
      /\ now.dead = ~Live(run[w].template)'
      /\ now.missing = {run'[w].path} \ (files' \union {None})
      /\ now.broken = malformed' \intersect {run'[w].path}
    BY DEF Sight
<1>2. watched'[w] = [named |-> watched[w].named \union now.named,
                     dead |-> watched[w].dead \/ now.dead,
                     missing |-> watched[w].missing \union now.missing,
                     broken |-> watched[w].broken \union now.broken]
    BY DEF Watch
<1>3. /\ watched'[w].named = watched[w].named \union now.named
      /\ watched'[w].dead = (watched[w].dead \/ now.dead)
      /\ watched'[w].missing = watched[w].missing \union now.missing
      /\ watched'[w].broken = watched[w].broken \union now.broken
    BY <1>2
<1>4. run'[w].path \in Files \ files' => run'[w].path \in now.missing
    BY <1>1
<1>5. QED
    BY <1>1, <1>3, <1>4 DEF SeesThePresent

LEMMA WatchTyped ==
    ASSUME TemplatesInv, Typed', Watch
    PROVE  watched' \in [NotificationWorkers -> Histories]
<1>1. ASSUME NEW w \in NotificationWorkers, run'[w].at # "idle"
      PROVE  Sight(w)' \in Histories
  <2>1. run'[w].template \in Ids /\ run'[w].path \in Files \union {None}
      BY <1>1 DEF Typed, Running
  <2>2. PICK absent \in SUBSET Files :
            absent = {run'[w].path} \ (files' \union {None})
      BY <2>1
  <2>3. PICK bad \in SUBSET Files : bad = malformed' \intersect {run'[w].path}
      BY DEF Typed
  <2>4. CASE Live(run[w].template)'
    <3>1. row'[run'[w].template] \in Rows
        BY <2>1, <2>4 DEF Typed, Live, Found
    <3>2. row'[run'[w].template].file \in Files
        BY <3>1 DEF Rows
    <3>3. Sight(w)' = [named |-> {row'[run'[w].template].file}, dead |-> FALSE,
                       missing |-> absent, broken |-> bad]
        BY <1>1, <2>2, <2>3, <2>4 DEF Sight
    <3>4. QED
        BY <3>2, <3>3 DEF Histories
  <2>5. CASE ~Live(run[w].template)'
    <3>1. Sight(w)' = [named |-> {}, dead |-> TRUE, missing |-> absent,
                       broken |-> bad]
        BY <1>1, <2>2, <2>3, <2>5 DEF Sight
    <3>2. QED
        BY <3>1 DEF Histories
  <2>6. QED
      BY <2>4, <2>5
<1>2. NothingSeen \in Histories
    BY DEF NothingSeen, Histories
<1>3. ASSUME NEW w \in NotificationWorkers, NEW now \in Histories
      PROVE  [named |-> watched[w].named \union now.named,
              dead |-> watched[w].dead \/ now.dead,
              missing |-> watched[w].missing \union now.missing,
              broken |-> watched[w].broken \union now.broken] \in Histories
    BY DEF TemplatesInv, Histories
<1>4. QED
    BY <1>1, <1>2, <1>3 DEF Watch

LEMMA ExcusedStays ==
    ASSUME TemplatesInv, Typed', Watch, NEW w \in NotificationWorkers,
           run'[w].at # "idle", Excused(w), erred[w] \subseteq erred'[w]
    PROVE  Excused(w)'
BY WatchNotes DEF Excused

LEMMA UnmovedRun ==
    ASSUME TemplatesInv, Typed', Watch, NEW w \in NotificationWorkers,
           run'[w] = run[w], erred'[w] = erred[w]
    PROVE  Watched(w)'
<1> SUFFICES ASSUME run'[w].at # "idle" PROVE SeesThePresent(w)' /\ Justified(w)'
    BY DEF Watched
<1>1. Justified(w)
    BY DEF TemplatesInv, Watched
<1>2. Excused(w) => Excused(w)'
    BY ExcusedStays
<1>3. FailureExcused(w) => FailureExcused(w)'
    BY WatchNotes DEF FailureExcused
<1>4. QED
    BY <1>1, <1>2, <1>3, WatchNotes DEF Justified

LEMMA MovedRun ==
    ASSUME TemplatesInv, Typed', Watch, NEW w \in NotificationWorkers, RunStep(w)
    PROVE  Watched(w)'
<1> SUFFICES ASSUME run'[w].at # "idle" PROVE Justified(w)'
    BY WatchNotes DEF Watched
<1> DEFINE t == run[w].template
<1>0. run[w].at # "idle" => Justified(w)
    BY DEF TemplatesInv, Watched
<1>1. ASSUME NEW where, NEW template, NEW path, Advance(w, where, template, path)
      PROVE  /\ run'[w].at = where /\ run'[w].template = template
             /\ run'[w].path = path
             /\ UNCHANGED <<files, malformed, row, erred>>
    BY <1>1 DEF Advance, Move, fileVars, TemplatesInv, Typed
<1>2. ASSUME NEW c \in Channels, BeginRun(w, c) PROVE Justified(w)'
    BY <1>1, <1>2 DEF BeginRun, Justified
<1>3. CASE FindTemplate(w)
  <2>1. CASE Live(t)
    <3>1. /\ run'[w].at = "found" /\ run'[w].template = t
          /\ run'[w].path = row[t].file /\ row' = row
        BY <1>1, <1>3, <2>1 DEF FindTemplate
    <3>2. Live(run[w].template)'
        BY <2>1, <3>1 DEF Live, Found
    <3>3. row'[run'[w].template].file \in watched'[w].named
        BY <3>2, WatchNotes DEF SeesThePresent
    <3>4. QED
        BY <3>1, <3>3 DEF Justified
  <2>2. CASE ~Live(t)
    <3>1. run'[w].at = "fallback" /\ run'[w].template = t /\ row' = row
        BY <1>1, <1>3, <2>2 DEF FindTemplate
    <3>2. ~Live(run[w].template)'
        BY <2>2, <3>1 DEF Live, Found
    <3>3. watched'[w].dead
        BY <3>2, WatchNotes DEF SeesThePresent
    <3>4. QED
        BY <3>1, <3>3 DEF Justified, Excused
  <2>3. QED
      BY <2>1, <2>2
<1>4. CASE StatFile(w)
  <2>1. run[w].at = "found" /\ run[w].path \in watched[w].named
      BY <1>0, <1>4 DEF StatFile, Justified
  <2>2. run[w].path \in watched'[w].named
      BY <2>1, WatchNotes
  <2>3. CASE run[w].path \in files
    <3>1. run'[w].at = "resolved" /\ run'[w].path = run[w].path
        BY <1>1, <1>4, <2>3 DEF StatFile
    <3>2. QED
        BY <2>2, <3>1 DEF Justified
  <2>4. CASE run[w].path \notin files
    <3>1. run'[w].at = "fallback"
        BY <1>1, <1>4, <2>4 DEF StatFile
    <3>2. run[w].path \in Files
        BY <2>1 DEF TemplatesInv, Typed, Running
    <3>3. run[w].path \in watched'[w].missing
        BY <2>1, <2>4, <3>2, WatchNotes DEF TemplatesInv, Watched, SeesThePresent
    <3>4. QED
        BY <2>2, <3>1, <3>3 DEF Justified, Excused
  <2>5. QED
      BY <2>3, <2>4
<1>5. CASE StatDefault(w)
  <2>1. Excused(w)'
      BY <1>0, <1>1, <1>5, ExcusedStays DEF StatDefault, Justified
  <2>2. CASE Default \in files
    <3>1. run'[w].at = "resolved" /\ run'[w].path = Default
        BY <1>1, <1>5, <2>2 DEF StatDefault
    <3>2. QED
        BY <2>1, <3>1 DEF Justified
  <2>3. CASE Default \notin files
    <3>1. run'[w].at = "failed" /\ run'[w].path = Default /\ files' = files
        BY <1>1, <1>5, <2>3 DEF StatDefault
    <3>2. Default \in watched'[w].missing
        BY <2>3, <3>1, WatchNotes DEF SeesThePresent
    <3>3. QED
        BY <3>1, <3>2 DEF Justified, FailureExcused
  <2>4. QED
      BY <2>2, <2>3
<1>6. CASE ParseFile(w)
  <2>1. /\ run[w].path \in watched[w].named \union {Default}
        /\ run[w].path \in watched[w].named \/ Excused(w)
        /\ run[w].path \in Files
      BY <1>0, <1>6 DEF ParseFile, Justified, TemplatesInv, Typed, Running
  <2>2. CASE run[w].path \in files \ malformed
    <3>1. run'[w].at = "rendered" /\ run'[w].path = run[w].path /\ erred' = erred
        BY <1>1, <1>6, <2>2 DEF ParseFile
    <3>2. Excused(w) => Excused(w)'
        BY <3>1, ExcusedStays
    <3>3. QED
        BY <2>1, <3>1, <3>2, WatchNotes DEF Justified
  <2>3. CASE run[w].path \notin files \ malformed
    <3>1. /\ run'[w].at = "failed" /\ run'[w].path = run[w].path
          /\ UNCHANGED <<files, malformed>>
        BY <1>1, <1>6, <2>3 DEF ParseFile
    <3>2. run[w].path \in watched'[w].missing \union watched'[w].broken
        BY <2>1, <2>3, <3>1, WatchNotes DEF SeesThePresent
    <3>3. QED
        BY <3>1, <3>2 DEF Justified, FailureExcused
  <2>4. QED
      BY <2>2, <2>3
<1>7. CASE CallFails(w)
  <2>1. erred'[w] = erred[w] \union {run[w].at}
      BY <1>7 DEF CallFails, TemplatesInv, Typed
  <2>2. CASE run[w].at \in {"begun", "found"}
    <3>1. run'[w].at = "fallback"
        BY <1>7, <2>2 DEF CallFails, Move, TemplatesInv, Typed
    <3>2. QED
        BY <2>1, <2>2, <3>1 DEF Justified, Excused
  <2>3. CASE run[w].at \in {"fallback", "resolved"}
    <3>1. run'[w].at = "failed"
        BY <1>7, <2>3 DEF CallFails, Move, TemplatesInv, Typed
    <3>2. QED
        BY <2>1, <2>3, <3>1 DEF Justified, FailureExcused
  <2>4. QED
      BY <1>7, <2>2, <2>3 DEF CallFails
<1>8. CASE EndRun(w)
    BY <1>8 DEF EndRun, Move, TemplatesInv, Typed
<1>9. QED
    BY <1>2, <1>3, <1>4, <1>5, <1>6, <1>7, <1>8 DEF RunStep

LEMMA TemplatesStep == TemplatesInv /\ [Next]_vars => TemplatesInv'
<1> SUFFICES ASSUME TemplatesInv, [Next]_vars PROVE TemplatesInv'
    OBVIOUS
<1>1. Typed'
    BY StepTyped DEF TemplatesInv
<1>2. CASE UNCHANGED vars
    BY <1>1, <1>2 DEF vars, fileVars, runVars, TemplatesInv, Watched,
       SeesThePresent, Justified, Excused, FailureExcused, Live, Found
<1>3. CASE Next
  <2>1. Watch
      BY <1>3 DEF Next
  <2>2. ASSUME NEW w \in NotificationWorkers PROVE Watched(w)'
    <3>1. CASE UNCHANGED runVars
        BY <1>1, <2>1, <3>1, UnmovedRun DEF runVars
    <3>2. ASSUME NEW v \in NotificationWorkers, RunStep(v) PROVE Watched(w)'
      <4>1. CASE v = w
          BY <1>1, <2>1, <3>2, <4>1, MovedRun
      <4>2. CASE v # w
        <5>1. run'[w] = run[w] /\ erred'[w] = erred[w]
            BY <3>2, <4>2 DEF RunStep, BeginRun, FindTemplate, StatFile, StatDefault,
               ParseFile, CallFails, EndRun, Advance, Move, TemplatesInv, Typed
        <5>2. QED
            BY <1>1, <2>1, <5>1, UnmovedRun
      <4>3. QED
          BY <4>1, <4>2
    <3>3. CASE Restart
      <4>1. run'[w].at = "idle"
          BY <3>3 DEF Restart, NoRun
      <4>2. QED
          BY <4>1 DEF Watched
    <3>4. ASSUME NEW r \in Requests, ApiStep(r) PROVE UNCHANGED runVars
        BY <3>4 DEF ApiStep, CreateStat, CreateInsert, UpdateLoad, UpdateSave,
                    ChannelCheck, ChannelInsert, ChannelLoad, ChannelSave, RequestFails
    <3>5. ASSUME NEW t \in Ids, Delete(t) PROVE UNCHANGED runVars
        BY <3>5 DEF Delete
    <3>6. ASSUME NEW f \in Files, WriteFile(f) \/ RemoveFile(f) PROVE UNCHANGED runVars
        BY <3>6 DEF WriteFile, RemoveFile
    <3>7. QED
        BY <1>3, <3>1, <3>2, <3>3, <3>4, <3>5, <3>6 DEF Next, Step
  <2>3. QED
      BY <1>1, <2>1, <2>2, WatchTyped DEF TemplatesInv
<1>4. QED
    BY <1>2, <1>3

THEOREM TemplatesHold == Spec => []TemplatesInv
<1>1. Init => TemplatesInv
    BY InitTyped DEF Init, TemplatesInv, Watched, NoRun
<1>2. QED
    BY <1>1, TemplatesStep, PTL DEF Spec

(* Tables, requests, runs and the history keep their types.                 *)
THEOREM TypeCorrect == Spec => []TypeOK
<1>1. TemplatesInv => TypeOK
    BY DEF TemplatesInv, Typed, Requested, Running, Calls, Histories, TypeOK
<1>2. QED
    BY <1>1, TemplatesHold, PTL

(* Whatever the API, the operator and restarts do under a run of any number *)
(* of workers (notification_worker.go getTemplatePath), it renders a file   *)
(* that its template named meanwhile, or the default.                       *)
THEOREM NamedIsRendered == Spec => []RendersWhatWasNamed
<1>1. TemplatesInv => RendersWhatWasNamed
    BY DEF TemplatesInv, Watched, Justified, RendersWhatWasNamed
<1>2. QED
    BY <1>1, TemplatesHold, PTL

(* The default is never taken while the template was enabled, its file      *)
(* there all along, and the query and the Stat answered; and a run fails    *)
(* over its template only if the file it had come to was missing or         *)
(* malformed, or could not be looked at or read.                            *)
THEOREM FallbacksHaveAReason == Spec => []FallbackForAReason
<1>1. TemplatesInv => FallbackForAReason
    BY DEF TemplatesInv, Watched, Justified, Excused, FailureExcused,
           FallbackForAReason
<1>2. QED
    BY <1>1, TemplatesHold, PTL
=============================================================================
