----------------------------- MODULE UiProvider -----------------------------
(***************************************************************************)
(* Class UiProvider of the VSCode extension (vscode-dejaview/src/          *)
(* extension.ts), for one document.  Opening its editor starts a           *)
(* trace_processor_shell on a free port, a change of the file restarts it, *)
(* closing the editor stops it.  Looking for a port is awaited, a process  *)
(* prints, dies and is reaped when it likes: whatever was true before may  *)
(* no longer be.                                                           *)
(*                                                                         *)
(* The editor is registered without supportsMultipleEditorsPerDocument:    *)
(* VSCode keeps at most one panel of the document open at a time.          *)
(***************************************************************************)
EXTENDS Integers, FiniteSets

CONSTANTS
  MaxPanels,   \* panels opened, one after the other, at most
  MaxProcs,    \* processes spawned at most: each has a port of its own
  MaxChanges,  \* changes of the file at most
  MayFail,     \* no port is free, a spawn fails or a process exits by itself
  MayHide      \* a panel may be behind another tab

ASSUME UiAssumption ==
  /\ {MaxPanels, MaxProcs, MaxChanges} \subseteq Nat
  /\ MayFail \in BOOLEAN /\ MayHide \in BOOLEAN

Panel == 1 .. MaxPanels
Proc == 1 .. MaxProcs
None == 0
New == [running |-> TRUE, printed |-> FALSE, killed |-> FALSE, code |-> -1,
        rpcStarted |-> FALSE, closed |-> FALSE]
Loader == -1
Error == -2

VARIABLES
  panels,      \* this.panels
  closed,      \* panels that were disposed of
  html,        \* what a panel shows: the loader, an error or the app on a port
  visible,     \* the panels in front
  backend,     \* this.backends: the process, None if there is no entry
  watching,    \* this.fileWatchers has an entry
  opening,     \* calls of resolveCustomEditor awaiting a port
  reloading,   \* calls of the watcher's handler awaiting a port
  changes,     \* changes of the file so far
  spawned,     \* processes so far
  proc         \* each of them, with its local rpcStarted

vars == <<panels, closed, html, visible, backend, watching, opening, reloading,
          changes, spawned, proc>>

(* The type of the provider's maps, of its pending calls and of processes.   *)
TypeOK ==
  /\ panels \subseteq Panel /\ closed \subseteq Panel \ panels
  /\ visible \subseteq Panel /\ opening \subseteq Panel
  /\ html \in [Panel -> {Loader, Error, None} \cup Proc]
  /\ backend \in 0 .. spawned
  /\ watching \in BOOLEAN
  /\ reloading \in 0 .. MaxChanges /\ changes \in 0 .. MaxChanges
  /\ spawned \in 0 .. MaxProcs
  /\ proc \in [1 .. spawned ->
                 [running : BOOLEAN, printed : BOOLEAN, killed : BOOLEAN,
                  code : -1 .. 1, rpcStarted : BOOLEAN, closed : BOOLEAN]]

Init ==
  /\ panels = {} /\ closed = {} /\ visible = {} /\ opening = {}
  /\ html = [p \in Panel |-> None]
  /\ backend = None /\ watching = FALSE
  /\ reloading = 0 /\ changes = 0 /\ spawned = 0
  /\ proc = [q \in {} |-> New]
-----------------------------------------------------------------------------
(* The panels once they show something.                                      *)
Show(shown, what) == [p \in Panel |-> IF p \in shown THEN what ELSE html[p]]
showErrorInPanels == Show(panels \cap visible, Error)

Killed(q) ==
  IF q = None THEN proc ELSE [proc EXCEPT ![q].killed = TRUE]

(* startTraceProcessor: kills the process that is there and spawns one, or   *)
(* fails to (the 'error' event comes before any other).                      *)
startTraceProcessor ==
  /\ spawned' = spawned + 1
  /\ \/ /\ proc' = [q \in 1 .. spawned + 1 |->
                      IF q > spawned THEN New ELSE Killed(backend)[q]]
        /\ backend' = spawned + 1
        /\ UNCHANGED html
     \/ /\ MayFail
        /\ proc' = [q \in 1 .. spawned + 1 |->
                      IF q > spawned THEN [New EXCEPT !.running = FALSE, !.code = 1]
                      ELSE Killed(backend)[q]]
        /\ backend' = None
        /\ html' = showErrorInPanels

(* Every call under way will find that it may spawn a process.               *)
Room == spawned + Cardinality(opening) + reloading < MaxProcs

(* findFreePort: its promise is rejected.                                    *)
NoPort == MayFail /\ UNCHANGED <<backend, spawned, proc>>
-----------------------------------------------------------------------------
(* resolveCustomEditor, up to the await.                                     *)
resolveCustomEditor(p) ==
  /\ panels = {} /\ p = Cardinality(closed) + 1 /\ Room
  /\ panels' = panels \cup {p}
  /\ visible' = visible \cup {p}
  /\ IF backend = None
     THEN opening' = opening \cup {p} /\ html' = [html EXCEPT ![p] = Loader]
     ELSE UNCHANGED opening /\ html' = [html EXCEPT ![p] = backend]
  /\ UNCHANGED <<closed, backend, watching, reloading, changes, spawned, proc>>

(* resolveCustomEditor, after it.                                            *)
PortFound(p) ==
  /\ p \in opening
  /\ opening' = opening \ {p}
  /\ \/ startTraceProcessor /\ watching' = TRUE
     \/ NoPort /\ html' = showErrorInPanels /\ UNCHANGED watching
  /\ UNCHANGED <<panels, closed, visible, reloading, changes>>

(* webviewPanel.onDidDispose, of the only panel there is.                    *)
onDidDispose(p) ==
  /\ p \in panels
  /\ panels' = panels \ {p} /\ closed' = closed \cup {p} /\ visible' = visible \ {p}
  /\ IF panels' = {}
     THEN proc' = Killed(backend) /\ backend' = None /\ watching' = FALSE
     ELSE UNCHANGED <<proc, backend, watching>>
  /\ UNCHANGED <<html, opening, reloading, changes, spawned>>

(* watcher.onDidChange, up to the await and after it.                        *)
onDidChange ==
  /\ watching /\ changes < MaxChanges /\ Room
  /\ changes' = changes + 1
  /\ IF panels = {} THEN UNCHANGED <<html, reloading>>
     ELSE html' = Show(panels, Loader) /\ reloading' = reloading + 1
  /\ UNCHANGED <<panels, closed, visible, backend, watching, opening, spawned, proc>>

Reload ==
  /\ reloading > 0
  /\ reloading' = reloading - 1
  /\ startTraceProcessor \/ (NoPort /\ UNCHANGED html)
  /\ UNCHANGED <<panels, closed, visible, watching, opening, changes>>
-----------------------------------------------------------------------------
(* trace_processor_shell: it says that it serves, and it dies.               *)
Prints(q) ==
  /\ proc[q].running /\ ~proc[q].printed
  /\ proc' = [proc EXCEPT ![q].printed = TRUE]
  /\ UNCHANGED <<panels, closed, html, visible, backend, watching, opening, reloading,
                 changes, spawned>>

Dies(q) ==
  /\ proc[q].running
  /\ proc[q].killed \/ MayFail
  /\ \E code \in {0, 1} : /\ proc[q].killed => code = 1
                          /\ proc' = [proc EXCEPT ![q].running = FALSE, ![q].code = code]
  /\ UNCHANGED <<panels, closed, html, visible, backend, watching, opening, reloading,
                 changes, spawned>>

(* onData, when the line has arrived.                                        *)
onDataNotShown(q) ==  \* mutant: only the first process is listened to
  /\ proc[q].printed /\ ~proc[q].rpcStarted
  /\ proc' = [proc EXCEPT ![q].rpcStarted = TRUE]
  /\ html' = IF q = 1 THEN Show(panels, q) ELSE html
  /\ UNCHANGED <<panels, closed, visible, backend, watching, opening, reloading, changes,
                 spawned>>
onData(q) ==
  /\ proc[q].printed /\ ~proc[q].rpcStarted
  /\ proc' = [proc EXCEPT ![q].rpcStarted = TRUE]
  /\ html' = Show(panels, q)
  /\ UNCHANGED <<panels, closed, visible, backend, watching, opening, reloading, changes,
                 spawned>>

(* The 'close' event, when its output is read and its exit known.            *)
onCloseOfAny(q) ==  \* mutant: whichever process is there loses its entry
  /\ ~proc[q].running /\ ~proc[q].closed
  /\ proc[q].printed => proc[q].rpcStarted
  /\ proc' = [proc EXCEPT ![q].closed = TRUE]
  /\ backend' = None
  /\ html' = showErrorInPanels
  /\ UNCHANGED <<panels, closed, visible, watching, opening, reloading, changes, spawned>>
onClose(q) ==
  /\ ~proc[q].running /\ ~proc[q].closed
  /\ proc[q].printed => proc[q].rpcStarted
  /\ proc' = [proc EXCEPT ![q].closed = TRUE]
  /\ backend' = IF backend = q THEN None ELSE backend
  /\ html' = IF proc[q].rpcStarted \/ proc[q].code # 0 THEN showErrorInPanels ELSE html
  /\ UNCHANGED <<panels, closed, visible, watching, opening, reloading, changes, spawned>>

(* VSCode: another tab comes to the front, or goes.                          *)
Hide(p) ==
  /\ MayHide /\ p \in panels
  /\ visible' = IF p \in visible THEN visible \ {p} ELSE visible \cup {p}
  /\ UNCHANGED <<panels, closed, html, backend, watching, opening, reloading, changes,
                 spawned, proc>>

Next ==
  \/ \E p \in Panel : \/ resolveCustomEditor(p) \/ PortFound(p) \/ onDidDispose(p)
                      \/ Hide(p)
  \/ onDidChange
  \/ Reload
  \/ \E q \in 1 .. spawned : Prints(q) \/ Dies(q) \/ onData(q) \/ onClose(q)

Spec == Init /\ [][Next]_vars

(* A port is found, a process starts to serve, a killed one dies, the events *)
(* of the loop are delivered.                                                *)
Fairness ==
  /\ \A p \in Panel : WF_vars(PortFound(p))
  /\ WF_vars(Reload)
  /\ \A q \in Proc : /\ WF_vars(q <= spawned /\ Prints(q))
                     /\ WF_vars(q <= spawned /\ onData(q))
                     /\ WF_vars(q <= spawned /\ onClose(q))
                     /\ WF_vars(q <= spawned /\ proc[q].killed /\ Dies(q))
FairSpec == Spec /\ Fairness
-----------------------------------------------------------------------------
(* One process per document: whichever calls were awaiting a port, a process *)
(* that was not told to stop is the one this.backends knows, so that the     *)
(* next start or the last onDidDispose will stop it.                         *)
OneBackend ==
  \A q \in 1 .. spawned : proc[q].running /\ ~proc[q].killed => backend = q

(* A panel does not wait behind the loader for a process that is starting:  *)
(* whichever restarts and reloads overlap, it is closed, shows something     *)
(* else, or the process is lost.                                             *)
LoaderEnds ==
  \A p \in Panel :
    (/\ p \in panels /\ html[p] = Loader
     /\ backend # None /\ ~proc[backend].rpcStarted)
      ~> (p \notin panels \/ html[p] # Loader \/ backend = None)

(* What onDidDispose is there for: with no panel left, and no call under     *)
(* way, no process is left running that nobody told to stop.                 *)
NoOrphan ==
  panels = {} /\ opening = {} /\ reloading = 0 =>
    \A q \in 1 .. spawned : proc[q].running => proc[q].killed

(* A file that no longer changes is shown: the panel ends up with the app    *)
(* on the port of the process that serves.                                   *)
EndsUpShowingTheApp ==
  \A p \in Panel : <>[](p \in panels)
                     => <>[](\E q \in 1 .. spawned : html[p] = q /\ backend = q)
=============================================================================
