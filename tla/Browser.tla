------------------------------ MODULE Browser ------------------------------
(***************************************************************************)
(* The windows of a worker's Chrome and the driver's calls that are about  *)
(* them: worker/browser.py over Selenium.  A window is known by its        *)
(* handle; handles are numbered in the order the windows open, which is    *)
(* the order window_handles lists them in.                                 *)
(***************************************************************************)
EXTENDS Naturals, Sequences, SequencesExt

CONSTANTS
  FirstHandles, \* how many windows there may be at first
  MaxHandle     \* how many windows are ever opened

ASSUME BrowserAssumption == MaxHandle \in Nat /\ FirstHandles \subseteq 1..MaxHandle

Handle == 1..MaxHandle
NoHandle == 0

VARIABLES
  windows,  \* the open windows
  focus,    \* the window the driver is on, which may have gone
  made,     \* how many windows there have been
  observed, \* windows with a MutationObserver in their pages
  mutated   \* and those of them that have recorded mutations

browserVars == <<windows, focus, made, observed, mutated>>
pageVars == <<observed, mutated>>

Open == Range(windows)
IsAlive == focus \in Open
GetCurrentWindowHandle == IF IsAlive THEN focus ELSE NoHandle

BrowserInit ==
  /\ made \in FirstHandles /\ windows = [h \in 1..made |-> h] /\ focus = 1
  /\ observed = {1} /\ mutated = {}

\* The page opens a window; the driver stays where it is.
OpenWindow ==
  /\ made < MaxHandle
  /\ windows' = Append(windows, made + 1)
  /\ made' = made + 1
  /\ UNCHANGED <<focus, pageVars>>

\* Window h goes, with its page.
Without(h) ==
  /\ \E i \in DOMAIN windows : windows[i] = h /\ windows' = RemoveAt(windows, i)
  /\ observed' = observed \ {h} /\ mutated' = mutated \ {h}
  /\ UNCHANGED <<focus, made>>

\* A page closes its window; the last one does not.
WindowCloses(h) == h \in Open /\ Len(windows) > 1 /\ Without(h)

Mutates(h) ==
  /\ h \in observed
  /\ mutated' = mutated \cup {h}
  /\ UNCHANGED <<windows, focus, made, observed>>

\* switch_to.new_window: the driver goes to the new window.
NewWindow ==
  /\ windows' = Append(windows, made + 1)
  /\ made' = made + 1
  /\ focus' = made + 1
  /\ UNCHANGED pageVars

\* A window that has gone is passed over with a warning.
SwitchToWindow(h) ==
  /\ focus' = IF h \in Open THEN h ELSE focus
  /\ UNCHANGED <<windows, made, pageVars>>

\* driver.close: the window is gone and the driver on none.
Close == Without(focus)

\* inject: the page gets an observer, unless there is one.
Inject ==
  /\ observed' = observed \cup ({focus} \cap Open)
  /\ UNCHANGED <<windows, focus, made, mutated>>

\* drain_mutations: the page's mutations are taken; it gets an observer.
Drain ==
  /\ observed' = observed \cup {focus} /\ mutated' = mutated \ {focus}
  /\ UNCHANGED <<windows, focus, made>>

\* A new Chrome with one window, on the target's page.
Restart ==
  /\ windows' = <<made + 1>> /\ focus' = made + 1 /\ made' = made + 1
  /\ observed' = {} /\ mutated' = {}
=============================================================================
