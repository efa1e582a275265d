----------------------------- MODULE TabMirror -----------------------------
(***************************************************************************)
(* The tabs of a worker as the controller has them: the slot of            *)
(* controller/state_manager.py and the tab bar of worker_tab.py, with what *)
(* main_window.py does to both for each message.  Of the html of a tab the *)
(* mirror keeps whose page it shows.                                       *)
(***************************************************************************)
EXTENDS Naturals, Sequences, SequencesExt

CONSTANT Garbled  \* the page of no window

VARIABLES
  tabs,    \* slot.tabs, in the order of the dict
  active,  \* slot.active_tab_handle; 0 is ""
  bar      \* the handles with a button in the tab bar

mirrorVars == <<tabs, active, bar>>

Tab(h, page, v, stale) == [handle |-> h, shows |-> page, version |-> v, stale |-> stale]
NewTab(h) == Tab(h, 0, 0, TRUE)
Mirrored == {tabs[i].handle : i \in DOMAIN tabs}
WithTab(h) == IF h \in Mirrored THEN tabs ELSE Append(tabs, NewTab(h))
Place(h) == CHOOSE i \in DOMAIN tabs : tabs[i].handle = h
Shown(h) == tabs[Place(h)]

MirrorInit == tabs = <<>> /\ active = 0 /\ bar = {}

\* update_view with nothing to show asks for a snapshot.
Blank(list, h) ==
  ~\E i \in DOMAIN list : list[i].handle = h /\ list[i].shows # 0

TabOpened(h) ==
  /\ tabs' = WithTab(h)
  /\ active' = IF active = 0 THEN h ELSE active
  /\ bar' = bar \cup {h}

WithoutTab(h) == IF h \in Mirrored THEN RemoveAt(tabs, Place(h)) ELSE tabs

TabClosed(h) ==
  /\ tabs' = WithoutTab(h)
  /\ active' = IF active # h THEN active
               ELSE IF tabs' = <<>> THEN 0 ELSE tabs'[1].handle
  /\ bar' = bar \ {h}

FullSnapshot(h, page, v) ==
  /\ tabs' = [i \in DOMAIN WithTab(h) |->
                IF WithTab(h)[i].handle = h
                THEN Tab(h, page, v, FALSE)
                ELSE WithTab(h)[i]]
  /\ active' = h
  /\ bar' = IF h = 0 THEN bar ELSE bar \cup {h}

\* A DOM_UPDATE: from one page, numbered base, to another, or without any
\* change when a mere address has changed (to = 0).  One that does not fit
\* makes the tab stale.
Fits(h, base) == h \in Mirrored /\ ~Shown(h).stale /\ Shown(h).version = base

Patched(page, from, to) == IF to = 0 THEN page ELSE IF page = from THEN to ELSE Garbled

DomUpdate(h, base, v, from, to) ==
  /\ tabs' = [i \in DOMAIN tabs |->
                IF tabs[i].handle # h THEN tabs[i]
                ELSE IF Fits(h, base)
                THEN Tab(h, Patched(tabs[i].shows, from, to), v, FALSE)
                ELSE Tab(h, tabs[i].shows, tabs[i].version, TRUE)]
  /\ UNCHANGED <<active, bar>>

\* The result of a command; a switch says where it went to.
CommandResult(switchedTo) ==
  /\ active' = IF switchedTo = 0 THEN active ELSE switchedTo
  /\ UNCHANGED <<tabs, bar>>
=============================================================================
