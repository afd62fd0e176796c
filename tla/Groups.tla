------------------------------- MODULE Groups -------------------------------
(***************************************************************************)
(* The device groups: the table gnhastd keeps, its configuration file, and *)
(* the copy that gtk-gnhast edits and sends back.  A group holds devices   *)
(* and other groups; gnhastd replaces what a group holds by the lists of a *)
(* "regg" line, where a list that is empty is left out.                    *)
(***************************************************************************)
EXTENDS Integers, Sequences, SequencesExt, FiniteSets

CONSTANTS
  Uids,       \* the groups
  FirstFile,  \* the configuration at the start
  MaxEdits,   \* bound: edits in gtk-gnhast
  MaxStops    \* bound: ends of gnhastd

VARIABLES
  allgroups,  \* of gnhastd, in the order they were created
  cfg,        \* its configuration in memory: the groups of the file and their lists
  file,       \* the configuration file
  gui,        \* the groups that gtk-gnhast has, in the same form
  togui, tognh, \* lines on their way
  saved,      \* history: gtk-gnhast has sent what it has, and nothing was lost since
  edits, stops

vars == <<allgroups, cfg, file, gui, togui, tognh, saved, edits, stops>>
counts == <<edits, stops>>

\* device_group_t; subgroup counts the groups it is in.
Group(u) == [uid |-> u, kids |-> <<>>, devs |-> {}, subgroup |-> 0]
Devs == {"d"}

Known(t) == {t[i].uid : i \in DOMAIN t}
At(t, u) == CHOOSE i \in DOMAIN t : t[i].uid = u
Kids(t, u) == t[At(t, u)].kids

new_devgroup(t, u) == IF u \in Known(t) THEN t ELSE Append(t, Group(u))
add_group_group(t, k, u) ==
  [t EXCEPT ![At(t, u)].kids = Append(@, k), ![At(t, k)].subgroup = @ + 1]
\* A wrong remove_group_group: the group still counts as one inside another.
remove_uncounted(t, k, u) == [t EXCEPT ![At(t, u)].kids = RemoveFirst(@, k)]
remove_group_group(t, k, u) ==
  [t EXCEPT ![At(t, u)].kids = RemoveFirst(@, k), ![At(t, k)].subgroup = @ - 1]

\* The children of a list, those that are known and not there yet.
AddKids(t, u, list) ==
  FoldLeft(LAMBDA s, k : IF k \in Known(s) /\ ~Contains(Kids(s, u), k) THEN add_group_group(s, k, u) ELSE s,
           t, list)
\* The children that the list does not hold.
DropKids(t, u, list) ==
  FoldLeft(LAMBDA s, k : IF Contains(list, k) THEN s ELSE remove_group_group(s, k, u), t, Kids(t, u))

\* cmd_register_group of gnhastd: a list that is given replaces the one there is.
cmd_register_group(t, m) ==
  LET made == new_devgroup(t, m.uid)
      grouped == IF m.kids = <<>> THEN made ELSE DropKids(AddKids(made, m.uid, m.kids), m.uid, m.kids)
  IN [grouped EXCEPT ![At(grouped, m.uid)].devs = IF m.devs = {} THEN @ ELSE m.devs]
\* cmd_register_group of a collector or gtk-gnhast: only adds.
client_register_group(t, m) ==
  LET grouped == AddKids(new_devgroup(t, m.uid), m.uid, m.kids)
  IN [grouped EXCEPT ![At(grouped, m.uid)].devs = @ \cup m.devs]

\* gn_register_devgroup.
gn_register_devgroup(g) == [uid |-> g.uid, kids |-> g.kids, devs |-> g.devs]
END == [uid |-> "endlgrps"]
LGRPS == [uid |-> "lgrps"]

-----------------------------------------------------------------------------
\* new_conf_from_devgrp: the lists are written over the old ones from the start, and
\* what was beyond their end stays.
Over(old, new) == new \o SubSeq(old, Len(new) + 1, Len(old))
new_conf_from_devgrp(c, g) ==
  IF g.uid \notin Known(c) THEN Append(c, gn_register_devgroup(g))
  ELSE [c EXCEPT ![At(c, g.uid)].kids = Over(@, g.kids),
                 ![At(c, g.uid)].devs = IF g.devs = {} THEN @ ELSE g.devs]
devgroupconf_dump(c, t) == FoldLeft(new_conf_from_devgrp, c, t)

Chain(t, e) == FoldLeft(LAMBDA s, k : IF k \in Known(s) THEN add_group_group(s, k, e.uid) ELSE s, t, e.kids)
Load(t, e) == Append(t, [Group(e.uid) EXCEPT !.devs = e.devs])
\* A wrong parse_devgroups: in one pass.
parse_in_one_pass(c) == FoldLeft(LAMBDA t, e : Chain(Load(t, e), e), <<>>, c)
\* parse_devgroups: first the groups and their devices, then the groups in groups.
parse_devgroups(c) == FoldLeft(Chain, FoldLeft(Load, <<>>, c), c)

Init ==
  /\ file = FirstFile /\ cfg = FirstFile
  /\ allgroups = parse_devgroups(FirstFile)
  /\ gui = <<>>
  /\ togui = <<>> /\ tognh = <<LGRPS>>
  /\ saved = FALSE
  /\ edits = 0 /\ stops = 0

-----------------------------------------------------------------------------
\* gtk-gnhast.  A drag puts a group or a device into a group.
Edit == edits < MaxEdits /\ edits' = edits + 1 /\ saved' = FALSE
treeview_on_drag_rec(u) ==
  /\ Edit
  /\ u \in Known(gui)
  /\ \/ \E k \in Known(gui) : ~Contains(Kids(gui, u), k) /\ gui' = add_group_group(gui, k, u)
     \/ gui' = [gui EXCEPT ![At(gui, u)].devs = Devs]
  /\ UNCHANGED <<allgroups, cfg, file, togui, tognh, stops>>
delete_item_func(u) ==
  /\ Edit
  /\ u \in Known(gui)
  /\ \/ \E k \in Known(gui) : Contains(Kids(gui, u), k) /\ gui' = remove_group_group(gui, k, u)
     \/ gui' = [gui EXCEPT ![At(gui, u)].devs = {}]
  /\ UNCHANGED <<allgroups, cfg, file, togui, tognh, stops>>
insert_item_func(u) ==
  /\ Edit
  /\ u \notin Known(gui)
  /\ \/ gui' = new_devgroup(gui, u)
     \/ \E p \in Known(gui) : gui' = add_group_group(new_devgroup(gui, u), u, p)
  /\ UNCHANGED <<allgroups, cfg, file, togui, tognh, stops>>

\* A walk down from u has no end: it comes to a group that is below itself.
Endless(t, u) ==
  LET next(S) == S \cup {k \in Known(t) : \E g \in S : Contains(Kids(t, g), k)}
      below(g) == LET r[n \in 0 .. Len(t)] == IF n = 0 THEN Range(Kids(t, g)) ELSE next(r[n - 1]) IN r[Len(t)]
  IN \E g \in below(u) \cup {u} : g \in below(g)
Cyclic(t) == \E i \in DOMAIN t : t[i].kids # <<>> /\ Endless(t, t[i].uid)

\* register_child_groups: the groups in the order they are registered, children first.
register_child_groups(t, u, done) ==
  LET walk[n \in 0 .. Len(t), g \in Known(t), d \in Seq(Known(t))] ==
        IF n = 0 THEN d
        ELSE FoldLeft(LAMBDA e, k : IF Contains(e, k) THEN e ELSE Append(walk[n - 1, k, e], k), d, Kids(t, g))
  IN walk[Len(t), u, done]
WithParent(t, u, done) ==
  LET d == register_child_groups(t, u, done) IN IF Contains(d, u) THEN d ELSE Append(d, u)
on_save1_activate ==
  /\ gui # <<>>
  /\ ~Cyclic(gui)
  /\ tognh = <<>> /\ togui = <<>>
  /\ \E order \in {FoldLeft(LAMBDA d, g : WithParent(gui, g.uid, d), <<>>, gui)} :
       tognh' = [i \in DOMAIN order |-> gn_register_devgroup(gui[At(gui, order[i])])]
  /\ saved' = TRUE
  /\ UNCHANGED <<allgroups, cfg, file, gui, togui, counts>>
\* The recursion without end: gtk-gnhast ends, nothing was sent; it is started again.
NewGui == gui' = <<>> /\ togui' = <<>> /\ tognh' = <<LGRPS>> /\ saved' = FALSE
SaveOverflows ==
  /\ Cyclic(gui)
  /\ NewGui
  /\ UNCHANGED <<allgroups, cfg, file, counts>>

\* A line from gnhastd; at the last one update_devicetree_model draws the tree, from
\* the groups that are in no other.
GuiTakes ==
  /\ togui # <<>>
  /\ IF Head(togui) # END
     THEN /\ gui' = client_register_group(gui, Head(togui))
          /\ togui' = Tail(togui) /\ saved' = FALSE
          /\ UNCHANGED tognh
     ELSE IF \E i \in DOMAIN gui : gui[i].kids # <<>> /\ gui[i].subgroup = 0 /\ Endless(gui, gui[i].uid) THEN NewGui
     ELSE togui' = Tail(togui) /\ UNCHANGED <<gui, tognh, saved>>
  /\ UNCHANGED <<allgroups, cfg, file, counts>>
\* gtk-gnhast is quit and started again.
GuiAgain ==
  /\ edits < MaxEdits
  /\ edits' = edits + 1
  /\ NewGui
  /\ UNCHANGED <<allgroups, cfg, file, stops>>

-----------------------------------------------------------------------------
\* gnhastd.
cmd_list_groups == [i \in DOMAIN allgroups |-> gn_register_devgroup(allgroups[i])] \o <<END>>
GnhastdTakes ==
  /\ tognh # <<>>
  /\ tognh' = Tail(tognh)
  /\ IF Head(tognh) = LGRPS THEN togui' = togui \o cmd_list_groups /\ UNCHANGED allgroups
     ELSE allgroups' = cmd_register_group(allgroups, Head(tognh)) /\ UNCHANGED togui
  /\ UNCHANGED <<cfg, file, gui, saved, counts>>
\* The timer, with devconf_update.
devgroupconf_dump_cb ==
  /\ cfg' = devgroupconf_dump(cfg, allgroups)
  /\ file' = cfg'
  /\ UNCHANGED <<allgroups, gui, togui, tognh, saved, counts>>
\* SIGTERM: the configuration is written, the next gnhastd reads it.
Ends ==
  /\ stops < MaxStops
  /\ stops' = stops + 1
  /\ togui' = <<>> /\ tognh' = <<>>
  /\ saved' = FALSE
Stop ==
  /\ Ends
  /\ cfg' = devgroupconf_dump(cfg, allgroups)
  /\ file' = cfg'
  /\ allgroups' = parse_devgroups(cfg')
  /\ UNCHANGED <<gui, edits>>
Crash ==
  /\ Ends
  /\ cfg' = file
  /\ allgroups' = parse_devgroups(file)
  /\ UNCHANGED <<file, gui, edits>>

Next ==
  \/ \E u \in Uids : treeview_on_drag_rec(u) \/ delete_item_func(u) \/ insert_item_func(u)
  \/ on_save1_activate \/ SaveOverflows \/ GuiTakes \/ GuiAgain
  \/ GnhastdTakes \/ devgroupconf_dump_cb \/ Stop \/ Crash
Spec == Init /\ [][Next]_vars

-----------------------------------------------------------------------------
\* Type invariant of the groups.
IsTable(t) ==
  \A i \in DOMAIN t :
    /\ t[i].uid \in Uids /\ t[i].devs \subseteq Devs
    /\ t[i].kids \in Seq(Uids) /\ t[i].subgroup \in Nat
TypeOK ==
  /\ IsTable(allgroups) /\ IsTable(gui)
  /\ Known(cfg) \subseteq Uids /\ Known(file) \subseteq Uids
  /\ saved \in BOOLEAN

\* A group's subgroup is the number of places that it is at in other groups: what
\* update_devicetree_model and print_group_table take for the top of the tree is.
Times(list, u) == Len(SelectSeq(list, LAMBDA k : k = u))
Counted(t) ==
  \A i \in DOMAIN t : t[i].subgroup = FoldLeft(LAMBDA n, g : n + Times(g.kids, t[i].uid), 0, t)
SubgroupsCounted == Counted(allgroups) /\ Counted(gui)

\* What gtk-gnhast has sent is what gnhastd has, when it is taken, but for the lists
\* that are empty: no child comes before it is known.
SavedIsTaken ==
  saved /\ tognh = <<>> =>
    \A i \in DOMAIN gui :
      /\ gui[i].uid \in Known(allgroups)
      /\ gui[i].kids # <<>> => Range(gui[i].kids) = Range(Kids(allgroups, gui[i].uid))
      /\ gui[i].devs # {} => gui[i].devs = allgroups[At(allgroups, gui[i].uid)].devs

\* An orderly stop loses nothing of any group.
StopKeepsAll ==
  Stop => \A i \in DOMAIN allgroups :
            LET g == allgroups[i]
            IN g.uid \in Known(allgroups') /\ Range(g.kids) \subseteq Range(Kids(allgroups', g.uid))
=============================================================================
