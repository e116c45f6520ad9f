------------------------------- MODULE Frame -------------------------------
(***************************************************************************)
(* layouts/BasicLayout.vue: the frame around the views, with its menu in a *)
(* sider on wide screens and in a drawer on narrow ones, and the version   *)
(* asked for once.  The browser tells of a change of the viewport later    *)
(* than it happens, and the route changes after the click that asks for    *)
(* it.                                                                     *)
(***************************************************************************)
EXTENDS View

\* The keys of the two menus, which are names of routes.
MenuKeys == {"Overview", "Stats", "LoginTake", "Accounts", "Bans", "Models", "Proxy", "Logs", "Experimental"}

Versions == {"unknown", "known"}

(* srv.narrow is the viewport, ui.narrow what the frame was told.  A drawer *)
(* exists on a narrow screen only, so none may be open on a wide one, or it *)
(* would come back with the next narrow screen.                             *)
TypeOK ==
  /\ CallsOK /\ srv.narrow \in BOOLEAN
  /\ ui.mounted => /\ ui.narrow \in BOOLEAN /\ ui.drawer \in BOOLEAN /\ (ui.drawer => ui.narrow)
                   /\ ui.route \in MenuKeys /\ ui.going \in MenuKeys \union {Nothing}
                   /\ ui.version \in Versions

(* onMounted *)
Init ==
  /\ srv \in [narrow : BOOLEAN]
  /\ ui = [mounted |-> TRUE, ticking |-> FALSE, busy |-> {}, narrow |-> srv.narrow, drawer |-> FALSE,
           route |-> "Overview", going |-> Nothing, version |-> "unknown"]
  /\ calls = Sending({}, "load", NoArg)

-----------------------------------------------------------------------------
SyncViewportKeeping == [ui EXCEPT !.narrow = srv.narrow]
SyncViewport == [ui EXCEPT !.narrow = srv.narrow, !.drawer = @ /\ srv.narrow]

Elsewhere == \E n \in BOOLEAN : n # srv.narrow /\ srv' = [narrow |-> n] /\ UNCHANGED <<ui, calls>>
ViewportTold == ui.mounted /\ ui.narrow # srv.narrow /\ ui' = SyncViewport /\ UNCHANGED <<srv, calls>>

\* The button of the top bar; the mask behind the drawer.
OpenDrawer == ui.mounted /\ ui.narrow /\ ~ui.drawer /\ ui' = [ui EXCEPT !.drawer = TRUE] /\ UNCHANGED <<srv, calls>>
CloseDrawer == ui.mounted /\ ui.drawer /\ ui' = [ui EXCEPT !.drawer = FALSE] /\ UNCHANGED <<srv, calls>>

\* A menu is in the sider or in the open drawer.
OnSelect(k) ==
  /\ ui.mounted /\ (ui.narrow => ui.drawer)
  /\ ui' = [ui EXCEPT !.going = k, !.drawer = FALSE] /\ UNCHANGED <<srv, calls>>

\* The router is there; the watch on the route closes the drawer again.
Navigated ==
  /\ ui.mounted /\ ui.going # Nothing
  /\ ui' = [ui EXCEPT !.route = ui.going, !.going = Nothing, !.drawer = @ /\ ui.going = ui.route]
  /\ UNCHANGED <<srv, calls>>

\* The frame is gone once the router has replaced it by the login.
OnLogout == ui.mounted /\ (ui.narrow => ui.drawer) /\ ui' = Left /\ UNCHANGED <<srv, calls>>

Serve(c) == Unserved(c) /\ calls' = Replied(c, Nothing) /\ UNCHANGED <<srv, ui>>
Answered(c) == Heard(c) /\ Shows([ui EXCEPT !.version = "known"]) /\ calls' = calls \ {c} /\ UNCHANGED srv
Fails(c) == calls' = GivenUp(c) /\ UNCHANGED <<srv, ui>>

-----------------------------------------------------------------------------
Step(i) == \E c \in calls : c.id = i /\ (Serve(c) \/ Answered(c))
Operator == OpenDrawer \/ CloseDrawer \/ OnLogout \/ \E k \in MenuKeys : OnSelect(k)
Faults == \E c \in calls : Fails(c)
Next == Operator \/ ViewportTold \/ Navigated \/ Elsewhere \/ Faults \/ \E i \in Slots : Step(i)
Spec == Init /\ [][Next]_vars
=============================================================================
