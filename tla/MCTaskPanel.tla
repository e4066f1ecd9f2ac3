----------------------------- MODULE MCTaskPanel -----------------------------
(***************************************************************************)
(* TaskPanel on small instances, of four kinds: changes, connections and   *)
(* fetches that fail while the board is open; pages that are left and      *)
(* opened again, over one connection; a title that is typed on a board     *)
(* that stays open; another user who types while nothing changes.          *)
(***************************************************************************)
EXTENDS TaskPanel

Kind == {"changes", "pages", "title", "typing"}

VARIABLE kind  \* never changes

MCInit == PanelInit /\ kind \in Kind

MCNext ==
  /\ PanelNext /\ kind' = kind
  /\ kind # "title" => ~typed'
  /\ kind # "typing" => UNCHANGED other
  /\ kind = "typing" => db' = db /\ opened' \subseteq {"board"}
  /\ kind \in {"changes", "title"} => ("board" \in opened => "board" \in opened')
  /\ kind \in {"pages", "title"} => (conn => conn')
  /\ kind # "changes" => ~\E q \in Queries : missed'[q] = "fetch failed"

MCSpec == MCInit /\ [][MCNext]_<<panel, kind>>
=============================================================================
