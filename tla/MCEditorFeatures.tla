-------------------------- MODULE MCEditorFeatures --------------------------
(* Workspaces of two files for the checks of EditorFeatures. *)
EXTENDS EditorFeatures, Programs

MCUris == {"a", "b", "w"}

\* "broken" does not parse; nor does "dotted", a text that ends a line in ".".
MCAst ==
    [kinds |-> Kinds, broken |-> None, dotted |-> None, empty |-> Unit(100, <<>>),
     derived |-> Derived, alone |-> Alone, doctored |-> Doctored3,
     super |-> Super, moved |-> Moved,
     mutualA |-> Mutual("A", "B", "w"), mutualB |-> Mutual("B", "A", "a"),
     aliased |-> Aliased("w"), two |-> Two, siblings |-> Siblings]
MCTexts == DOMAIN MCAst

MCEdits ==
    [x \in MCTexts |->
        CASE x = "derived" -> {"alone", "dotted"}
          [] x = "dotted" -> {"derived"}
          [] x = "super" -> {"moved"}
          [] x = "kinds" -> {"broken"}
          [] x = "two" -> {"super"}
          [] OTHER -> {}]
MCDoctored == [x \in {"dotted"} |-> "doctored"]

Linked == {[a |-> "derived", b |-> "super"]}
Circular == {[a |-> "mutualA", w |-> "mutualB"]}
Alias == {[a |-> "aliased", w |-> "two"], [a |-> "aliased"]}
Single == {[b |-> "kinds"], [a |-> "siblings"]}
All == Linked \cup Circular \cup Alias \cup Single
=============================================================================
