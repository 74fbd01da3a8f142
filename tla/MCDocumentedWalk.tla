--------------------------- MODULE MCDocumentedWalk ---------------------------
(***************************************************************************)
(* The instance of DocumentedWalk TLC checks: every override, alone and    *)
(* with one of those that others depend on, or on the way of a POST that   *)
(* creates.                                                                *)
(***************************************************************************)
EXTENDS DocumentedWalk

AllMethods == KNOWN_METHODS
Enabling == {"resource_exists", "generate_etag", "process_post", "apply", "PRODUCES"}
Pairs    == {{a, b} : a \in Callbacks \cup Declarations, b \in Enabling}

\* A POST reaches apply only where it creates, at a path the resource names.
Creating == {{"post_is_create", "create_path", "apply", a} : a \in Callbacks \cup Declarations}
Resources == Pairs \cup Creating
=============================================================================
