---------------------------- MODULE FileHistory ----------------------------
(***************************************************************************)
(* What the application promises about the timeline of a document: it only *)
(* grows, one version at a time. A version of live content differs from    *)
(* the one before; a document that is gone has exactly one tombstone,      *)
(* which still names the content to recover.                               *)
(***************************************************************************)
EXTENDS Naturals, Sequences

CONSTANTS Files,       (* identities of documents                            *)
          Paths,       (* where they may live                                *)
          Contents,    (* what they may say                                  *)
          Nothing      (* the content of a document never read               *)

VARIABLE timeline

(* What the document said last: a tombstone repeats it.                    *)
LastContent(f) ==
    IF timeline[f] = <<>> THEN Nothing ELSE timeline[f][Len(timeline[f])].content

Gone(f) == timeline[f] = <<>> \/ timeline[f][Len(timeline[f])].kind = "delete"

Entombed(f) == Gone(f) /\ timeline[f] # <<>>

Add(f, kind, content, p) ==
    timeline' = [timeline EXCEPT ![f] =
                    Append(@, [kind |-> kind, content |-> content, path |-> p])]

Init == timeline = [f \in Files |-> <<>>]

(* The document is seen for the first time, or again.                      *)
Appear(f, c, p) == Gone(f) /\ \E kind \in {"baseline", "create"} :
                                 /\ kind = "baseline" => ~Entombed(f)
                                 /\ Add(f, kind, c, p)

Change(f, c, p) == ~Gone(f) /\ c # LastContent(f) /\ Add(f, "modify", c, p)

Move(f, c, p) == Add(f, "rename", c, p)

Vanish(f, p) == ~Entombed(f) /\ Add(f, "delete", LastContent(f), p)

Next == \E f \in Files, p \in Paths :
            \/ Vanish(f, p)
            \/ \E c \in Contents : Appear(f, c, p) \/ Change(f, c, p) \/ Move(f, c, p)

Spec == Init /\ [][Next]_timeline
=============================================================================
