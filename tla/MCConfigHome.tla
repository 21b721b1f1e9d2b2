----------------------------- MODULE MCConfigHome -----------------------------
(* ~/.config with a configured directory that has another in it, one that   *)
(* is to be associated, one to be archived, and a link that leads out of    *)
(* it; a second link, inside the configured directory, is not to be         *)
(* followed.                                                                *)
EXTENDS ConfigHome, TLC

CONSTANTS home, archive, kept, nested, tool, stray, out, far, link, deep, s1, s2

MCNames == {"config", "archive", "kept", "nested", "tool", "stray", "link", "deep",
            "out", "far", "stamped"}

In(n) == <<"config", n>>
InKept(n) == <<"config", "kept", n>>

MCConfigDir == <<"config">>
MCArchive == In("archive")
MCRoots == <<MCConfigDir>>
MCDeployed == {InKept("nested")}

MCTarget == (link :> <<"out">>) @@ (deep :> <<"far">>)

MCFirstAt ==
    (home :> MCConfigDir) @@ (archive :> MCArchive) @@ (kept :> In("kept"))
    @@ (nested :> InKept("nested")) @@ (tool :> In("tool"))
    @@ (stray :> In("stray")) @@ (out :> <<"out">>) @@ (far :> <<"far">>)
    @@ (link :> In("link")) @@ (deep :> InKept("deep"))

(* A directory changes trees; another, the archive and a link come and go.  *)
MCSpots ==
    [n \in Nodes |->
        IF n = nested THEN {InKept("nested"), <<"config", "tool", "nested">>}
        ELSE IF n \in {archive, stray, link} THEN {MCFirstAt[n], Gone}
        ELSE {}]

MCOwnerNames == [n \in {"archive", "kept", "tool", "stray", "link"} |-> <<n>>]
MCInstalled == {"tool", "link"}
MCStamped == [n \in MCNames |-> "stamped"]

ASSUME HomeAssumption == LinksElsewhere
=============================================================================
