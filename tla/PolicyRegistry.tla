---------------------------- MODULE PolicyRegistry ----------------------------
(***************************************************************************)
(* PolicyRegistry (workflow/policy_pack.go): a hub per domain with a       *)
(* primary and a shadow pack, each with the path it is reloaded from.  A   *)
(* reload holds the registry's mutex from the lookup to the store, reading *)
(* the file included; requests load the pack pointer.                      *)
(*                                                                         *)
(* A pack is its version and the path it came from; a file holds a version *)
(* or cannot be read or parsed.                                            *)
(***************************************************************************)
EXTENDS Naturals

CONSTANTS
    Known,      \* the domains NewPolicyRegistry sets up
    Unknown,    \* other names an admin may send
    Paths, Versions,
    HomePath,   \* HomePath[d][slot]: configured path, NoPath if none
    NoPath

Slots == {"primary", "shadow"}
Targets == Slots \cup {"typo"}
Broken == "broken"
Embedded == "embedded"
Names == Known \cup Unknown

ASSUME RegistryAssumption ==
    /\ Known \cap Unknown = {}
    /\ NoPath \notin Paths
    /\ Broken \notin Versions /\ Embedded \notin Versions
    /\ HomePath \in [Known -> [Slots -> Paths \cup {NoPath}]]

VARIABLES
    file,   \* file[path]: a version or Broken
    hubs    \* the map: domain to hub

registry == <<file, hubs>>

NoPack == [version |-> "none", source |-> NoPath]
EmbeddedPack == [version |-> Embedded, source |-> NoPath]
Packs == {NoPack, EmbeddedPack} \cup [version : Versions, source : Paths]
Hubs == [Slots -> [pack : Packs, path : Paths \cup {NoPath}]]

(* domainHub{}: no pack, no path. *)
EmptyHub == [s \in Slots |-> [pack |-> NoPack, path |-> NoPath]]

(* LoadPolicyPack. *)
Loads(path) == path \in Paths /\ file[path] # Broken
LoadedPack(path) == [version |-> file[path], source |-> path]

(* NewPolicyRegistry: the embedded pack, replaced by the configured one if *)
(* it loads; a shadow only if it loads.  The paths stay configured.        *)
NewHub(d) ==
    [s \in Slots |->
        [path |-> HomePath[d][s],
         pack |-> IF Loads(HomePath[d][s]) THEN LoadedPack(HomePath[d][s])
                  ELSE IF s = "primary" THEN EmbeddedPack ELSE NoPack]]

RInit ==
    /\ file \in [Paths -> Versions \cup {Broken}]
    /\ hubs = [d \in Known |-> NewHub(d)]

(* Any target but "shadow" means the primary pack. *)
SlotOf(target) == IF target = "shadow" THEN "shadow" ELSE "primary"

HubOf(d) == IF d \in DOMAIN hubs THEN hubs[d] ELSE EmptyHub

PathFor(d, target, path) == IF path = NoPath THEN HubOf(d)[SlotOf(target)].path ELSE path

WithHub(d, h) == [n \in DOMAIN hubs \cup {d} |-> IF n = d THEN h ELSE hubs[n]]

(* Variant: the path is kept before the file is read.                      *)
ReloadKeepsPath(d, target, path) ==
    LET from == PathFor(d, target, path)
        kept == [HubOf(d) EXCEPT ![SlotOf(target)].path = from]
    IN /\ hubs' = WithHub(d, IF Loads(from)
                             THEN [kept EXCEPT ![SlotOf(target)].pack = LoadedPack(from)]
                             ELSE kept)
       /\ UNCHANGED file

(* Reload.  For a name without a hub an empty one is entered first, and    *)
(* stays when the file does not load.                                      *)
Reload(d, target, path) ==
    LET from == PathFor(d, target, path)
    IN /\ hubs' = WithHub(d, IF Loads(from)
                             THEN [HubOf(d) EXCEPT ![SlotOf(target)] =
                                      [pack |-> LoadedPack(from), path |-> from]]
                             ELSE HubOf(d))
       /\ UNCHANGED file

(* An operator edits a policy file (external). *)
EditFile(path) ==
    /\ \E content \in Versions \cup {Broken} :
        /\ content # file[path]
        /\ file' = [file EXCEPT ![path] = content]
    /\ UNCHANGED hubs

(* Primary of a domain that has a hub. *)
Primary(d) == hubs[d]["primary"].pack
=============================================================================
