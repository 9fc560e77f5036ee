------------------------------ MODULE ZoneList ------------------------------
(***************************************************************************)
(* The zones of one CGNSBase_t: the nodes in the file, the array           *)
(* base->zone that mirrors them in memory, and the lazily built            *)
(* base->zonemap that finds a zone of the array by name.  Operations:      *)
(* cg_open / cg_close of the file, cg_zone_write and cg_delete_node at the *)
(* base (src/src/cgnslib.c).  cg_particle_write and base->pzonemap are the *)
(* same code over base->pzone.                                             *)
(***************************************************************************)
EXTENDS HashMap

CONSTANTS Order,        \* the names in strcmp order
          Others        \* names of children of the base that are not zones

ASSUME OrderAssumption ==
    Order \in Seq(Key) /\ Range(Order) = Key /\ IsInjective(Order) /\ Others \subseteq Key

VARIABLES
    mode,       \* cg->mode: "closed", "write" or "modify"
    file,       \* the children of the base in the file: name -> [id, label]
    zone,       \* base->zone, the whole allocation: nzones may be shorter
    nzones,
    zonemap,    \* base->zonemap, NULL until the first cg_zone_write
    result      \* of the last call, when it was cg_zone_write: the name, whether
                \* it succeeded, Z, and the name that the element had before

vars == <<mode, file, zone, nzones, zonemap, result>>

ZoneLabel == "Zone_t"
NoNode == 0

IsZone(name) == name \in DOMAIN file /\ file[name].label = ZoneLabel
ZoneNamed(name) == \E i \in 1 .. nzones : zone[i].name = name

\* Node ids are compared for equality only.  Each name has two, so that a new
\* node never has the id of one that the file or the array still holds.
FreshId(name) ==
    LET held == {file[n].id : n \in DOMAIN file} \cup {zone[i].id : i \in DOMAIN zone}
        own  == CHOOSE i \in DOMAIN Order : Order[i] = name
    IN  IF own \notin held THEN own ELSE own + Len(Order)

\* cgi_new_node: cgio_create_node refuses a name the parent already has.
WithNode(f, name, id) ==
    [n \in DOMAIN f \cup {name} |->
        IF n = name THEN [id |-> id, label |-> ZoneLabel] ELSE f[n]]
WithoutNode(f, name) == [n \in DOMAIN f \ {name} |-> f[n]]

Written(name, ok, Z) == [name |-> name, ok |-> ok, Z |-> Z, was |-> name]
NoResult == Written(NoKey, FALSE, 0)

\* cgi_read_base: the zones of the file in name order.
ZonesInFile ==
    LET read[k \in 0 .. Len(Order)] ==
            IF k = 0 THEN <<>>
            ELSE IF IsZone(Order[k]) THEN Append(read[k - 1], Order[k])
            ELSE read[k - 1]
    IN  read[Len(Order)]

Open(m) ==
    /\ mode = "closed"
    /\ mode' = m
    /\ IF m = "write"
       THEN /\ file' = [n \in {} |-> 0]
            /\ zone' = <<>>
            /\ nzones' = 0
       ELSE /\ file' = file
            /\ zone' = [i \in DOMAIN ZonesInFile |->
                         [name |-> ZonesInFile[i], id |-> file[ZonesInFile[i]].id]]
            /\ nzones' = Len(ZonesInFile)
    /\ result' = NoResult
    /\ UNCHANGED zonemap

\* cg_close: cgi_free_base clears and frees the map.
Close ==
    /\ mode # "closed"
    /\ mode' = "closed"
    /\ zone' = <<>> /\ nzones' = 0 /\ zonemap' = NULL
    /\ result' = NoResult
    /\ UNCHANGED file

\* A child of the base that is not a zone, such as a Family_t.
WriteOther(name) ==
    /\ mode # "closed"
    /\ name \notin DOMAIN file
    /\ file' = [WithNode(file, name, FreshId(name)) EXCEPT ![name].label = "Family_t"]
    /\ result' = NoResult
    /\ UNCHANGED <<mode, zone, nzones, zonemap>>

----------------------------------------------------------------------------
\* cg_zone_write, first part: the map is built on first use, presized for the
\* zones there are, and filled in array order.
BuiltMap ==
    IF zonemap # NULL THEN zonemap
    ELSE LET built[k \in 0 .. nzones] ==
                 IF k = 0 THEN NewPresized(nzones)
                 ELSE SetItem(built[k - 1], zone[k].name, k - 1)
         IN  built[nzones]

\* Mutant: the array is not made longer.
GrownZoneTooShort(name, id) == [i \in 1 .. nzones |-> zone[i]]

\* CGNS_RENEW to nzones + 1 elements; the new one is cleared.
GrownZone(name, id) ==
    [i \in 1 .. nzones + 1 |->
        IF i <= nzones THEN zone[i] ELSE [name |-> name, id |-> id]]

\* Mutant: the name is put into the map with the number the caller is given.
AddZoneOffByOne(name) ==
    LET id == IF name \in DOMAIN file THEN NoNode ELSE FreshId(name)
    IN  /\ GetItem(BuiltMap, name) = -1
        /\ zonemap' = SetItem(BuiltMap, name, nzones + 1)
        /\ zone' = GrownZone(name, id)
        /\ nzones' = nzones + 1
        /\ file' = IF id = NoNode THEN file ELSE WithNode(file, name, id)
        /\ result' = Written(name, id # NoNode, nzones + 1)

\* A name the map does not know: the array, the map and nzones grow before the
\* node is made, and stay grown when the file refuses it.  That the file takes the
\* node and then refuses its label or data, so that a node without them stays in the
\* file (cgi_new_node), is left out.
AddZone(name) ==
    LET id == IF name \in DOMAIN file THEN NoNode ELSE FreshId(name)
    IN  /\ GetItem(BuiltMap, name) = -1
        /\ zonemap' = SetItem(BuiltMap, name, nzones)
        /\ zone' = GrownZone(name, id)
        /\ nzones' = nzones + 1
        /\ file' = IF id = NoNode THEN file ELSE WithNode(file, name, id)
        /\ result' = Written(name, id # NoNode, nzones + 1)

\* A known name is an error in CG_MODE_WRITE.
RefuseZone(name) ==
    /\ GetItem(BuiltMap, name) # -1
    /\ mode = "write"
    /\ zonemap' = BuiltMap
    /\ result' = Written(name, FALSE, 0)
    /\ UNCHANGED <<zone, nzones, file>>

\* In CG_MODE_MODIFY the node of the element the map names is deleted and the
\* element is written again.  An index past the end of the allocation is an
\* out-of-bounds access, after which nothing is promised: result says so.
OverwriteZone(name) ==
    LET ix == GetItem(BuiltMap, name) + 1
    IN  /\ ix # 0
        /\ mode = "modify"
        /\ zonemap' = BuiltMap
        /\ IF ix \notin DOMAIN zone
           THEN /\ result' = [Written(name, FALSE, ix) EXCEPT !.was = NoKey]
                /\ UNCHANGED <<zone, nzones, file>>
           ELSE \/ \* cgi_delete_node fails: the element has no node
                   /\ \A n \in DOMAIN file : file[n].id # zone[ix].id
                   /\ result' = Written(name, FALSE, 0)
                   /\ UNCHANGED <<zone, nzones, file>>
                \/ \E old \in DOMAIN file :
                   /\ file[old].id = zone[ix].id
                   /\ LET rest == WithoutNode(file, old)
                          id   == IF name \in DOMAIN rest THEN NoNode ELSE FreshId(name)
                      IN  /\ file' = IF id = NoNode THEN rest
                                     ELSE WithNode(rest, name, id)
                          /\ zone' = [zone EXCEPT ![ix] = [name |-> name, id |-> id]]
                          /\ result' = [Written(name, id # NoNode, ix)
                                          EXCEPT !.was = zone[ix].name]
                   /\ UNCHANGED nzones

ZoneWrite(name) ==
    /\ mode # "closed"
    /\ AddZone(name) \/ RefuseZone(name) \/ OverwriteZone(name)
    /\ UNCHANGED mode

\* Mutant: the shift starts one element late.
DeleteZoneLate(name) ==
    /\ mode = "modify"
    /\ IsZone(name)
    /\ ZoneNamed(name)
    /\ LET ix == CHOOSE i \in 1 .. nzones :
                    zone[i].name = name /\ \A j \in 1 .. i - 1 : zone[j].name # name
       IN  zone' = IF nzones = 1 THEN <<>>
                   ELSE [i \in DOMAIN zone |->
                          IF i \in ix + 1 .. nzones - 1 THEN zone[i + 1] ELSE zone[i]]
    /\ nzones' = nzones - 1
    /\ file' = WithoutNode(file, name)
    /\ zonemap' = IF zonemap = NULL THEN NULL ELSE DelShiftItem(zonemap, name)
    /\ result' = NoResult
    /\ UNCHANGED mode

\* cg_delete_node at the base.  The element that CGNS_DELETE_SHIFT moves down
\* last is left behind, still allocated, at the old end of the array.
DeleteZone(name) ==
    /\ mode = "modify"
    /\ IsZone(name)
    /\ ZoneNamed(name)
    /\ LET ix == CHOOSE i \in 1 .. nzones :
                    zone[i].name = name /\ \A j \in 1 .. i - 1 : zone[j].name # name
       IN  zone' = IF nzones = 1 THEN <<>>
                   ELSE [i \in DOMAIN zone |->
                          IF i \in ix .. nzones - 1 THEN zone[i + 1] ELSE zone[i]]
    /\ nzones' = nzones - 1
    /\ file' = WithoutNode(file, name)
    /\ zonemap' = IF zonemap = NULL THEN NULL ELSE DelShiftItem(zonemap, name)
    /\ result' = NoResult
    /\ UNCHANGED mode

DeleteOther(name) ==
    /\ mode = "modify"
    /\ name \in DOMAIN file /\ ~ IsZone(name)
    /\ file' = WithoutNode(file, name)
    /\ result' = NoResult
    /\ UNCHANGED <<mode, zone, nzones, zonemap>>

Init ==
    /\ mode = "closed"
    /\ file = [n \in {} |-> 0]
    /\ zone = <<>> /\ nzones = 0 /\ zonemap = NULL
    /\ result = NoResult

\* A call that wrote another zone's element, or one outside the list, ends the
\* run: what later calls do to the memory it corrupted is not modelled.
Undamaged == result.was = result.name /\ result.Z <= nzones

Next ==
    /\ Undamaged
    /\ \/ \E m \in {"write", "modify"} : Open(m)
       \/ Close
       \/ \E name \in Others : WriteOther(name)
       \/ \E name \in Key : ZoneWrite(name)
       \/ \E name \in Key : DeleteZone(name)
       \/ \E name \in Key : DeleteOther(name)

Spec == Init /\ [][Next]_vars

----------------------------------------------------------------------------
\* Types: nodes are named once, base->nzones never exceeds the array base->zone
\* it counts.
TypeOK ==
    /\ mode \in {"closed", "write", "modify"}
    /\ DOMAIN file \subseteq Key
    /\ \A n \in DOMAIN file :
          file[n] \in [id : Nat \ {NoNode}, label : {ZoneLabel, "Family_t"}]
    /\ \A i \in DOMAIN zone : zone[i] \in [name : Key, id : Nat]
    /\ nzones \in 0 .. Len(zone)

\* "keep the hash table indices in sync with the cgns_zone list"
\* (cg_hashmap.h): the map finds every zone at its own place in the array.
InSync ==
    zonemap # NULL =>
        /\ zonemap.used = nzones
        /\ \A i \in 1 .. nzones : GetItem(zonemap, zone[i].name) = i - 1

\* A map in step leads every write to the element of its own zone, or to a new one at
\* the end of the list.  And only the deletion of a zone can take the map out of step:
\* building it late, growing it through resizes, overwriting zones and failed writes
\* cannot; nor can a deletion when the room left in the entry array is at least the
\* number of entries used, so that the shift reaches them all.
MapServesUntilDeletion ==
    [][InSync =>
          /\ Undamaged'
          /\ ~ InSync' => nzones' < nzones /\ zonemap.nentries > zonemap.usable]_vars

\* Memory mirrors the file: every Zone_t node under the base is the node of
\* exactly one element of base->zone, of the same name, and the element of a
\* node the library refused to make names no node at all.
MemoryMirrorsFile ==
    mode # "closed" /\ Undamaged =>
        /\ \A n \in Key : IsZone(n) =>
              Cardinality({i \in 1 .. nzones : zone[i].id = file[n].id}) = 1
        /\ \A i \in 1 .. nzones :
              zone[i].id # NoNode =>
                  IsZone(zone[i].name) /\ file[zone[i].name].id = zone[i].id

\* "Zone index number, where 1 <= Z <= nzones" (param[out] Z of cg_zone_write):
\* a successful write returns the place of that zone in the list.
ZoneWriteReturnsTheZone ==
    result.ok =>
        /\ result.Z \in 1 .. nzones
        /\ zone[result.Z].name = result.name
============================================================================
