---------------------------- MODULE DriverFactory ----------------------------
(***************************************************************************)
(* drivers.Create (src/drivers/factory.go): turns one SourceConfig into a  *)
(* map collectionName -> Driver, or an error.  It is a pure function of    *)
(* the configuration and of the registered constructors, so it is modelled *)
(* as an operator.  Strings are kept only where the code tests them: the   *)
(* empty string "" stands for an absent or non-string field (this is what  *)
(* getStringParameter returns in both cases).  A Driver is abstracted to   *)
(* the collection type its constructor was called with; table names and    *)
(* parameters do not influence any control decision and are left out.      *)
(***************************************************************************)
EXTENDS Naturals, Sequences, FiniteSets, FiniteSetsExt

CONSTANTS
  Registered,  \* source types that have a constructor (RegisterDriverConstructor)
  CtorFails    \* pairs <<sourceType, collectionName>> whose constructor returns an error

\* One element of SourceConfig.Collections, after YAML/JSON decoding:
\*   kind "str"   : a bare string (the collection name)
\*   kind "map"   : a structured collection {name, type, ...}
\*   kind "other" : any other decoded value (number, list, ...)
\* Unused fields are "".
Entry(k, n, t) == [kind |-> k, name |-> n, type |-> t]

\* A source configuration: type ("" when not set), set of destination ids,
\* and the sequence of collection entries.
SourceConfig(t, d, c) == [type |-> t, destinations |-> d, collections |-> c]

Ok(drivers)   == [err |-> "none", drivers |-> drivers]
Err(kind)     == [err |-> kind, drivers |-> << >>]

\* The switch over collection.(type) in the loop of Create: a bare string
\* becomes {Name: s, Type: s}; a map needs a non-empty name and defaults its
\* type to the name.
CollectionError(e) ==
  CASE e.kind = "other"                 -> "CollectionsFormat"
    [] e.kind = "map" /\ e.name = ""    -> "NoCollectionName"
    [] OTHER                            -> "none"

NormalizeCollection(e) ==
  [name |-> e.name,
   type |-> IF e.kind = "map" /\ e.type # "" THEN e.type ELSE e.name]

\* Mutant of Create: the constructor is looked up before the collection
\* list and the destinations are validated.
CreateResolvesTypeFirst(name, cfg) ==
  LET type    == IF cfg.type = "" THEN name ELSE cfg.type
      entries == cfg.collections
      bad     == {i \in DOMAIN entries : CollectionError(entries[i]) # "none"}
      cols    == [i \in DOMAIN entries |-> NormalizeCollection(entries[i])]
      names   == {cols[i].name : i \in DOMAIN cols}
      lastOf(n) == Max({i \in DOMAIN cols : cols[i].name = n})
  IN CASE type \notin Registered    -> Err("UnknownSourceType")
       [] bad # {}                  -> Err(CollectionError(entries[Min(bad)]))
       [] Len(entries) = 0          -> Err("EmptyCollections")
       [] cfg.destinations = {}     -> Err("EmptyDestinations")
       [] \E n \in names : <<type, n>> \in CtorFails -> Err("DriverCreation")
       [] OTHER -> Ok([n \in names |-> cols[lastOf(n)].type])

\* drivers.Create.  The loop over Collections returns at the first bad entry;
\* only then are the emptiness checks, the constructor lookup and the
\* constructor calls made, in this order.  driverPerCollection is a map
\* keyed by name, so a later collection with the same name replaces an
\* earlier one.
Create(name, cfg) ==
  LET type    == IF cfg.type = "" THEN name ELSE cfg.type
      entries == cfg.collections
      bad     == {i \in DOMAIN entries : CollectionError(entries[i]) # "none"}
      cols    == [i \in DOMAIN entries |-> NormalizeCollection(entries[i])]
      names   == {cols[i].name : i \in DOMAIN cols}
      lastOf(n) == Max({i \in DOMAIN cols : cols[i].name = n})
  IN CASE bad # {}                  -> Err(CollectionError(entries[Min(bad)]))
       [] Len(entries) = 0          -> Err("EmptyCollections")
       [] cfg.destinations = {}     -> Err("EmptyDestinations")
       [] type \notin Registered    -> Err("UnknownSourceType")
       [] \E n \in names : <<type, n>> \in CtorFails -> Err("DriverCreation")
       [] OTHER -> Ok([n \in names |-> cols[lastOf(n)].type])

=============================================================================
