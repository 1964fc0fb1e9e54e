--------------------------- MODULE MCDriverFactory ---------------------------
(***************************************************************************)
(* Checks drivers.Create over every source configuration built from a     *)
(* small alphabet.  Each state of this specification is one input: cfg     *)
(* ranges over all configurations, so an invariant is checked for every    *)
(* one of them.                                                            *)
(***************************************************************************)
EXTENDS DriverFactory

\* The source is named "s"; "u" is a type with no constructor; collection
\* "b" of type "s" has a failing constructor.  Names of structured
\* collections include "" (an absent or non-string name field); the names
\* a bare string may carry are the constant StrNames, so that a run can
\* leave the bare empty string out or put it in.
CONSTANT StrNames

SourceName == "s"
MCRegistered == {"s"}
MCCtorFails  == {<<"s", "b">>}

PassStrNames == {"a", "b"}
AllStrNames  == {"", "a", "b"}

Entries ==
  {Entry("str", n, "") : n \in StrNames}
  \cup {Entry("map", n, t) : n \in {"", "a", "b"}, t \in {"", "t"}}
  \cup {Entry("other", "", "")}

EntrySeqs == {<< >>} \cup {<<e>> : e \in Entries} \cup {<<e, f>> : e, f \in Entries}

Configs == {SourceConfig(t, d, c) : t \in {"", "s", "u"},
                                    d \in {{}, {"d1"}},
                                    c \in EntrySeqs}

VARIABLE cfg

Init == cfg \in Configs
Next == cfg' \in Configs
Spec == Init /\ [][Next]_cfg

-----------------------------------------------------------------------------
(* Reference: the contract of the Driver Factory in spec.md 3, 4.2 and 7,  *)
(* written from the spec and not from Create.  The outcome is one of the   *)
(* error kinds of spec.md 7, decided in the order 4.2 gives: validation of *)
(* the normalised entries, collections and destinations first, then the   *)
(* constructor lookup, then the constructor calls.  A collection is a      *)
(* bare name or an object with a name; any other value is not a collection *)
(* and counts as a ValidationError, like a missing name.                   *)
(***************************************************************************)
\* The name a collection entry carries ("" when it has none).
NameOf(e) == IF e.kind = "other" THEN "" ELSE e.name

\* spec.md 3: a collection's type defaults to its name.
DeclaredType(e) == IF e.kind = "map" /\ e.type # "" THEN e.type ELSE e.name

\* The spec's kind of each error Create returns.
SpecKind(err) ==
  CASE err \in {"CollectionsFormat", "NoCollectionName",
                "EmptyCollections", "EmptyDestinations"} -> "ValidationError"
    [] err = "UnknownSourceType"                        -> "UnknownSourceType"
    [] err = "DriverCreation"                           -> "DriverCreationError"
    [] OTHER                                            -> "none"

SpecOutcome(name, c) ==
  LET t  == IF c.type = "" THEN name ELSE c.type
      es == c.collections
  IN CASE \/ \E i \in DOMAIN es : es[i].kind = "other" \/ NameOf(es[i]) = ""
          \/ es = << >>
          \/ c.destinations = {}                       -> "ValidationError"
       [] t \notin MCRegistered                        -> "UnknownSourceType"
       [] \E i \in DOMAIN es : <<t, es[i].name>> \in MCCtorFails
                                                       -> "DriverCreationError"
       [] OTHER                                        -> "none"

\* Create fails with the kind of error spec.md 4.2 prescribes for the
\* configuration, a missing collection name included, so the order of its
\* checks and its early return from the collection loop decide which error
\* a configuration with several faults gets; when it succeeds it yields one
\* driver per configured collection name, built for a type that an entry
\* of that name declares (or defaults to).
CreateMatchesSpec ==
  LET r  == Create(SourceName, cfg)
      es == cfg.collections
  IN /\ SpecKind(r.err) = SpecOutcome(SourceName, cfg)
     /\ r.err = "none" =>
          /\ DOMAIN r.drivers = {es[i].name : i \in DOMAIN es}
          /\ \A n \in DOMAIN r.drivers :
               \E i \in DOMAIN es : es[i].name = n /\ r.drivers[n] = DeclaredType(es[i])

=============================================================================
