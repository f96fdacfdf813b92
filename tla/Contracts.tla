----------------------------- MODULE Contracts -----------------------------
(***************************************************************************)
(* Capability contracts (capabilities/keys.py): versions, specifiers, the  *)
(* contract generation a requirement pins, and what a requirement accepts. *)
(* A version is a number: its major is the generation, its remainder       *)
(* stands for the whole release suffix (minor and micro).                  *)
(***************************************************************************)
EXTENDS Integers, FiniteSetsExt

Step == 10                     \* releases of one major, a bound of the encoding
Major(version) == version \div Step
Minor(version) == version % Step

Agnostic == -1                 \* api_version "": any generation

\* A specifier is a set of clauses [op, version], as a SpecifierSet is.
Clause(op, version) == [op |-> op, version |-> version]
Operators == {">=", ">", "<", "<=", "==", "!=", "~="}

Admits(clause, v) ==
  CASE clause.op = ">=" -> v >= clause.version
    [] clause.op = ">"  -> v > clause.version
    [] clause.op = "<"  -> v < clause.version
    [] clause.op = "<=" -> v <= clause.version
    [] clause.op = "==" -> v = clause.version
    [] clause.op = "!=" -> v # clause.version
    \* "~=", the compatible release: not below it and not past its major
    [] OTHER -> v >= clause.version /\ Major(v) = Major(clause.version)

Includes(specifier, v) == \A clause \in specifier : Admits(clause, v)

Bounds(specifier, ops) == {c.version : c \in {d \in specifier : d.op \in ops}}

\* The major an upper bound still reaches: "<2.0" stops below major 2.
CeilingMajor(op, version) ==
  IF op = "<" /\ Minor(version) = 0 THEN Major(version) - 1 ELSE Major(version)

\* The contract generation a specifier proves, Agnostic when it proves none.
SpecifierMajor(specifier) ==
  LET pinned == Bounds(specifier, {"==", "~="})
      lower == Bounds(specifier, {">=", ">"})
      upper == {c \in specifier : c.op \in {"<", "<="}}
      ceiling == CHOOSE c \in upper : \A d \in upper : c.version <= d.version
  IN CASE pinned # {} -> Major(Min(pinned))
       [] pinned = {} /\ (lower = {} \/ upper = {}) -> Agnostic
       [] OTHER -> IF Major(Max(lower)) = CeilingMajor(ceiling.op, ceiling.version)
                   THEN Major(Max(lower)) ELSE Agnostic

\* CapabilityRequirement.parse: the generation is derived from the specifier.
Requirement(cap, specifier, optional) ==
  [cap |-> cap, generation |-> SpecifierMajor(specifier),
   specifier |-> specifier, optional |-> optional]

\* What parse returns: the generation of a requirement is never chosen apart
\* from its specifier.
WellFormed(requirement) ==
  /\ requirement.specifier \subseteq [op : Operators, version : Nat]
  /\ IsFiniteSet(requirement.specifier)
  /\ requirement.generation = SpecifierMajor(requirement.specifier)

\* CapabilityRequirement.accepts, for a provider of cap at version; the key's
\* generation is the version's major (CapabilityKey.from_version).
Accepts(requirement, cap, version) ==
  /\ cap = requirement.cap
  /\ requirement.generation \in {Agnostic, Major(version)}
  /\ Includes(requirement.specifier, version)
=============================================================================
