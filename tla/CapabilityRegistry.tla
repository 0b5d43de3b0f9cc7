-------------------------- MODULE CapabilityRegistry --------------------------
(***************************************************************************)
(* The registry of versioned capabilities as a value: the capabilities it  *)
(* holds and the keys that have a handler.  A version is known by its      *)
(* place in the order of versions; 0 asks for none in particular.          *)
(***************************************************************************)
EXTENDS Integers, FiniteSets, Sequences

Key(c) == <<c.name, c.version>>

\* get: the version asked for, or the highest enabled one; nothing stands for KeyError.
Get(caps, name, version) ==
    LET found == {c \in caps : c.name = name /\ c.enabled /\ (version # 0 => c.version = version)}
    IN  {c \in found : \A d \in found : d.version <= c.version}

\* bind_handler raises for a capability that is missing, disabled or bound already.
MayBind(caps, handlers, name, version) ==
    \E c \in Get(caps, name, version) : Key(c) \notin handlers

\* _metadata_matches and the tokens of the goal; a goal without tokens matches all.
Answers(c, query) ==
    /\ c.enabled
    /\ query.type \in {"any", c.type}
    /\ query.metadata \subseteq c.metadata
    /\ query.words = {} \/ query.words \cap c.words # {}

\* resolve: by name, and then whatever get returns for that name.
Resolve(caps, query) ==
    UNION {Get(caps, name, query.version) : name \in {c.name : c \in {d \in caps : Answers(d, query)}}}

================================================================================
