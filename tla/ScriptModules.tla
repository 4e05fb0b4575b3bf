---------------------------- MODULE ScriptModules ---------------------------
(***************************************************************************)
(* One script and the classes it can use (script_class.cpp): loadModule,   *)
(* loadSource, require() with its cache of evaluated modules, and the      *)
(* unpacking of class instances from msgpack, which uses the same cache.   *)
(* Dissector and filter threads load the modules before the source, the    *)
(* stream thread loads them after it (dispatcher.cpp).                     *)
(*                                                                         *)
(* A source is what it requires, in any order, and whether it exports a    *)
(* function; no source catches what a require() throws.                    *)
(***************************************************************************)
EXTENDS Integers, Sequences, FiniteSets

CONSTANTS
    Names,       \* the names scripts require
    MaxDepth     \* nested require() calls before the stack overflows

Nothing == "nothing"
Script  == "the script"   \* the frame of the script itself

\* The stack has room for every module once.
ASSUME DepthAssumption ==
    /\ IsFiniteSet(Names) /\ {Nothing, Script} \cap Names = {}
    /\ MaxDepth \in Nat /\ Cardinality(Names) < MaxDepth

VARIABLES
    requires,    \* the names each module requires
    exporting,   \* the modules that export a function
    registered,  \* the modules given to load_module
    wants,       \* the names the script requires
    streaming,   \* it is a stream script: source first
    phase,       \* start, loading, ready or failed
    modules,     \* ScriptClass::Private::modules, compiled
    cache,       \* moduleChache: the names with an evaluated function
    functions,   \* how many functions each module has given
    stack,       \* the sources under evaluation, the innermost last
    unpacking,   \* the class being unpacked, or Nothing
    unpacked     \* what the last unpacking gave: Nothing while it runs, an
                 \* instance of the class or a CustomValue; the latter also
                 \* where the constructor threw

sources == <<requires, exporting, registered, wants, streaming>>
vars == <<sources, phase, modules, cache, functions, stack, unpacking, unpacked>>

Outcome(value, threw) == [value |-> value, threw |-> threw]

Frame(name, todo) == [name |-> name, todo |-> todo]

Init ==
    /\ requires \in [Names -> SUBSET Names]
    /\ exporting \in SUBSET Names
    /\ registered \in SUBSET Names
    /\ wants \in SUBSET Names
    /\ streaming \in BOOLEAN
    /\ phase = "start"
    /\ modules = {} /\ cache = {} /\ functions = [n \in Names |-> 0]
    /\ stack = <<>> /\ unpacking = Nothing /\ unpacked = Outcome(Nothing, FALSE)

-----------------------------------------------------------------------------
(* loadModule for every registered module; those that do not compile are   *)
(* not registered here.                                                    *)

LoadModules ==
    /\ modules # registered
    /\ phase = IF streaming THEN "ready" ELSE "start"
    /\ stack = <<>>
    /\ modules' = registered
    /\ UNCHANGED <<sources, phase, cache, functions, stack, unpacking, unpacked>>

LoadSource ==
    /\ phase = "start"
    /\ streaming \/ modules = registered
    /\ phase' = "loading"
    /\ stack' = <<Frame(Script, wants)>>
    /\ UNCHANGED <<sources, modules, cache, functions, unpacking, unpacked>>

-----------------------------------------------------------------------------
(* Evaluation.                                                             *)

Top == stack[Len(stack)]
Callers == SubSeq(stack, 1, Len(stack) - 1)

\* The innermost source goes on behind its require(name).
Passed(frames, name) ==
    IF frames = <<>> THEN <<>>
    ELSE [frames EXCEPT ![Len(frames)].todo = @ \ {name}]

\* Mutation: the require() that failed is tried again.
ThrowRetrying == UNCHANGED <<stack, phase, unpacking, unpacked>>

\* An exception passes every require() on its way out.
Throw ==
    /\ stack' = <<>>
    /\ phase' = IF phase = "loading" THEN "failed" ELSE phase
    /\ unpacking' = Nothing
    /\ unpacked' = IF unpacking # Nothing THEN Outcome("custom", FALSE) ELSE unpacked

\* Mutation: a module that is being evaluated is not evaluated again.
RequireOnce(name) ==
    \/ /\ name \in cache \/ \E i \in 1..Len(stack) : stack[i].name = name
       /\ stack' = Passed(stack, name)
       /\ UNCHANGED <<phase, unpacking, unpacked>>
    \/ /\ name \notin cache /\ name \in modules
       /\ \A i \in 1..Len(stack) : stack[i].name # name
       /\ stack' = Append(stack, Frame(name, requires[name]))
       /\ UNCHANGED <<phase, unpacking, unpacked>>
    \/ name \notin cache \cup modules /\ Throw

\* Mutation: nothing ends a circle.
RequireUnlimited(name) ==
    \/ /\ name \in cache
       /\ stack' = Passed(stack, name)
       /\ UNCHANGED <<phase, unpacking, unpacked>>
    \/ /\ name \notin cache /\ name \in modules
       /\ stack' = Append(stack, Frame(name, requires[name]))
       /\ UNCHANGED <<phase, unpacking, unpacked>>
    \/ name \notin cache \cup modules /\ Throw

\* require(): the cached function, or the module is run.
Require(name) ==
    \/ /\ name \in cache
       /\ stack' = Passed(stack, name)
       /\ UNCHANGED <<phase, unpacking, unpacked>>
    \/ /\ name \notin cache /\ name \in modules /\ Len(stack) < MaxDepth
       /\ stack' = Append(stack, Frame(name, requires[name]))
       /\ UNCHANGED <<phase, unpacking, unpacked>>
    \/ /\ name \notin cache
       /\ name \notin modules \/ Len(stack) >= MaxDepth
       /\ Throw

CallRequire ==
    /\ stack # <<>>
    /\ \E name \in Top.todo : Require(name)
    /\ UNCHANGED <<sources, modules, cache, functions>>

\* A module has run: its function is cached, its caller goes on.
ReturnExports ==
    /\ stack # <<>> /\ Top.name # Script /\ Top.todo = {}
    /\ \/ /\ Top.name \in exporting
          /\ cache' = cache \cup {Top.name}
          /\ functions' = [functions EXCEPT ![Top.name] = @ + 1]
          /\ stack' = Passed(Callers, Top.name)
          /\ UNCHANGED <<phase, unpacking, unpacked>>
       \/ /\ Top.name \notin exporting
          /\ Throw
          /\ UNCHANGED <<cache, functions>>
    /\ UNCHANGED <<sources, modules>>

Loaded ==
    /\ stack # <<>> /\ Top.name = Script /\ Top.todo = {}
    /\ stack' = <<>>
    /\ phase' = "ready"
    /\ UNCHANGED <<sources, modules, cache, functions, unpacking, unpacked>>

-----------------------------------------------------------------------------
(* MsgpackToV8, type 0x20, while the script runs on packets.               *)

\* Mutation: the class is found by its source, evaluated anew.
UnpackUncached(name) ==
    /\ phase = "ready" /\ stack = <<>> /\ modules = registered
    /\ unpacking = Nothing
    /\ IF name \in modules THEN stack' = <<Frame(name, requires[name])>>
                           ELSE UNCHANGED stack
    /\ unpacking' = name
    /\ unpacked' = Outcome(Nothing, FALSE)
    /\ UNCHANGED <<sources, phase, modules, cache, functions>>

\* Mutation: only a class the script has required is found.
UnpackRequired(name) ==
    /\ phase = "ready" /\ stack = <<>> /\ modules = registered
    /\ unpacking = Nothing
    /\ unpacking' = name
    /\ unpacked' = Outcome(Nothing, FALSE)
    /\ UNCHANGED <<sources, phase, modules, cache, functions, stack>>

Unpack(name) ==
    /\ phase = "ready" /\ stack = <<>> /\ modules = registered
    /\ unpacking = Nothing
    /\ IF name \in modules \ cache THEN stack' = <<Frame(name, requires[name])>>
                                   ELSE UNCHANGED stack
    /\ unpacking' = name
    /\ unpacked' = Outcome(Nothing, FALSE)
    /\ UNCHANGED <<sources, phase, modules, cache, functions>>

\* An instance, unless there is no class or its constructor throws: then the
\* value stays a CustomValue.
Construct ==
    /\ unpacking # Nothing /\ stack = <<>>
    /\ \/ unpacking \in cache /\ unpacked' = Outcome("instance", FALSE)
       \/ unpacking \in cache /\ unpacked' = Outcome("custom", TRUE)
       \/ unpacking \notin cache /\ unpacked' = Outcome("custom", FALSE)
    /\ unpacking' = Nothing
    /\ UNCHANGED <<sources, phase, modules, cache, functions, stack>>

-----------------------------------------------------------------------------
Terminated == phase = "failed" /\ UNCHANGED vars

Next == \/ LoadModules
        \/ LoadSource
        \/ CallRequire
        \/ ReturnExports
        \/ Loaded
        \/ \E name \in Names : Unpack(name)
        \/ Construct
        \/ Terminated

Spec == Init /\ [][Next]_vars

\* The thread that loads the script runs.
Fairness == /\ WF_vars(LoadModules) /\ WF_vars(LoadSource)
            /\ WF_vars(CallRequire) /\ WF_vars(ReturnExports) /\ WF_vars(Loaded)
FairSpec == Spec /\ Fairness

-----------------------------------------------------------------------------
TypeOK ==
    /\ phase \in {"start", "loading", "ready", "failed"}
    /\ modules \in SUBSET Names /\ cache \in SUBSET Names
    /\ functions \in [Names -> Nat]
    /\ stack \in Seq([name : Names \cup {Script}, todo : SUBSET Names])
    /\ Len(stack) <= MaxDepth + 1
    /\ unpacking \in Names \cup {Nothing}
    /\ unpacked \in [value : {Nothing, "instance", "custom"}, threw : BOOLEAN]

\* Names that require none but names among them.
Closed(names) == \A n \in names \cap registered : requires[n] \subseteq names

\* What a set of names reaches through the registered modules.
Reached(names) ==
    {n \in Names : \A all \in SUBSET Names : names \subseteq all /\ Closed(all) => n \in all}

\* All of them are classes, and none needs itself.
Resolvable(names) ==
    /\ Reached(names) \subseteq registered \cap exporting
    /\ \A n \in Reached(names) : n \notin Reached(requires[n])

\* A dissector or filter script loads exactly when everything it requires,
\* directly or not, is a registered class and no class needs itself; a stream
\* script only when it requires none.
LoadsIffResolvable ==
    LET ok == IF streaming THEN wants = {} ELSE Resolvable(wants)
    IN  (phase = "ready" => ok) /\ (phase = "failed" => ~ok)

\* In one script a class is one function, whether it is required, required by
\* another class or unpacked, also after evaluations that failed.
ClassIsUnique == \A n \in Names : functions[n] = (IF n \in cache THEN 1 ELSE 0)

\* A value of a class is unpacked as its instance exactly when the class can be
\* resolved, also for a stream script, and its constructor does not throw; only
\* the constructor of a class that can be resolved is run.
UnpackedRight ==
    /\ unpacked'.value = "instance" <=> Resolvable({unpacking}) /\ ~unpacked'.threw
    /\ unpacked'.threw => Resolvable({unpacking})

InstanceIffResolvable ==
    [][unpacking # Nothing /\ unpacking' = Nothing => UnpackedRight]_vars

\* Loading ends, also for classes that require each other.
LoadingEnds == <>[](phase \in {"ready", "failed"})
=============================================================================
