------------------------------- MODULE ItemTable -------------------------------
(****************************************************************************)
(* The items of MIR modules, from their declaration to the link (mir.c:        *)
(* add_item, MIR_load_module, MIR_load_external, MIR_link).                    *)
(*                                                                          *)
(* The items of a module stay in the order in which they are made. For every   *)
(* module and name the item table holds the item that stands for the name:      *)
(* the definition as soon as there is one. A definition is a function or data    *)
(* (bss, too); prototypes, which have no address, are left out. Data without a   *)
(* name are in no table: they lie in memory behind the item before them, and may  *)
(* hold the address of a named item. The environment has an item for every name   *)
(* that some loaded module exports or that is external.                          *)
(****************************************************************************)
EXTENDS Integers, Sequences, FiniteSets, FiniteSetsExt

CONSTANTS
  Modules,
  Names,
  Resolvable,  \* the names for which the program's import_resolver has an address
  DataNames,   \* the names whose definitions are data
  MaxItems,    \* bound: items of a module
  MaxAll,      \* bound: items of all modules
  Nobody,      \* no module
  Null,        \* no item, no address
  Environment, \* environment_module
  Outside      \* where external code is

ASSUME ItemAssumption ==
  /\ Resolvable \subseteq Names /\ DataNames \subseteq Names
  /\ MaxItems \in Nat /\ MaxAll \in Nat
  /\ Nobody \notin Modules /\ Environment \notin Modules

Named == {"import", "export", "forward", "definition"}
Kinds == Named \cup {"anonymous"}
Declarations == {"export", "forward"}

(* Items of a module, items of the environment, and the address of an external *)
(* thing. A definition gets the address that bears its own name, an anonymous   *)
(* item that of the head of its section, and how many items lie between.        *)
OwnItems == Modules \X (1 .. MaxItems)
EnvItems == {Environment} \X Names
Externals == {Outside} \X Names
Addresses == OwnItems \cup Externals \cup {Null}
Refs == OwnItems \cup EnvItems \cup {Null}
EnvEntries == [addr : Addresses, ref : Refs]

(* Null is no name, no item, no address and no entry of the environment.        *)
ASSUME NullAssumption ==
  Null \notin Names \cup OwnItems \cup Externals \cup EnvItems \cup EnvEntries

VARIABLES
  current,  \* curr_module
  state,    \* module -> "none", "open", "finished", "loaded", "linked"
  items,    \* module -> its items: what they are, export_p, ref_def, addr, the
            \* position of ref_item, and what reference data hold
  table,    \* module_item_tab: module and name -> position of the item, 0 for none
  env,      \* name -> the environment's item: addr, ref_def; Null when there is none
  failed    \* an error was reported: error_func ends the program

vars == <<current, state, items, table, env, failed>>

Item(kind, name, exported, ref) ==
  [kind |-> kind, name |-> name, exported |-> exported, ref |-> ref, addr |-> Null,
   offset |-> 0, target |-> 0, value |-> Null]

Init ==
  /\ current = Nobody
  /\ state = [m \in Modules |-> "none"]
  /\ items = [m \in Modules |-> <<>>]
  /\ table = [m \in Modules |-> [n \in Names |-> 0]]
  /\ env = [n \in Names |-> Null]
  /\ failed = FALSE

------------------------------------------------------------------------------
(* Making a module.                                                          *)

NewModule(m) ==
  /\ ~failed
  /\ current = Nobody
  /\ state[m] = "none"
  /\ current' = m
  /\ state' = [state EXCEPT ![m] = "open"]
  /\ UNCHANGED <<items, table, env, failed>>

FinishModule ==
  /\ ~failed
  /\ current # Nobody
  /\ state' = [state EXCEPT ![current] = "finished"]
  /\ current' = Nobody
  /\ UNCHANGED <<items, table, env, failed>>

(* The item that the table has for the name, and a new one behind the others. *)
Known(name) == table[current][name]
KnownItem(name) == items[current][Known(name)]
Next1 == Len(items[current]) + 1
Making ==
  /\ ~failed /\ current # Nobody
  /\ Len(items[current]) < MaxItems
  /\ MapThenSumSet(LAMBDA m : Len(items[m]), Modules) < MaxAll

(* A name the module does not know yet. *)
AddFirst(kind, name) ==
  /\ Known(name) = 0
  /\ items' = [items EXCEPT ![current] = Append(@, Item(kind, name, FALSE, Null))]
  /\ table' = [table EXCEPT ![current][name] = Next1]
  /\ UNCHANGED <<current, state, env, failed>>

(* Mutants: the definition does not become exported, or the table keeps the    *)
(* declaration.                                                               *)
AddDefinitionPrivate(name) ==
  /\ Known(name) # 0 /\ KnownItem(name).kind \in Declarations
  /\ items' = [items EXCEPT ![current] =
                 Append([@ EXCEPT ![Known(name)].ref = <<current, Next1>>],
                        Item("definition", name, FALSE, Null))]
  /\ table' = [table EXCEPT ![current][name] = Next1]
  /\ UNCHANGED <<current, state, env, failed>>

AddDefinitionAside(name) ==
  /\ Known(name) # 0 /\ KnownItem(name).kind \in Declarations
  /\ items' = [items EXCEPT ![current] =
                 Append([@ EXCEPT ![Known(name)].ref = <<current, Next1>>],
                        Item("definition", name, KnownItem(name).kind = "export", Null))]
  /\ UNCHANGED <<current, state, table, env, failed>>

(* The definition of a name that was exported or forwarded replaces the        *)
(* declaration in the table.                                                  *)
AddDefinition(name) ==
  /\ Known(name) # 0 /\ KnownItem(name).kind \in Declarations
  /\ items' = [items EXCEPT ![current] =
                 Append([@ EXCEPT ![Known(name)].ref = <<current, Next1>>],
                        Item("definition", name, KnownItem(name).kind = "export", Null))]
  /\ table' = [table EXCEPT ![current][name] = Next1]
  /\ UNCHANGED <<current, state, env, failed>>

(* An export replaces a forward. *)
ExportForwarded(name) ==
  /\ Known(name) # 0 /\ KnownItem(name).kind = "forward"
  /\ items' = [items EXCEPT ![current] =
                 Append([@ EXCEPT ![Known(name)].ref = <<current, Next1>>],
                        Item("export", name, FALSE, Null))]
  /\ table' = [table EXCEPT ![current][name] = Next1]
  /\ UNCHANGED <<current, state, env, failed>>

(* A forward of a name that is exported is just one more item.                 *)
ForwardExported(name) ==
  /\ Known(name) # 0 /\ KnownItem(name).kind = "export"
  /\ items' = [items EXCEPT ![current] = Append(@, Item("forward", name, FALSE, Null))]
  /\ UNCHANGED <<current, state, table, env, failed>>

(* An export or forward behind the definition refers to it; only the first     *)
(* export is kept.                                                            *)
DeclareDefined(kind, name) ==
  /\ Known(name) # 0 /\ KnownItem(name).kind = "definition"
  /\ kind = "forward" \/ (kind = "export" /\ ~KnownItem(name).exported)
  /\ items' = [items EXCEPT ![current] =
                 Append([@ EXCEPT ![Known(name)].exported = KnownItem(name).exported \/ kind = "export"],
                        Item(kind, name, FALSE, <<current, Known(name)>>))]
  /\ UNCHANGED <<current, state, table, env, failed>>

(* What is declared again is the item that is there; nothing changes.          *)
Again(kind, name) ==
  /\ Known(name) # 0
  /\ \/ kind = KnownItem(name).kind /\ kind # "definition"
     \/ kind = "export" /\ KnownItem(name).kind = "definition" /\ KnownItem(name).exported
  /\ UNCHANGED vars

(* Errors: an import of a name the module itself has, or the other way round,  *)
(* or a second definition.                                                    *)
Clash(kind, name) ==
  /\ Known(name) # 0
  /\ \/ (kind = "import") # (KnownItem(name).kind = "import")
     \/ kind = "definition" /\ KnownItem(name).kind = "definition"
  /\ failed' = TRUE
  /\ UNCHANGED <<current, state, items, table, env>>

(* Data without a name: values, or a reference to the item that stands for a     *)
(* name now, be it a declaration or the definition.                              *)
AddAnonymous ==
  /\ Making
  /\ \E target \in {0} \cup {table[current][n] : n \in Names} :
       items' = [items EXCEPT ![current] =
                   Append(@, [Item("anonymous", Null, FALSE, Null) EXCEPT !.target = target])]
  /\ UNCHANGED <<current, state, table, env, failed>>

------------------------------------------------------------------------------
(* Loading and linking.                                                      *)

Positions(m) == DOMAIN items[m]

(* setup_global: a name gets this meaning for the links to come.               *)
Global(addr, ref) == [addr |-> addr, ref |-> ref]

(* load_bss_data_section: a section goes from its head, a definition or an item  *)
(* that is not behind data, to the last of the anonymous items that follow.      *)
IsMemory(item) ==
  item.kind = "anonymous" \/ (item.kind = "definition" /\ item.name \in DataNames)

(* Mutant: a section goes on behind a function, too. *)
SectionHeadAny(m, i) ==
  Max({j \in 1 .. i : ~(/\ items[m][j].kind = "anonymous"
                        /\ j > 1 /\ items[m][j - 1].kind \in {"anonymous", "definition"})})

SectionHead(m, i) ==
  Max({j \in 1 .. i : ~(/\ items[m][j].kind = "anonymous"
                        /\ j > 1 /\ IsMemory(items[m][j - 1]))})

(* A definition or data get their address, once. *)
Addressed(m, i) ==
  LET item == items[m][i]
      head == SectionHead(m, i)
  IN IF item.kind \in {"definition", "anonymous"} /\ item.addr = Null
     THEN [item EXCEPT !.addr = <<m, head>>, !.offset = i - head]
     ELSE item

(* MIR_load_module: what is exported becomes visible in place of what was visible *)
(* under its name, also when the module is loaded again.                         *)
Load(m) ==
  /\ ~failed
  /\ state[m] \in {"finished", "loaded", "linked"}
  /\ items' = [items EXCEPT ![m] = [i \in Positions(m) |-> Addressed(m, i)]]
  /\ env' = [n \in Names |->
               LET i == table[m][n]
               IN IF i # 0 /\ items[m][i].kind = "definition" /\ items[m][i].exported
                  THEN Global(<<m, i>>, <<m, i>>)
                  ELSE env[n]]
  /\ state' = [state EXCEPT ![m] = "loaded"]
  /\ UNCHANGED <<current, table, failed>>

(* MIR_load_external, called by the program. *)
LoadExternal(n) ==
  /\ ~failed
  /\ env' = [env EXCEPT ![n] = Global(<<Outside, n>>, Null)]
  /\ UNCHANGED <<current, state, items, table, failed>>

(* modules_to_link, and the names they import that nobody has exported yet.    *)
ToLink == {m \in Modules : state[m] = "loaded"}
Missing ==
  {n \in Names : env[n] = Null /\
     \E m \in ToLink : \E i \in Positions(m) : items[m][i].kind = "import" /\ items[m][i].name = n}

(* Mutant: a declaration is bound to what it refers to already. *)
BoundByRef(m, item, e) ==
  CASE item.kind = "import" ->
         [item EXCEPT !.addr = e[item.name].addr, !.ref = <<Environment, item.name>>]
    [] item.kind \in Declarations ->
         IF item.ref = Null THEN item ELSE [item EXCEPT !.addr = items[m][item.ref[2]].addr]
    [] item.kind \in {"definition", "anonymous"} -> item

(* MIR_link, first pass, for an item of module m, with the environment e.      *)
Bound(m, item, e) ==
  CASE item.kind = "import" ->
         [item EXCEPT !.addr = e[item.name].addr, !.ref = <<Environment, item.name>>]
    [] item.kind \in Declarations ->
         LET i == table[m][item.name]
         IN [item EXCEPT !.addr = items[m][i].addr, !.ref = <<m, i>>]
    [] item.kind \in {"definition", "anonymous"} -> item

(* Mutant: what the resolver answers is not noted. *)
WithExternalsForgotten ==
  [n \in Names |-> IF n \in Missing THEN Global(Null, Null) ELSE env[n]]

(* The resolver's answers become external names of the environment.            *)
WithExternals == [n \in Names |-> IF n \in Missing THEN Global(<<Outside, n>>, Null) ELSE env[n]]

(* The second pass: reference data get the address of what they refer to.       *)
Written(list, item) == IF item.target = 0 THEN item ELSE [item EXCEPT !.value = list[item.target].addr]

(* MIR_link.                                                                 *)
Link ==
  /\ ~failed /\ ToLink # {}
  /\ Missing \subseteq Resolvable
  /\ env' = WithExternals
  /\ items' = [m \in Modules |->
                 IF m \in ToLink
                 THEN LET bound == [i \in Positions(m) |-> Bound(m, items[m][i], WithExternals)]
                      IN [i \in Positions(m) |-> Written(bound, bound[i])]
                 ELSE items[m]]
  /\ state' = [m \in Modules |-> IF m \in ToLink THEN "linked" ELSE state[m]]
  /\ UNCHANGED <<current, table, failed>>

(* An import that neither a module nor the resolver knows. *)
LinkFails ==
  /\ ~failed
  /\ ~(Missing \subseteq Resolvable)
  /\ failed' = TRUE
  /\ UNCHANGED <<current, state, items, table, env>>

(* The interpreter, when it first sees a function of a linked module, takes the *)
(* address of an import that is moved to a register from the environment again.  *)
Interpret(m, i) ==
  /\ ~failed
  /\ state[m] = "linked" /\ i \in Positions(m) /\ items[m][i].kind = "import"
  /\ items' = [items EXCEPT ![m][i].addr = env[items[m][i].name].addr]
  /\ UNCHANGED <<current, state, table, env, failed>>

------------------------------------------------------------------------------
Over == failed /\ UNCHANGED vars

NewItem ==
  /\ Making
  /\ \E name \in Names :
       \/ \E kind \in Named : AddFirst(kind, name) \/ Again(kind, name) \/ Clash(kind, name)
       \/ \E kind \in Declarations : DeclareDefined(kind, name)
       \/ AddDefinition(name) \/ ExportForwarded(name) \/ ForwardExported(name)

Next ==
  \/ \E m \in Modules : NewModule(m) \/ Load(m)
  \/ NewItem \/ AddAnonymous \/ FinishModule
  \/ \E n \in Names : LoadExternal(n)
  \/ Link \/ LinkFails
  \/ \E m \in Modules : \E i \in 1 .. MaxItems : Interpret(m, i)
  \/ Over

Spec == Init /\ [][Next]_vars

------------------------------------------------------------------------------
(* The type invariant. *)
ItemRecords ==
  [kind : Kinds, name : Names \cup {Null}, exported : BOOLEAN, ref : Refs, addr : Addresses,
   offset : 0 .. MaxItems, target : 0 .. MaxItems, value : Addresses]

TypeOK ==
  /\ current \in Modules \cup {Nobody}
  /\ state \in [Modules -> {"none", "open", "finished", "loaded", "linked"}]
  /\ items \in [Modules -> Seq(ItemRecords)]
  /\ \A m \in Modules : Len(items[m]) <= MaxItems
  /\ table \in [Modules -> [Names -> 0 .. MaxItems]]
  /\ \A m \in Modules : \A n \in Names : table[m][n] <= Len(items[m])
  /\ env \in [Names -> {Null} \cup EnvEntries]
  /\ failed \in BOOLEAN

Has(m, kind, name) ==
  \E i \in Positions(m) : items[m][i].kind = kind /\ items[m][i].name = name

(* In whatever order a name is declared and defined: there is at most one       *)
(* definition, and the table leads to it; without one it leads to the export,   *)
(* and without that to the forward; imported names are never defined or         *)
(* declared.                                                                  *)
TableLeadsToDefinition ==
  \A m \in Modules : \A n \in Names :
    LET i == table[m][n]
    IN /\ i = 0 <=> \A kind \in Kinds : ~Has(m, kind, n)
       /\ i # 0 => /\ i \in Positions(m) /\ items[m][i].name = n
                   /\ items[m][i].kind = IF Has(m, "definition", n) THEN "definition"
                                          ELSE IF Has(m, "import", n) THEN "import"
                                          ELSE IF Has(m, "export", n) THEN "export"
                                          ELSE "forward"
       /\ \A j \in Positions(m) :
            items[m][j].name = n /\ items[m][j].kind \in {"definition", "import"} => j = i

(* A definition is exported if the name is declared so, before or behind it,    *)
(* and only then.                                                              *)
ExportedWherever ==
  \A m \in Modules : \A i \in Positions(m) :
    items[m][i].kind = "definition" =>
      (items[m][i].exported <=> Has(m, "export", items[m][i].name))

(* After the link every declaration of a name that its module defines refers    *)
(* to the definition and has its address, even a forward behind an export, to   *)
(* which nothing led before.                                                   *)
DeclarationsBound ==
  \A m \in Modules : state[m] = "linked" =>
    \A i, j \in Positions(m) :
      items[m][i].kind \in Declarations /\ items[m][j].kind = "definition"
        /\ items[m][i].name = items[m][j].name
      => items[m][i].ref = <<m, j>> /\ items[m][i].addr = <<m, j>>

(* The address of a definition of the name that some loaded module exports.       *)
Version(addr, name) ==
  \E x \in Modules : \E j \in Positions(x) :
    /\ addr = <<x, j>> /\ state[x] \in {"loaded", "linked"}
    /\ items[x][j].kind = "definition" /\ items[x][j].name = name
    /\ Has(x, "export", name)

(* After the link every import has the address of a definition of its name that  *)
(* some loaded module exports, or that of an external, through all loads of     *)
(* other versions, modules loaded again and links that follow.                  *)
ImportsBound ==
  \A m \in Modules : state[m] = "linked" =>
    \A i \in Positions(m) : items[m][i].kind = "import" =>
      \/ items[m][i].addr = <<Outside, items[m][i].name>>
      \/ Version(items[m][i].addr, items[m][i].name)

(* After the link reference data hold the address of the definition that their   *)
(* name has in the module, also when they were made from a declaration, before    *)
(* the definition, and when nothing leads from one to the other but the table.     *)
(* For an imported name it is a definition that a loaded module exports, or the     *)
(* external of the name.                                                           *)
ReferencesBound ==
  \A m \in Modules : state[m] = "linked" =>
    \A i, j \in Positions(m) :
      items[m][i].target # 0 /\ items[m][items[m][i].target].name = items[m][j].name =>
        LET value == items[m][i].value
            name == items[m][j].name
        IN /\ items[m][j].kind = "definition" => value = <<m, j>>
           /\ items[m][j].kind = "import" => value = <<Outside, name>> \/ Version(value, name)

(* Data without a name lie directly behind the data before them (MIR.md:560-566:    *)
(* "There are no any memory space between data/bss in the section"), nothing else    *)
(* lies there, and a function or declaration between them begins a new section.      *)
SectionsAdjacent ==
  \A m \in Modules : state[m] \in {"loaded", "linked"} =>
    \A i \in Positions(m) \ {1} : items[m][i].kind = "anonymous" =>
      LET before == items[m][i - 1]
      IN /\ IsMemory(before) =>
              items[m][i].addr = before.addr /\ items[m][i].offset = before.offset + 1
         /\ \A j \in 1 .. i - 1 : IsMemory(items[m][j]) =>
              <<items[m][j].addr, items[m][j].offset>> # <<items[m][i].addr, items[m][i].offset>>
         /\ ~IsMemory(before) => items[m][i].offset = 0
==============================================================================
