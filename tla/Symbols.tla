-------------------------------- MODULE Symbols --------------------------------
(*******************************************************************************)
(* The names of the Java program (mir2j.c: add_symbol,                         *)
(* get_mangled_symbol_name, out_item). All MIR modules become one class. The   *)
(* symbol table is filled item by item, in the order of the text: a name that a*)
(* module exports or imports is visible and keeps its form, any other one gets *)
(* the number of its module in front.                                          *)
(*                                                                             *)
(* The modules are the ones MIR_scan_string accepts: what a function uses is   *)
(* declared before, and what is exported or forwarded is defined somewhere in  *)
(* the module. Left out are forwards of names that are exported before and not *)
(* defined yet, for which mir2j fails (mir2j.c:1019, mir.c:509), and data that *)
(* refer to other items.                                                       *)
(*******************************************************************************)
EXTENDS Integers

CONSTANTS
  Names,       \* of items
  Kinds,       \* of definitions: "function" and "data", which has bss with it
  ModulesNum   \* bound of the model

ASSUME SymbolsAssumption ==
  /\ Kinds \subseteq {"function", "data"}
  /\ ModulesNum \in Nat

Serials == 1 .. ModulesNum
Everyone == 0

(* A symbol: the module it belongs to, or Everyone for a visible one, and its  *)
(* name. Its Java name has both parts.                                         *)
Symbol == (0 .. ModulesNum) \X Names
Items == Serials \X Names

VARIABLES
  module_serial,  \* the module that is translated
  items,          \* module -> its declarations so far, <<kind, name>>
  exports,        \* module -> the names it exports, here or further down
  symbol_table,
  declared,       \* the Java program: definitions and the symbols they got,
  used,           \* references of functions and the symbols they got
  tidy            \* ghost: the program keeps to the rules of Tidy... below

symbols_vars == <<module_serial, items, exports, symbol_table, declared, used, tidy>>

Is(kinds, n) == \E kind \in kinds : <<kind, n>> \in items[module_serial]
Defined(n) == Is({"function", "data"}, n)
Known(n) == Is({"import", "export", "forward", "function", "data"}, n)

(* A module so far says that the name is for everyone: it imports or exports it,*)
(* or defines it as a function that it exports.                                *)
Announced(n) ==
  \E m \in Serials : \E kind \in {"import", "export", "function"} :
    <<kind, n>> \in items[m] /\ (kind = "function" => n \in exports[m])

SymbolsInit ==
  /\ module_serial = 0
  /\ items = [m \in Serials |-> {}]
  /\ exports = [m \in Serials |-> {}]
  /\ symbol_table = {}
  /\ declared = {}
  /\ used = {}
  /\ tidy = TRUE

------------------------------------------------------------------------------
(* The symbol table.                                                           *)

(* Mutant: the names of any module.                                            *)
MangledOfAny(table, n) ==
  IF \E s \in table : s[2] = n THEN CHOOSE s \in table : s[2] = n ELSE <<module_serial, n>>

(* get_mangled_symbol_name: visible names first, then those of the module, to  *)
(* which an unknown name is added.                                             *)
Mangled(table, n) ==
  IF <<Everyone, n>> \in table THEN <<Everyone, n>> ELSE <<module_serial, n>>

(* export_p of the function is set wherever the export is.                     *)
FunctionSymbol(n) ==
  IF n \in exports[module_serial] THEN <<Everyone, n>> ELSE <<module_serial, n>>

------------------------------------------------------------------------------
(* The items. A program is tidy when no two modules export a name, and no      *)
(* definition or reference of a module's own name meets it in the other form:  *)
(* for everyone though the module does not export it, or exported and not announced*)
(* yet.                                                                        *)

FinishedModule ==
  module_serial # 0 =>
    /\ \A n \in exports[module_serial] : Is({"export"}, n)
    /\ \A n \in Names : Is({"export", "forward"}, n) => Defined(n)

NextModule ==
  /\ FinishedModule
  /\ module_serial < ModulesNum
  /\ module_serial' = module_serial + 1
  /\ \E names \in SUBSET Names :
       /\ exports' = [exports EXCEPT ![module_serial + 1] = names]
       /\ tidy' = (tidy /\ \A m \in Serials : exports[m] \cap names = {})
  /\ UNCHANGED <<items, symbol_table, declared, used>>

Add(kind, n) == items' = [items EXCEPT ![module_serial] = @ \cup {<<kind, n>>}]

Export(n) ==
  /\ module_serial # 0
  /\ n \in exports[module_serial] /\ ~Is({"export", "import"}, n)
  /\ Add("export", n)
  /\ symbol_table' = symbol_table \cup {<<Everyone, n>>}
  /\ UNCHANGED <<module_serial, exports, declared, used, tidy>>

Import(n) ==
  /\ module_serial # 0
  /\ n \notin exports[module_serial] /\ ~Known(n)
  /\ Add("import", n)
  /\ symbol_table' = symbol_table \cup {<<Everyone, n>>}
  /\ UNCHANGED <<module_serial, exports, declared, used, tidy>>

(* Mutant: a forward makes the name visible.                                   *)
ForwardVisible(n) ==
  /\ module_serial # 0
  /\ ~Is({"import", "forward"}, n) /\ (Is({"export"}, n) => Defined(n))
  /\ Add("forward", n)
  /\ symbol_table' = symbol_table \cup {<<Everyone, n>>}
  /\ UNCHANGED <<module_serial, exports, declared, used, tidy>>

Forward(n) ==
  /\ module_serial # 0
  /\ ~Is({"import", "forward"}, n) /\ (Is({"export"}, n) => Defined(n))
  /\ Add("forward", n)
  /\ symbol_table' = symbol_table \cup {<<module_serial, n>>}
  /\ UNCHANGED <<module_serial, exports, declared, used, tidy>>

(* A name of the module itself that has the other form at this place.          *)
Wrong(n) ==
  ~Is({"import"}, n) /\ (Announced(n) # (n \in exports[module_serial]))

(* The function is declared, then what its insns refer to is looked up.        *)
Function(n, names) ==
  /\ "function" \in Kinds /\ module_serial # 0
  /\ ~Is({"import", "function", "data"}, n)
  /\ \A u \in names : u = n \/ Known(u)
  /\ Add("function", n)
  /\ LET own == FunctionSymbol(n)
         table == symbol_table \cup {own}
     IN /\ declared' = declared \cup {<<<<module_serial, n>>, own>>}
        /\ symbol_table' = table \cup {Mangled(table, u) : u \in names}
        /\ used' = used \cup {<<<<module_serial, u>>, Mangled(table, u)>> : u \in names}
  /\ tidy' = (tidy /\ (n \notin exports[module_serial] => ~Announced(n))
                   /\ \A u \in names \ {n} : ~Wrong(u))
  /\ UNCHANGED <<module_serial, exports>>

Data(n) ==
  /\ "data" \in Kinds /\ module_serial # 0
  /\ ~Is({"import", "function", "data"}, n)
  /\ Add("data", n)
  /\ declared' = declared \cup {<<<<module_serial, n>>, Mangled(symbol_table, n)>>}
  /\ symbol_table' = symbol_table \cup {Mangled(symbol_table, n)}
  /\ tidy' = (tidy /\ ~Wrong(n))
  /\ UNCHANGED <<module_serial, exports, used>>

Done == FinishedModule /\ module_serial = ModulesNum /\ UNCHANGED symbols_vars

SymbolsNext ==
  \/ NextModule \/ Done
  \/ \E n \in Names :
       \/ Export(n) \/ Import(n) \/ Forward(n) \/ Data(n)
       \/ \E names \in SUBSET Names : Function(n, names)

SymbolsSpec == SymbolsInit /\ [][SymbolsNext]_symbols_vars

------------------------------------------------------------------------------
(* What a reference means in MIR: the definition of its module, or the exported*)
(* one of another module, if it is imported.                                   *)
Means(ref, item) ==
  /\ ref[2] = item[2]
  /\ \/ ref[1] = item[1]
     \/ <<"import", ref[2]>> \in items[ref[1]] /\ item[2] \in exports[item[1]]

SymbolsTypeOK ==
  /\ module_serial \in 0 .. ModulesNum
  /\ items \in [Serials -> SUBSET ({"import", "export", "forward", "function", "data"} \X Names)]
  /\ exports \in [Serials -> SUBSET Names]
  /\ symbol_table \subseteq Symbol
  /\ declared \subseteq Items \X Symbol
  /\ used \subseteq Items \X Symbol
  /\ tidy \in BOOLEAN

(* In a tidy program different items have different Java names, so that the class*)
(* compiles (mir2j.c:33, 80).                                                  *)
NamesApart ==
  tidy => \A d, e \in declared : d # e => d[2] # e[2]

(* In a tidy program each reference becomes the Java name of the item it means,*)
(* and of no other, though the table grows between the references of a name and*)
(* is kept over the modules (mir2j.c:89).                                      *)
ReferencesBind ==
  tidy => \A r \in used, d \in declared : Means(r[1], d[1]) <=> r[2] = d[2]
==============================================================================
