------------------------------ MODULE Programs ------------------------------
(***************************************************************************)
(* Small Solidity files as the parser returns them, for the checks of      *)
(* modules Analysis and Queries.  A position is 100 * line + column; each  *)
(* text is given in Solidity above its syntax tree.                        *)
(***************************************************************************)
EXTENDS Integers, Sequences, TLC

\* A syntax node: of a type, with a name at nm, a kind, and parts.
N(type, name, from, to, nm, kind, parts) ==
    [type |-> type, name |-> name, from |-> from, to |-> to, nm |-> nm,
     kind |-> kind, parts |-> parts]

NoParts == [x \in {} |-> <<>>]

\* Without a name.
P(type, from, to, parts) == N(type, "", from, to, from, "", parts)
L(type, p) == P(type, p, p, NoParts)
\* With a name that starts the node.
Name(type, x, p) == N(type, x, p, p + Len(x) - 1, p, "", NoParts)
I(x, p) == Name("Identifier", x, p)
U(x, p) == Name("UserDefinedTypeName", x, p)
Uint(p) == Name("ElementaryTypeName", "uint", p)

\* A variable x at nm of a type.
Var(type, x, nm, kind) ==
    N("VariableDeclaration", x, type.from, nm + Len(x) - 1, nm, kind,
      [typeName |-> <<type>>])
State(type, x, nm, kind) ==
    P("StateVariableDeclaration", type.from, nm + Len(x),
      [variables |-> <<Var(type, x, nm, kind)>>])
Local(type, x, nm, value) ==
    P("VariableDeclarationStatement", type.from, nm + Len(x) + 5,
      [variables |-> <<Var(type, x, nm, "")>>, initialValue |-> value])

Body(from, to, statements) == P("Block", from, to, [statements |-> statements])
Do(e) == P("ExpressionStatement", e.from, e.to, [expression |-> <<e>>])
Call(e, to, args) ==
    P("FunctionCall", e.from, to, [expression |-> <<e>>, arguments |-> args])
\* e.x with the name at nm
Dot(e, x, nm) ==
    N("MemberAccess", x, e.from, nm + Len(x) - 1, nm, "", [expression |-> <<e>>])

Function(x, from, to, kind, params, body) ==
    N("FunctionDefinition", x, from, to, from, kind,
      [parameters |-> params, body |-> body])
Contract(x, kind, from, to, bases, subs) ==
    N("ContractDefinition", x, from, to, from, kind,
      [baseContracts |-> bases, subNodes |-> subs])
Base(x, p) == P("InheritanceSpecifier", p, p + Len(x), [baseName |-> <<U(x, p)>>])
\* import { ... } from "path", the path at nm
Import(path, from, nm, symbols) ==
    N("ImportDirective", path, from, nm + Len(path), nm, "",
      [symbolAliases |-> symbols])
Unit(to, children) == P("SourceUnit", 0, to, [children |-> children])

-----------------------------------------------------------------------------
(* Every kind of node in one file *)

\*  1  pragma solidity
\*  2  type T is uint;
\*  3  uint constant K = 1;
\*  4  error E(uint v);
\*  5  library L { function h(uint p) internal {} }
\*  6  contract B { uint internal z; modifier m(uint d) { z; }
\*  7    constructor(uint q) {}
\*  8    function g() public {}
\*  9  }
Head9 ==
    <<L("PragmaDirective", 100),
      N("TypeDefinition", "T", 200, 215, 200, "", NoParts),
      N("FileLevelConstant", "K", 300, 320, 314, "",
        [typeName |-> <<Uint(300)>>, initialValue |-> <<L("NumberLiteral", 318)>>]),
      N("CustomErrorDefinition", "E", 400, 418, 400, "",
        [parameters |-> <<Var(Uint(408), "v", 413, "")>>]),
      Contract("L", "library", 500, 560, <<>>,
        <<Function("h", 512, 550, "internal", <<Var(Uint(523), "p", 528, "")>>,
                   <<Body(540, 545, <<>>)>>)>>),
      Contract("B", "contract", 600, 900, <<>>,
        <<State(Uint(613), "z", 627, "internal"),
          N("ModifierDefinition", "m", 632, 660, 632, "",
            [parameters |-> <<Var(Uint(643), "d", 648, "")>>,
             body |-> <<Body(651, 655, <<Do(I("z", 652))>>)>>]),
          Function("", 702, 725, "constructor", <<Var(Uint(714), "q", 719, "")>>,
                   <<Body(722, 724, <<>>)>>),
          Function("g", 802, 825, "public", <<>>, <<Body(822, 824, <<>>)>>)>>)>>

\* 11    using L for uint; struct S { uint n; } enum M { One }
\* 12    event V(uint w); S s; mapping(uint => S) t; S[] r;
Members ==
    <<N("UsingForDeclaration", "L", 1102, 1118, 1102, "", [typeName |-> <<Uint(1114)>>]),
      N("StructDefinition", "S", 1120, 1140, 1120, "",
        [members |-> <<Var(Uint(1131), "n", 1136, "")>>]),
      N("EnumDefinition", "M", 1145, 1160, 1145, "",
        [members |-> <<Name("EnumValue", "One", 1154)>>]),
      N("EventDefinition", "V", 1202, 1218, 1202, "",
        [parameters |-> <<Var(Uint(1210), "w", 1215, "")>>]),
      State(U("S", 1220), "s", 1222, "internal"),
      State(P("Mapping", 1225, 1240, [keyType |-> <<Uint(1233)>>,
                                      valueType |-> <<U("S", 1239)>>]),
            "t", 1242, "internal"),
      State(P("ArrayTypeName", 1245, 1247, [baseTypeName |-> <<U("S", 1245)>>]),
            "r", 1249, "internal")>>

\* 18      if (z) { uint i = s.n; } else { super.g(); this.g(); }
\* 19      while (K) break;   for (uint j = 1; j; j) { continue; }
\* 20      do { t[1].n; } while (true);
\* 21      try this.g() returns (uint y) { y; } catch (uint e) { e; }
\* 22      emit V({w: 1});   revert E(1);   throw
\* 23      (z, K); z + 1; -z; z ? 1 : 2; new B(1); M.One; r[0:1];
\* 24      unchecked { S({n: 1}); }   h(1){v: 2}   f({a, b})  hex""  ""
\* 25      return o;
Statements ==
    <<P("IfStatement", 1804, 1860,
        [condition |-> <<I("z", 1808)>>,
         trueBody |-> <<Body(1811, 1828,
            <<Local(Uint(1813), "i", 1818, <<Dot(I("s", 1822), "n", 1824)>>)>>)>>,
         falseBody |-> <<Body(1835, 1859,
            <<Do(Call(Dot(I("super", 1837), "g", 1843), 1845, <<>>)),
              Do(Call(Dot(I("this", 1848), "g", 1853), 1855, <<>>))>>)>>]),
      P("WhileStatement", 1904, 1918, [condition |-> <<I("K", 1911)>>,
                                       body |-> <<L("BreakStatement", 1914)>>]),
      P("ForStatement", 1922, 1960,
        [initExpression |-> <<Local(Uint(1927), "j", 1932, <<L("NumberLiteral", 1936)>>)>>,
         conditionExpression |-> <<I("j", 1939)>>,
         loopExpression |-> <<Do(I("j", 1942))>>,
         body |-> <<Body(1945, 1955, <<L("ContinueStatement", 1946)>>)>>]),
      P("DoWhileStatement", 2004, 2040,
        [condition |-> <<L("BooleanLiteral", 2030)>>,
         body |-> <<Body(2007, 2020,
            <<Do(Dot(P("IndexAccess", 2009, 2012,
                       [base |-> <<I("t", 2009)>>,
                        index |-> <<L("NumberLiteral", 2011)>>]), "n", 2014))>>)>>]),
      P("TryStatement", 2104, 2170,
        [expression |-> <<Call(Dot(I("this", 2108), "g", 2113), 2115, <<>>)>>,
         returnParameters |-> <<Var(Uint(2126), "y", 2131, "")>>,
         body |-> <<Body(2134, 2140, <<Do(I("y", 2136))>>)>>,
         catchClauses |-> <<P("CatchClause", 2142, 2169,
            [parameters |-> <<Var(Uint(2149), "e", 2154, "")>>,
             body |-> <<Body(2157, 2163, <<Do(I("e", 2159))>>)>>])>>]),
      P("EmitStatement", 2204, 2219,
        [eventCall |-> <<P("FunctionCall", 2209, 2218,
            [expression |-> <<I("V", 2209)>>, identifiers |-> <<I("w", 2212)>>,
             arguments |-> <<L("NumberLiteral", 2215)>>])>>]),
      P("RevertStatement", 2222, 2232,
        [revertCall |-> <<Call(I("E", 2229), 2231, <<L("NumberLiteral", 2230)>>)>>]),
      L("ThrowStatement", 2236),
      Do(P("TupleExpression", 2304, 2309, [components |-> <<I("z", 2305), I("K", 2308)>>])),
      Do(P("BinaryOperation", 2312, 2316, [left |-> <<I("z", 2312)>>,
                                           right |-> <<L("NumberLiteral", 2316)>>])),
      Do(P("UnaryOperation", 2319, 2320, [subExpression |-> <<I("z", 2320)>>])),
      Do(P("Conditional", 2323, 2331, [condition |-> <<I("z", 2323)>>,
                                       trueExpression |-> <<L("NumberLiteral", 2327)>>,
                                       falseExpression |-> <<L("HexLiteral", 2331)>>])),
      Do(Call(P("NewExpression", 2334, 2338, [typeName |-> <<U("B", 2338)>>]), 2341,
              <<L("NumberLiteral", 2340)>>)),
      Do(Dot(I("M", 2344), "One", 2346)),
      Do(P("IndexRangeAccess", 2352, 2357, [base |-> <<I("r", 2352)>>,
                                            indexStart |-> <<L("NumberLiteral", 2354)>>,
                                            indexEnd |-> <<L("NumberLiteral", 2356)>>])),
      P("UncheckedStatement", 2404, 2430,
        [block |-> <<Body(2414, 2430,
            <<Do(P("FunctionCall", 2416, 2425,
                   [expression |-> <<I("S", 2416)>>, identifiers |-> <<I("n", 2419)>>,
                    arguments |-> <<L("NumberLiteral", 2422)>>]))>>)>>]),
      Do(P("NameValueExpression", 2433, 2445,
           [expression |-> <<Call(I("h", 2433), 2436, <<L("NumberLiteral", 2435)>>)>>,
            arguments |-> <<P("NameValueList", 2437, 2444,
                              [identifiers |-> <<I("v", 2438)>>])>>])),
      Do(L("StringLiteral", 2450)),
      P("ReturnStatement", 2504, 2512, [expression |-> <<I("o", 2511)>>])>>

\* 26      assembly { let c := add(1, 2)  c := 0x0  if c { leave }
\* 27        for { let k := 1 } k { k } { break continue }
\* 28        switch c case 0 { af(c) } label: =: c x.slot
\* 29        function af(u) -> v { v := u } }
Assembly ==
    LET Asm(from, to, ops) == P("AssemblyBlock", from, to, [operations |-> ops])
        C(x, p, args) == N("AssemblyCall", x, p, p + Len(x), p, "", [arguments |-> args])
        Let(x, from, p, value) == P("AssemblyLocalDefinition", from, p + 9,
                                    [names |-> <<I(x, p)>>, expression |-> value])
    IN  P("InlineAssemblyStatement", 2604, 2990, [body |-> <<Asm(2613, 2989,
          <<Let("c", 2615, 2619, <<C("add", 2624, <<L("DecimalNumber", 2628),
                                                   L("DecimalNumber", 2631)>>)>>),
            P("AssemblyAssignment", 2634, 2642, [names |-> <<I("c", 2634)>>,
                                                 expression |-> <<L("HexNumber", 2639)>>]),
            P("AssemblyIf", 2645, 2660, [condition |-> <<C("c", 2648, <<>>)>>,
                                         body |-> <<Asm(2650, 2659, <<>>)>>]),
            P("AssemblyFor", 2706, 2760,
              [pre |-> <<Asm(2710, 2724, <<Let("k", 2712, 2716, <<L("DecimalNumber", 2721)>>)>>)>>,
               condition |-> <<C("k", 2726, <<>>)>>,
               post |-> <<Asm(2728, 2732, <<C("k", 2730, <<>>)>>)>>,
               body |-> <<Asm(2734, 2755, <<L("Break", 2736), L("Continue", 2742)>>)>>]),
            P("AssemblySwitch", 2806, 2832,
              [expression |-> <<C("c", 2813, <<>>)>>,
               cases |-> <<P("AssemblyCase", 2815, 2831,
                             [value |-> <<L("DecimalNumber", 2820)>>,
                              block |-> <<Asm(2822, 2831, <<C("af", 2824, <<C("c", 2827, <<>>)>>)>>)>>])>>]),
            L("LabelDefinition", 2835), L("AssemblyStackAssignment", 2842),
            L("AssemblyMemberAccess", 2850),
            N("AssemblyFunctionDefinition", "af", 2906, 2940, 2906, "",
              [arguments |-> <<I("u", 2918)>>, returnArguments |-> <<I("v", 2924)>>,
               body |-> <<Asm(2926, 2936,
                  <<P("AssemblyAssignment", 2928, 2934,
                      [names |-> <<I("v", 2928)>>,
                       expression |-> <<C("u", 2933, <<>>)>>])>>)>>])>>)>>])

\* 10  contract C is B {
\* 13    constructor() B(1) m(2) {}
\* 14    function p(function () f) internal {}
\* 17    function g() override(B) returns (uint o) { ... }
\* 30  }
Kinds ==
    Unit(3100, Head9 \o
      <<Contract("C", "contract", 1000, 3000, <<Base("B", 1014)>>,
          Members \o
          <<N("FunctionDefinition", "", 1302, 1330, 1302, "constructor",
              [modifiers |-> <<N("ModifierInvocation", "B", 1316, 1319, 1316, "",
                                 [arguments |-> <<L("NumberLiteral", 1318)>>]),
                               N("ModifierInvocation", "m", 1321, 1324, 1321, "",
                                 [arguments |-> <<L("NumberLiteral", 1323)>>])>>,
               body |-> <<Body(1326, 1328, <<>>)>>]),
            Function("p", 1402, 1450, "internal",
                     <<Var(L("FunctionTypeName", 1413), "f", 1426, "")>>,
                     <<Body(1440, 1445, <<>>)>>),
            N("FunctionDefinition", "g", 1702, 2999, 1702, "public",
              [override |-> <<U("B", 1724)>>,
               returnParameters |-> <<Var(Uint(1736), "o", 1741, "")>>,
               body |-> <<Body(1744, 2995, Statements \o <<Assembly>>)>>])>>)>>)
-----------------------------------------------------------------------------
(* Files that import each other *)

\* 1  import "b";
\* 2  contract A is B {
\* 3    function f() public { x; g(); }
\* 4    B b;
\* 5  }
Derived ==
    Unit(600, <<Import("b", 100, 108, <<>>),
      Contract("A", "contract", 200, 500, <<Base("B", 214)>>,
        <<Function("f", 302, 340, "public", <<>>,
            <<Body(324, 339, <<Do(I("x", 326)), Do(Call(I("g", 329), 331, <<>>))>>)>>),
          State(U("B", 402), "b", 404, "internal")>>)>>)

\* The same without the uses of B.
Alone ==
    Unit(600, <<Import("b", 100, 108, <<>>),
      Contract("A", "contract", 200, 500, <<>>,
        <<Function("f", 302, 340, "public", <<>>, <<Body(324, 339, <<>>)>>)>>)>>)

\* 1  import "b";
\* 2  contract A is B {
\* 3    function f() public { x; g(); }   B b;   function e() public { b._; ;
\* which a completion analyses while line 3 ends in "b."; the rest is cut off.
Doctored3 ==
    Unit(400, <<Import("b", 100, 108, <<>>),
      Contract("A", "contract", 200, 400, <<Base("B", 214)>>,
        <<Function("f", 302, 340, "public", <<>>,
            <<Body(324, 339, <<Do(I("x", 326)), Do(Call(I("g", 329), 331, <<>>))>>)>>),
          State(U("B", 342), "b", 344, "internal"),
          Function("e", 347, 380, "public", <<>>,
            <<Body(369, 380, <<Do(Dot(I("b", 371), "_", 373))>>)>>)>>)>>)

\* 1  contract B {
\* 2    uint internal x;
\* 3    function f() public {}
\* 4    function g() public {}
\* 5  }
Super ==
    Unit(600, <<Contract("B", "contract", 100, 500, <<>>,
        <<State(Uint(202), "x", 216, "internal"),
          Function("f", 302, 330, "public", <<>>, <<Body(324, 326, <<>>)>>),
          Function("g", 402, 430, "public", <<>>, <<Body(424, 426, <<>>)>>)>>)>>)

\* The same, one line lower and without g.
Moved ==
    Unit(700, <<Contract("B", "contract", 200, 600, <<>>,
        <<State(Uint(302), "x", 316, "internal"),
          Function("f", 402, 430, "public", <<>>, <<Body(424, 426, <<>>)>>)>>)>>)

\* 1  import path;
\* 2  contract Here { There v; }
Mutual(here, there, path) ==
    Unit(300, <<Import(path, 100, 108, <<>>),
      Contract(here, "contract", 200, 250, <<>>,
               <<State(U(there, 220), "v", 223, "internal")>>)>>)

\* 1  import {B as C, D} from path;
\* 2  contract A {
\* 3    C c; D d;
\* 4  }
Aliased(path) ==
    Unit(500, <<Import(path, 100, 124, <<<<I("B", 108), I("C", 113)>>, <<I("D", 116)>>>>),
      Contract("A", "contract", 200, 400, <<>>,
        <<State(U("C", 302), "c", 304, "internal"),
          State(U("D", 307), "d", 309, "internal")>>)>>)

\* 1  contract B {}
\* 2  contract D {}
Two ==
    Unit(300, <<Contract("B", "contract", 100, 113, <<>>, <<>>),
                Contract("D", "contract", 200, 213, <<>>, <<>>)>>)

\* 1  contract A {
\* 2    function f() public {
\* 3      if (x) { uint i = 1; i; }
\* 4      if (x) { uint j = 1; j; }
\* 5  } uint x; }
Siblings ==
    LET If(line, x) ==
            P("IfStatement", line + 4, line + 40,
              [condition |-> <<I("x", line + 8)>>,
               trueBody |-> <<Body(line + 11, line + 38,
                  <<Local(Uint(line + 13), x, line + 18, <<L("NumberLiteral", line + 22)>>),
                    Do(I(x, line + 26))>>)>>])
    IN  Unit(600, <<Contract("A", "contract", 100, 520, <<>>,
          <<Function("f", 202, 500, "public", <<>>,
                     <<Body(224, 499, <<If(300, "i"), If(400, "j")>>)>>),
            State(Uint(502), "x", 507, "internal")>>)>>)
=============================================================================
