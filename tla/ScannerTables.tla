---------------------------- MODULE ScannerTables ---------------------------
(***************************************************************************)
(* The compressed automaton flex generated from lex.l into lex.yy.cpp.     *)
(* yy_ec maps a character to its class, yy_base/yy_chk/yy_nxt hold the     *)
(* transitions of a state on a class, yy_def the state whose transitions   *)
(* it shares, yy_meta the coarser classes of the template states, and      *)
(* yy_accept the rule a state accepts.  All arrays start at 0.             *)
(***************************************************************************)
EXTENDS Integers, Sequences

LOCAL Row(s) == [i \in 0..Len(s) - 1 |-> s[i + 1]]

\* The state nothing leads out of is the one with this base.
JamBase == 290
FirstTemplate == 146
YY_END_OF_BUFFER == 45

\* The characters of the classes 2, 3, ... 66.
Members == <<
  {"\t", " "}, {"\n"}, {"\r"}, {"'"}, {"("}, {")"}, {"*"}, {"+"}, {","},
  {"-"}, {"."}, {"/"}, {"0", "1", "2", "3", "4", "5", "6", "7", "8", "9"},
  {";"}, {"<"}, {"="}, {">"}, {"A"}, {"B"}, {"C"}, {"D"}, {"E"}, {"F"}, {"G"},
  {"H"}, {"I"}, {"J"}, {"K"}, {"L"}, {"M"}, {"N"}, {"O"}, {"P"},
  {"Q", "Y", "Z", "q", "y", "z"}, {"R"}, {"S"}, {"T"}, {"U"}, {"V"}, {"W"},
  {"X"}, {"_"}, {"a"}, {"b"}, {"c"}, {"d"}, {"e"}, {"f"}, {"g"}, {"h"}, {"i"},
  {"j"}, {"k"}, {"l"}, {"m"}, {"n"}, {"o"}, {"p"}, {"r"}, {"s"}, {"t"}, {"u"},
  {"v"}, {"w"}, {"x"}>>

\* The NUL that ends a buffer has class 0; "#" stands for the characters no
\* rule names, which are class 1.
Char == UNION {Members[i] : i \in DOMAIN Members} \cup {"#", "NUL"}

yy_ec == [c \in Char |->
            IF c = "NUL" THEN 0
            ELSE IF c = "#" THEN 1
            ELSE 1 + CHOOSE i \in DOMAIN Members : c \in Members[i]]

yy_accept == Row(<<
  0, 0, 0, 0, 0, 45, 43, 6, 7, 7, 43, 38, 43, 43, 43, 40, 38, 38, 39, 39, 39,
  39, 39, 39, 39, 39, 39, 39, 39, 39, 39, 39, 39, 39, 3, 4, 6, 7, 0, 42, 40,
  5, 1, 41, 36, 37, 35, 39, 39, 39, 39, 39, 39, 39, 39, 39, 39, 39, 39, 39,
  39, 39, 39, 39, 39, 39, 39, 39, 39, 2, 5, 41, 39, 31, 39, 39, 39, 39, 39,
  39, 39, 39, 39, 39, 39, 39, 39, 27, 39, 39, 39, 25, 39, 39, 39, 39, 39, 39,
  39, 28, 39, 39, 39, 17, 16, 33, 39, 22, 34, 39, 39, 19, 32, 39, 39, 8, 39,
  39, 39, 39, 11, 9, 39, 39, 39, 29, 30, 39, 39, 39, 15, 39, 39, 23, 10, 14,
  21, 18, 39, 26, 13, 24, 20, 39, 12, 0>>)

yy_meta == Row(<<
  0, 1, 1, 2, 1, 1, 1, 1, 1, 1, 1, 1, 1, 1, 3, 1, 1, 1, 1, 3, 3, 3, 3, 3, 3,
  3, 3, 3, 3, 3, 3, 3, 3, 3, 3, 3, 3, 3, 3, 3, 3, 3, 3, 3, 3, 3, 3, 3, 3, 3,
  3, 3, 3, 3, 3, 3, 3, 3, 3, 3, 3, 3, 3, 3, 3, 3, 3>>)

yy_base == Row(<<
  0, 0, 0, 267, 266, 272, 290, 268, 290, 263, 257, 290, 247, 56, 252, 57, 55,
  240, 48, 51, 49, 53, 36, 51, 0, 56, 51, 57, 58, 69, 75, 62, 78, 72, 290,
  227, 145, 290, 129, 290, 72, 0, 290, 117, 290, 290, 290, 0, 70, 88, 87, 95,
  87, 101, 95, 93, 100, 96, 97, 103, 122, 109, 108, 110, 108, 122, 123, 116,
  130, 290, 0, 74, 121, 0, 135, 128, 137, 154, 151, 154, 142, 141, 158, 149,
  148, 162, 163, 156, 158, 161, 169, 0, 153, 165, 177, 165, 170, 170, 165, 0,
  182, 174, 175, 0, 0, 0, 181, 0, 0, 181, 188, 0, 0, 205, 205, 0, 204, 191,
  208, 210, 0, 0, 197, 215, 216, 0, 0, 203, 223, 206, 208, 223, 212, 0, 0, 0,
  0, 0, 233, 0, 0, 0, 0, 226, 0, 290, 280, 283, 74, 286>>)

yy_def == Row(<<
  0, 145, 1, 146, 146, 145, 145, 145, 145, 145, 147, 145, 145, 145, 145, 145,
  145, 145, 148, 148, 148, 148, 148, 148, 148, 148, 148, 148, 148, 148, 148,
  148, 148, 148, 145, 145, 145, 145, 147, 145, 145, 149, 145, 145, 145, 145,
  145, 148, 148, 148, 148, 148, 148, 148, 148, 148, 148, 148, 148, 148, 148,
  148, 148, 148, 148, 148, 148, 148, 148, 145, 149, 145, 148, 148, 148, 148,
  148, 148, 148, 148, 148, 148, 148, 148, 148, 148, 148, 148, 148, 148, 148,
  148, 148, 148, 148, 148, 148, 148, 148, 148, 148, 148, 148, 148, 148, 148,
  148, 148, 148, 148, 148, 148, 148, 148, 148, 148, 148, 148, 148, 148, 148,
  148, 148, 148, 148, 148, 148, 148, 148, 148, 148, 148, 148, 148, 148, 148,
  148, 148, 148, 148, 148, 148, 148, 148, 148, 0, 145, 145, 145, 145>>)

yy_nxt == Row(<<
  0, 6, 7, 8, 9, 10, 11, 11, 11, 12, 11, 13, 11, 14, 15, 11, 16, 11, 17, 18,
  19, 20, 21, 22, 23, 24, 25, 26, 27, 24, 24, 24, 24, 24, 24, 24, 28, 29, 30,
  31, 32, 33, 24, 6, 18, 19, 20, 21, 22, 23, 24, 25, 26, 27, 24, 24, 24, 24,
  24, 24, 28, 29, 30, 31, 32, 33, 24, 41, 48, 43, 40, 40, 44, 45, 50, 51, 54,
  47, 56, 59, 49, 57, 52, 60, 43, 53, 40, 58, 71, 55, 61, 62, 63, 48, 65, 64,
  66, 67, 68, 50, 51, 54, 56, 72, 59, 49, 57, 52, 60, 53, 73, 58, 74, 55, 75,
  61, 62, 63, 76, 65, 64, 66, 67, 68, 77, 78, 80, 81, 72, 82, 83, 71, 79, 84,
  39, 73, 88, 74, 89, 75, 90, 92, 93, 76, 85, 94, 95, 36, 91, 77, 78, 80, 81,
  96, 82, 83, 79, 97, 84, 86, 87, 88, 98, 89, 99, 90, 92, 93, 100, 85, 94, 95,
  91, 101, 102, 103, 104, 106, 96, 105, 107, 97, 108, 86, 87, 109, 110, 98,
  99, 111, 112, 113, 114, 100, 115, 116, 117, 121, 101, 102, 103, 104, 106,
  105, 118, 107, 119, 108, 120, 122, 109, 110, 123, 124, 111, 112, 113, 114,
  115, 125, 116, 117, 121, 126, 127, 128, 129, 130, 118, 131, 119, 132, 120,
  133, 122, 134, 123, 124, 135, 136, 69, 137, 138, 125, 139, 140, 141, 126,
  127, 142, 128, 129, 130, 131, 143, 144, 132, 46, 133, 134, 42, 40, 39, 135,
  136, 137, 37, 138, 139, 140, 36, 141, 145, 142, 35, 35, 145, 145, 145, 143,
  144, 34, 34, 34, 38, 38, 38, 70, 145, 70, 5, 145, 145, 145, 145, 145, 145,
  145, 145, 145, 145, 145, 145, 145, 145, 145, 145, 145, 145, 145, 145, 145,
  145, 145, 145, 145, 145, 145, 145, 145, 145, 145, 145, 145, 145, 145, 145,
  145, 145, 145, 145, 145, 145, 145, 145, 145, 145, 145, 145, 145, 145, 145,
  145, 145, 145, 145, 145, 145, 145, 145, 145, 145, 145, 145, 145, 145, 145>>)

yy_chk == Row(<<
  0, 1, 1, 1, 1, 1, 1, 1, 1, 1, 1, 1, 1, 1, 1, 1, 1, 1, 1, 1, 1, 1, 1, 1, 1,
  1, 1, 1, 1, 1, 1, 1, 1, 1, 1, 1, 1, 1, 1, 1, 1, 1, 1, 1, 1, 1, 1, 1, 1, 1,
  1, 1, 1, 1, 1, 1, 1, 1, 1, 1, 1, 1, 1, 1, 1, 1, 1, 13, 18, 15, 13, 15, 16,
  16, 19, 20, 21, 148, 22, 25, 18, 23, 20, 26, 40, 20, 40, 23, 71, 21, 27, 28,
  29, 18, 30, 29, 31, 32, 33, 19, 20, 21, 22, 48, 25, 18, 23, 20, 26, 20, 49,
  23, 50, 21, 51, 27, 28, 29, 52, 30, 29, 31, 32, 33, 53, 54, 55, 56, 48, 57,
  58, 43, 54, 59, 38, 49, 61, 50, 62, 51, 63, 64, 65, 52, 60, 66, 67, 36, 63,
  53, 54, 55, 56, 68, 57, 58, 54, 72, 59, 60, 60, 61, 74, 62, 75, 63, 64, 65,
  76, 60, 66, 67, 63, 77, 78, 79, 80, 82, 68, 81, 83, 72, 84, 60, 60, 85, 86,
  74, 75, 87, 88, 89, 90, 76, 92, 93, 94, 98, 77, 78, 79, 80, 82, 81, 95, 83,
  96, 84, 97, 100, 85, 86, 101, 102, 87, 88, 89, 90, 92, 106, 93, 94, 98, 109,
  110, 113, 114, 116, 95, 117, 96, 118, 97, 119, 100, 122, 101, 102, 123, 124,
  35, 127, 128, 106, 129, 130, 131, 109, 110, 132, 113, 114, 116, 117, 138,
  143, 118, 17, 119, 122, 14, 12, 10, 123, 124, 127, 9, 128, 129, 130, 7, 131,
  5, 132, 4, 3, 0, 0, 0, 138, 143, 146, 146, 146, 147, 147, 147, 149, 0, 149,
  145, 145, 145, 145, 145, 145, 145, 145, 145, 145, 145, 145, 145, 145, 145,
  145, 145, 145, 145, 145, 145, 145, 145, 145, 145, 145, 145, 145, 145, 145,
  145, 145, 145, 145, 145, 145, 145, 145, 145, 145, 145, 145, 145, 145, 145,
  145, 145, 145, 145, 145, 145, 145, 145, 145, 145, 145, 145, 145, 145, 145,
  145, 145, 145, 145, 145, 145, 145>>)

=============================================================================
