---------------------------- MODULE StscOpcodes ----------------------------
(***************************************************************************)
(* The opcodes of STSC scripts (src/format/stsc/instruction.hpp): how long *)
(* an instruction is, which of its fields are offsets into the file, and   *)
(* whether the engine goes on behind it.  Numbers of any kind only count   *)
(* with their size.                                                        *)
(***************************************************************************)
EXTENDS Integers, TLC

\* Fields of type void*, std::string and Code*, by their place.
Data(at) == [what |-> "data", at |-> at]
String(at) == [what |-> "string", at |-> at]
Code(at) == [what |-> "code", at |-> at]

(* SimpleInstruction<false, ...>; its size counts the opcode, too. *)
Simple(size, refs, ops) ==
  [op \in ops |-> [kind |-> "simple", size |-> size, refs |-> refs,
                   noReturn |-> FALSE]]

(* SimpleInstruction<true, ...> *)
NoReturn(size, refs, ops) ==
  [op \in ops |-> [kind |-> "simple", size |-> size, refs |-> refs,
                   noReturn |-> TRUE]]

Special(kind, op) == op :> [kind |-> kind]

\* InstructionMap<Flavor::NOIRE, ...>, 0x00 to 0x6f
NoireBasic ==
     Simple(2, <<>>, {\h0c, \h1c, \h3a, \h42, \h51, \h53, \h55, \h5b, \h63,
       \h64, \h65, \h66, \h6b, \h6d})
  @@ Simple(3, <<>>, {\h37, \h39, \h41, \h4a, \h4d, \h54, \h5e})
  @@ Simple(4, <<>>, {\h31, \h46, \h57, \h58, \h5d, \h6a})
  @@ Simple(5, <<>>, {\h05, \h24, \h3f, \h4b, \h59, \h5a, \h5f, \h61, \h68,
       \h6c, \h6e})
  @@ Simple(6, <<>>, {\h12, \h33, \h35, \h4c, \h5c})
  @@ Simple(7, <<>>, {\h1f, \h32, \h34, \h60})
  @@ Simple(8, <<>>, {\h40, \h43})
  @@ Simple(9, <<>>, {\h15, \h16, \h17, \h18, \h44, \h45, \h47, \h48, \h67})
  @@ Simple(10, <<>>, {\h49})
  @@ Simple(11, <<>>, {\h36})
  @@ Simple(12, <<>>, {\h4e})
  @@ Simple(5, <<Code(1)>>, {\h06, \h0a, \h1a})
  @@ Simple(5, <<String(1)>>, {\h0e, \h38, \h4f, \h62})
  @@ Simple(6, <<Data(2)>>, {\h0b})
  @@ Simple(6, <<String(1)>>, {\h6f})
  @@ Simple(7, <<String(1)>>, {\h30})
  @@ Simple(9, <<Code(5)>>, {\h10, \h11})
  @@ Simple(9, <<Data(1), Data(5)>>, {\h21, \h22, \h23})
  @@ Simple(9, <<String(5)>>, {\h50})
  @@ Simple(10, <<Data(2), Data(6)>>, {\h20})
  @@ Simple(10, <<String(6)>>, {\h69})
  @@ Simple(14, <<Code(10)>>, {\h13, \h14})
  @@ NoReturn(1, <<>>, {\h01, \h04, \h07, \h1b})
  @@ NoReturn(9, <<String(1), String(5)>>, {\h0f})

\* ... 0x70 to 0xff
NoireExtended ==
     Simple(2, <<>>, {\h79, \h7b, \h8d, \h96, \h97, \hb5, \hda, \hdc, \hdf})
  @@ Simple(3, <<>>, {\h74, \h78, \h89, \ha7, \hb0, \hb4, \hf3})
  @@ Simple(4, <<>>, {\h75, \h7f, \h87, \hf1, \hf5, \hf7})
  @@ Simple(5, <<>>, {\h70, \h7a, \h7c, \h84, \h8e, \h8f, \h90, \h91, \h92,
       \h94, \h99, \ha9, \haa, \hab, \hd6, \hdd})
  @@ Simple(6, <<>>, {\h76, \h7e, \h8a, \h8b, \ha8, \hd0, \hd3, \hd4, \hd9,
       \hf0})
  @@ Simple(7, <<>>, {\h88, \h98, \hb1, \hb3, \hd1})
  @@ Simple(9, <<>>, {\h83})
  @@ Simple(11, <<>>, {\hd2, \hdb})
  @@ Simple(13, <<>>, {\h82, \h8c})
  @@ Simple(22, <<>>, {\hd8})
  @@ Simple(24, <<>>, {\hd5, \hd7})
  @@ Simple(5, <<Data(1)>>, {\ha0, \ha5})
  @@ Simple(5, <<String(1)>>, {\h73, \h7d, \ha3, \hf4})
  @@ Simple(6, <<String(1)>>, {\h95})
  @@ Simple(6, <<String(2)>>, {\h77, \hf2})
  @@ Simple(9, <<String(5)>>, {\h80})
  @@ Simple(10, <<Data(2)>>, {\ha1, \ha6})
  @@ Simple(10, <<String(1)>>, {\h93})
  @@ Simple(11, <<Data(3)>>, {\ha2})
  @@ NoReturn(1, <<>>, {\h81})
  @@ NoReturn(5, <<>>, {\h71})

\* InstructionMap<Flavor::POTBB, ...>
PotbbSimple ==
     Simple(1, <<>>, {\h00, \h08, \h09, \h52, \h56, \h62, \h67, \h68})
  @@ Simple(2, <<>>, {\h03, \h0c, \h26, \h27, \h3a, \h4c, \h51, \h53, \h55,
       \h5d, \h63, \h64, \h65, \h66, \h6b, \h72, \h7a, \h7b})
  @@ Simple(3, <<>>, {\h21, \h22, \h23, \h24, \h29, \h2f, \h37, \h39, \h41,
       \h4a, \h4d, \h5c, \h78})
  @@ Simple(4, <<>>, {\h31, \h46, \h70, \h71})
  @@ Simple(5, <<>>, {\h05, \h0a, \h25, \h2d, \h3b, \h3e, \h3f, \h42, \h54,
       \h57, \h58, \h5b, \h5e, \h79})
  @@ Simple(6, <<>>, {\h12, \h33, \h35, \h4b})
  @@ Simple(7, <<>>, {\h1f, \h2a, \h2b, \h2e, \h32, \h34, \h61})
  @@ Simple(8, <<>>, {\h40, \h43})
  @@ Simple(9, <<>>, {\h15, \h16, \h17, \h18, \h44, \h45, \h47, \h48})
  @@ Simple(10, <<>>, {\h49})
  @@ Simple(11, <<>>, {\h2c, \h36})
  @@ Simple(12, <<>>, {\h4e})
  @@ Simple(16, <<>>, {\h28})
  @@ Simple(5, <<Code(1)>>, {\h06, \h1a})
  @@ Simple(5, <<String(1)>>, {\h0e, \h38, \h4f, \h73})
  @@ Simple(6, <<Data(2)>>, {\h0b})
  @@ Simple(6, <<String(1)>>, {\h6f})
  @@ Simple(7, <<String(1)>>, {\h30})
  @@ Simple(9, <<Code(5)>>, {\h10, \h11})
  @@ Simple(9, <<String(1), String(5)>>, {\h69, \h6a})
  @@ Simple(10, <<Data(2), Data(6)>>, {\h20})
  @@ Simple(11, <<Code(1), String(5)>>, {\h59})
  @@ Simple(12, <<String(5)>>, {\h50})
  @@ Simple(14, <<Code(10)>>, {\h13, \h14})
  @@ NoReturn(1, <<>>, {\h01, \h02, \h04, \h07, \h1b, \h5a})
  @@ NoReturn(2, <<>>, {\h1c})
  @@ NoReturn(3, <<>>, {\h5f})
  @@ NoReturn(5, <<String(1)>>, {\h0f, \h60})

\* What both flavors have beside simple instructions.
Branches ==
  Special("rndjump", \h0d) @@ Special("unimplemented", \h19)
    @@ Special("jumpif", \h1d) @@ Special("switch", \h1e)

(* InstructionMap: an opcode that is not listed has no operands; in POTBB  *)
(* one byte is skipped.                                                    *)
Opcodes(flavor) ==
  IF flavor = "noire"
  THEN NoireBasic @@ NoireExtended @@ Branches @@ Simple(1, <<>>, 0..255)
  ELSE PotbbSimple @@ Branches @@ Simple(2, <<>>, 0..255)

NoireOpcodes == Opcodes("noire")
PotbbOpcodes == Opcodes("potbb")

Opcode(flavor, op) ==
  IF flavor = "noire" THEN NoireOpcodes[op] ELSE PotbbOpcodes[op]
=============================================================================
