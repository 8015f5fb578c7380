---------------------------- MODULE KernelImages ----------------------------
(***************************************************************************)
(* program_manager: the kernels that the device compiler has put in the    *)
(* images of the program.  A character is a number: 0 to 9 are the digits, *)
(* NewLine ends a field and the others stand for letters.                  *)
(***************************************************************************)
EXTENDS Integers, Sequences, SequencesExt, FiniteSetsExt

NewLine == 10
Digit == 0 .. 9

\* Position of the next NewLine of an image, from ptr
NextLine(image, ptr) == CHOOSE p \in ptr .. Len(image) :
                          image[p] = NewLine /\ \A q \in ptr .. p - 1 : image[q] # NewLine

\* strtoul, in base 10: the digits at the start
strtoul(s) ==
  LET n == CHOOSE k \in 0 .. Len(s) : /\ \A i \in 1 .. k : s[i] \in Digit
                                      /\ k = Len(s) \/ s[k + 1] \notin Digit
  IN FoldLeft(LAMBDA acc, d : 10 * acc + d, 0, SubSeq(s, 1, n))

\* addImages: a kernel has its name, the memory it reserves and its size, each
\* on a line, and then its binary
KernelAt(image, ptr) ==
  LET name == NextLine(image, ptr)
      mem  == NextLine(image, name + 1)
      size == NextLine(image, mem + 1)
      bin  == SubSeq(image, size + 1, size + strtoul(SubSeq(image, mem + 1, size)))
  IN [data |-> [Name |-> SubSeq(image, ptr, name - 1),
                MemSize |-> strtoul(SubSeq(image, name + 1, mem)),
                Binary |-> bin],
      next |-> size + 1 + Len(bin)]

\* The loop of addImages over an image: the kernels, and where it ends
Parsed(image) ==
  LET from[ptr \in 1 .. Len(image) + 1] ==
        IF ptr > Len(image) THEN << >>
        ELSE LET k == KernelAt(image, ptr) IN <<k.data>> \o from[k.next]
  IN from[1]

\* image_list once the images of all the modules are registered
addImages(images) == FlattenSeq([i \in DOMAIN images |-> Parsed(images[i])])

\* A loop that returns on a match, over the places that match
FirstOf(S) == Min(S)

\* get_bin_data, by the name of a kernel that exists
get_bin_data(list, name) == list[FirstOf({i \in DOMAIN list : list[i].Name = name})]

\* A section of strings may be that of the names of the sections
IsStringTable(s) == s.type = "strtab" /\ s.name = ".strtab"

\* BinData::lookup_symbol in a 32-bit ELF: its sections, with what they contain
lookup_symbol(sections, name) ==
  LET symbols == sections[CHOOSE i \in DOMAIN sections : sections[i].type = "symtab"].content
      strings == sections[CHOOSE i \in DOMAIN sections : IsStringTable(sections[i])].content
  IN symbols[FirstOf({i \in DOMAIN symbols : strings[symbols[i].st_name] = name})]
-----------------------------------------------------------------------------
\* The format the device compiler writes (external: sycl-chess)
DigitsOf(n) == IF n < 10 THEN <<n>> ELSE <<n \div 10, n % 10>>
Packed(k) == k.Name \o <<NewLine>> \o DigitsOf(k.MemSize) \o <<NewLine>>
               \o DigitsOf(Len(k.Binary)) \o <<NewLine>> \o k.Binary
-----------------------------------------------------------------------------
(* triSYCL_tool --source-in: a file as the initializer of an array of char *)

\* A char is signed, of 8 bits; it is written as an unsigned int, here of 12 bits
unsigned_char(c) == IF c < 0 THEN c + 256 ELSE c

\* std::hex, in two digits or more
Hex(n) == IF n < 256 THEN <<n \div 16, n % 16>> ELSE <<n \div 256, (n \div 16) % 16, n % 16>>
put_file_into_source(file) == [k \in DOMAIN file |-> Hex(unsigned_char(file[k]))]

\* What the compiler makes of it: a literal of at most 8 bits
CharLiteral(hex) == LET n == FoldLeft(LAMBDA acc, d : 16 * acc + d, 0, hex)
                    IN IF n < 128 THEN n ELSE n - 256

\* main: where the source goes, or why it goes nowhere
tool_main(options, exists, writable) ==
  IF "help" \in options THEN "help"
  ELSE IF "source-in" \notin options THEN "help"
  ELSE IF ~exists THEN "failed"
  ELSE IF "output" \notin options THEN "cout"
  ELSE IF writable THEN "file" ELSE "failed"
=============================================================================
