------------------------------ MODULE TeamFiles ------------------------------
(* The team files of Shoddy Battle 1, which are serialised Java objects,   *)
(* and the reader that the server has for them.                            *)
(*                                                                         *)
(* A file is a sequence of tokens <<kind, value>>: a byte that is a flag,  *)
(* a short, an int, and so on. An object that was in the file before is    *)
(* only referred to, by its handle: the writer numbers what it writes, and *)
(* the reader, who is not told the numbers, must count the same things in  *)
(* the same order. Each reads of a Pokemon some of its fields, of every    *)
(* kind that there is.                                                     *)
EXTENDS Integers, SequencesExt, TLC

CONSTANTS
    Files,          \* the files: the team, whether equal objects of it are one,
                    \* and whether the file is what it seems to be
    MaxLoads        \* how many files are loaded

VARIABLES
    loads,          \* the files that were loaded, what was answered, and
                    \* whether the reader got lost
    team            \* the Pokemon that were read

fileVars == <<loads, team>>

-----------------------------------------------------------------------------
(* The writer, which is Java's ObjectOutputStream, and the classes.        *)

StringType == "Ljava/lang/String;"
Plain(super, fields) == [super |-> super, writes |-> FALSE, fields |-> fields]
Writing(super, fields) == [super |-> super, writes |-> TRUE, fields |-> fields]
Classes ==
    ("mechanics.PokemonSpecies" :>
        Writing("", <<<<"I", "m_species", "">>, <<"L", "m_name", StringType>>>>))
    @@ ("shoddybattle.Pokemon" :>
        Writing("mechanics.PokemonSpecies",
            <<<<"I", "m_level", "">>, <<"Z", "m_shiny", "">>,
              <<"L", "m_abilityName", StringType>>, <<"L", "m_itemName", StringType>>,
              <<"L", "m_mech", "Lmechanics/BattleMechanics;">>,
              <<"[", "m_move", "[Lmechanics/moves/MoveListEntry;">>,
              <<"L", "m_nature", "Lmechanics/PokemonNature;">>, <<"[", "m_ppUp", "[I">>>>))
    @@ ("mechanics.AdvanceMechanics" :> Plain("", <<<<"L", "m_random", "Ljava/util/Random;">>>>))
    @@ ("mechanics.JewelMechanics" :> Plain("mechanics.AdvanceMechanics", <<>>))
    @@ ("java.util.Random" :> Writing("", <<<<"Z", "haveNextNextGaussian", "">>,
            <<"D", "nextNextGaussian", "">>, <<"J", "seed", "">>>>))
    @@ ("mechanics.moves.MoveListEntry" :> Writing("", <<<<"L", "m_name", StringType>>>>))
    @@ ("mechanics.PokemonNature" :> Plain("", <<<<"I", "m_nature", "">>>>))
    @@ ("[I" :> Plain("", <<>>))
    @@ ("[Lmechanics.moves.MoveListEntry;" :> Plain("", <<>>))
    @@ ("[Lshoddybattle.Pokemon;" :> Plain("", <<>>))

Byte(b) == <<"byte", b>>
(* What was written, the handles of its objects, and whether equal objects *)
(* of the team are one object.                                             *)
Writer(shared) == [tokens |-> <<>>, handles |-> <<>>, next |-> 0, shared |-> shared]
Emit(w, tokens) == [w EXCEPT !.tokens = @ \o tokens]
Assign(w, id) == [w EXCEPT !.handles = (id :> w.next) @@ @, !.next = @ + 1]
Written(w, id) == id \in DOMAIN w.handles
Refer(w, id) ==
    Emit(w, <<Byte("reference"), <<"short", 126>>, <<"short", w.handles[id]>>>>)
Identity(w, kind, value) == IF w.shared THEN <<kind, value>> ELSE <<"new", w.next>>

WriteText(w, id, text) ==
    IF Written(w, id) THEN Refer(w, id)
    ELSE Emit(Assign(w, id), <<Byte("string"), <<"utf", text>>>>)
WriteString(w, text) ==
    IF text = "" THEN Emit(w, <<Byte("null")>>)
    ELSE WriteText(w, Identity(w, "string", text), text)

WriteField(w, field) ==
    LET named == Emit(w, <<Byte(field[1]), <<"utf", field[2]>>>>)
    IN  IF field[3] = "" THEN named ELSE WriteText(named, <<"string", field[3]>>, field[3])
RECURSIVE WriteClass(_, _)
WriteClass(w, name) ==
    LET id == <<"class", name>>
        class == Classes[name]
        begun == Emit(Assign(Emit(w, <<Byte("class"), <<"utf", name>>, <<"long", 0>>>>), id),
                      <<Byte(IF class.writes THEN "write method" ELSE "serializable"),
                        <<"short", Len(class.fields)>>>>)
        ended == Emit(FoldLeft(WriteField, begun, class.fields), <<Byte("end")>>)
    IN  IF Written(w, id) THEN Refer(w, id)
        ELSE IF class.super = "" THEN Emit(ended, <<Byte("null")>>)
        ELSE WriteClass(ended, class.super)

(* An object that is not yet in the file: its class, then what Fill adds;  *)
(* an array: its class, its size, and its elements.                        *)
WriteObject(w, id, name, Fill(_)) ==
    IF Written(w, id) THEN Refer(w, id)
    ELSE Fill(Assign(WriteClass(Emit(w, <<Byte("object")>>), name), id))
WriteArray(w, name, elements, Element(_, _)) ==
    LET begun == WriteClass(Emit(w, <<Byte("array")>>), name)
    IN  FoldLeft(Element, Emit(Assign(begun, <<"new", begun.next>>), <<<<"int", Len(elements)>>>>),
                 elements)

WriteInt(w, n) == Emit(w, <<<<"int", n>>>>)
WriteRandom(w) ==
    WriteObject(w, <<"random", 0>>, "java.util.Random",
        LAMBDA o : Emit(o, <<<<"long", 0>>, <<"long", 0>>, Byte("false"), Byte("end")>>))
WriteMove(w, name) ==
    IF name = "" THEN Emit(w, <<Byte("null")>>)
    ELSE WriteObject(w, Identity(w, "move", name), "mechanics.moves.MoveListEntry",
                     LAMBDA o : Emit(WriteString(o, name), <<Byte("end")>>))
WritePokemon(w, p) ==
    WriteObject(w, <<"new", w.next>>, "shoddybattle.Pokemon", LAMBDA o :
        LET species == Emit(WriteString(WriteInt(o, p.species), p.name), <<Byte("end")>>)
            level == Emit(WriteInt(species, p.level), <<Byte(p.shiny)>>)
            item == WriteString(WriteString(level, p.ability), p.item)
            mech == WriteObject(item, <<"mechanics", 0>>, "mechanics.JewelMechanics", WriteRandom)
            moves == WriteArray(mech, "[Lmechanics.moves.MoveListEntry;", p.moves, WriteMove)
            nature == WriteObject(moves, <<"nature", p.nature>>, "mechanics.PokemonNature",
                                  LAMBDA n : WriteInt(n, p.nature))
        IN  Emit(WriteArray(nature, "[I", p.ppUp, WriteInt), <<Byte("end")>>))

Magic == 44269
Version == 5
Contents(file) ==
    IF file.genuine
    THEN WriteArray(WriteText(Emit(Writer(file.shared),
                                   <<<<"short", Magic>>, <<"short", Version>>>>),
                              <<"uuid", 0>>, "uuid"),
                    "[Lshoddybattle.Pokemon;", file.team, WritePokemon).tokens
    ELSE <<<<"short", Magic>>, <<"short", Version - 1>>>>

-----------------------------------------------------------------------------
(* The reader. What it has yet to read, its last handle, its objects, and  *)
(* the value that the last operation returned. A reader that takes what is *)
(* not there, or follows a null pointer, is lost: nothing is known of it.  *)

PStatCount == 6
PMoveCount == 4
Unset == -1
Null == [type |-> "null"]
Reader(file) ==
    [rest |-> file, handle |-> -1, objects |-> <<>>, pokemon |-> <<>>, lost |-> FALSE,
     value |-> Null]
Return(s, v) == [s EXCEPT !.value = v]
Lose(s) == [s EXCEPT !.rest = <<>>, !.lost = TRUE, !.value = Null]
Zero == ("byte" :> "") @@ ("short" :> 0) @@ ("int" :> 0) @@ ("long" :> 0) @@ ("utf" :> "")
Get(kind, s) ==
    IF s.rest /= <<>> /\ Head(s.rest)[1] = kind
    THEN [s EXCEPT !.rest = Tail(@), !.value = Head(s.rest)[2]]
    ELSE Return(Lose(s), Zero[kind])
NewHandle(s) == [s EXCEPT !.handle = @ + 1]
MutantStoreObject(s, handle, object) ==
    [s EXCEPT !.objects = (s.handle :> object) @@ @, !.value = object]
StoreObject(s, handle, object) ==
    [s EXCEPT !.objects = (handle :> object) @@ @, !.value = object]

(* First the one, then the other with what the first returned.             *)
Then(s, Read(_)) == Read(s)
(* As often as the value says, one after the other; the values of all.     *)
Repeat(Read(_), s) ==
    Then(FoldLeft(LAMBDA acc, i : Then(Read(acc.s),
                      LAMBDA r : [s |-> r, got |-> Append(acc.got, r.value)]),
                  [s |-> s, got |-> <<>>], [i \in 1 .. s.value |-> i]),
         LAMBDA all : Return(all.s, all.got))

(* The first two bytes of a handle are passed over.                        *)
ReadPrevObject(s) ==
    Then(Get("short", Get("short", s)), LAMBDA r :
        Return(r, IF r.value \in DOMAIN r.objects THEN r.objects[r.value] ELSE Null))

RECURSIVE ReadObject(_), ReadClassDesc(_)

IsObject(code) == code \in {"[", "L"}
ReadField(s) ==
    Then(Get("byte", s), LAMBDA code :
    Then(Get("utf", code), LAMBDA named :
    Then(IF IsObject(code.value) THEN ReadObject(named) ELSE named, LAMBDA read :
        Return(IF IsObject(code.value) /\ read.value = Null THEN Lose(read) ELSE read,
               [end |-> FALSE, object |-> IsObject(code.value), code |-> code.value,
                name |-> named.value]))))
EndBlockData == [end |-> TRUE, object |-> FALSE, code |-> "", name |-> ""]

(* A class is numbered before its fields, whose types are strings that may *)
(* be new, and before its superclass. The superclass's fields come first.  *)
ReadNewClassDesc(s) ==
    Then(Get("utf", s), LAMBDA name :
    Then(NewHandle(Get("long", name)), LAMBDA numbered :
    Then(Get("byte", numbered), LAMBDA flags :
    Then(Repeat(ReadField, Get("short", flags)), LAMBDA fields :
    Then(ReadClassDesc(Get("byte", fields)), LAMBDA super :
        LET writes == flags.value = "write method"
        IN  StoreObject(super, numbered.handle,
                [type |-> "class", name |-> name.value, writes |-> writes,
                 fields |-> (IF super.value.type = "class" THEN super.value.fields ELSE <<>>)
                            \o fields.value \o (IF writes THEN <<EndBlockData>> ELSE <<>>)]))))))
ReadClassDesc(s) ==
    Then(Get("byte", s), LAMBDA flag :
        CASE flag.value = "class" -> ReadNewClassDesc(flag)
          [] flag.value = "reference" -> ReadPrevObject(flag)
          [] OTHER -> Return(flag, Null))

(* What a field of a Pokemon gets from an object that was read.            *)
PokemonField == {"m_species", "m_level", "m_shiny", "m_nature", "m_ppUp"}
SetStringField(p, field, text) ==
    IF field \in {"m_name", "m_abilityName", "m_itemName"} THEN (field :> text) @@ p ELSE p
SetIntsField(p, field, ints) ==
    IF field \in PokemonField
    THEN (field :> [k \in DOMAIN ints \cap (1 .. PStatCount) |-> ints[k]]) @@ p
    ELSE p
SetMoves(p, entries) ==
    LET named == SelectSeq(entries, LAMBDA e : e /= Null)
    IN  ("m_move" :> [k \in 1 .. PMoveCount |->
            IF k <= Len(named) THEN named[k].data ELSE p["m_move"][k]]) @@ p
SetField(p, field, object) ==
    CASE object.type = "string" -> SetStringField(p, field, object.data)
      [] object.type = "array" /\ ~object.objects -> SetIntsField(p, field, object.elements)
      [] object.type = "array" /\ object.objects -> SetMoves(p, object.elements)
      [] object.type = "object" /\ field = "m_nature" -> (field :> object.nature) @@ p
      [] OTHER -> p

(* A field that the Pokemon does not have is not read unless it is an      *)
(* object. Strings are empty at first, numbers have no value.              *)
Blank ==
    [m \in {"m_name", "m_abilityName", "m_itemName"} |-> ""]
        @@ ("m_move" :> [k \in 1 .. PMoveCount |-> ""])
ReadPart(acc, f) ==
    CASE f.end -> [acc EXCEPT !.s = Get("byte", @)]
      [] f.object ->
            Then(ReadObject(acc.s), LAMBDA read :
                [s |-> read, p |-> SetField(acc.p, f.name, read.value)])
      [] ~f.end /\ ~f.object /\ f.name \in PokemonField ->
            Then(Get(IF f.code = "I" THEN "int" ELSE "byte", acc.s), LAMBDA read :
                [s |-> read, p |-> (f.name :> read.value) @@ acc.p])
      [] OTHER -> acc
ReadPokemon(s, class) ==
    Then(FoldLeft(ReadPart, [s |-> s, p |-> Blank], class.fields), LAMBDA all :
        [all.s EXCEPT !.pokemon = Append(@, all.p)])

ReadRandomObject(s) == Get("byte", Get("byte", Get("long", Get("long", s))))

(* Shoddy Battle 1 numbered the natures in another way.                    *)
Natures ==
    <<1, 2, 3, 4, 5, 7, 8, 9, 10, 11, 13, 14, 15, 16, 17, 19, 20, 21, 22, 23, 24, 0, 12, 18, 6>>

(* An object is numbered after its class and before what it contains. An   *)
(* entry of the list of moves is the string of its name, under its number. *)
ReadContents(s, class, handle) ==
    LET Plainly(r) == StoreObject(r, handle, [type |-> "object", nature |-> Unset])
        Entry(r) == StoreObject(IF class.writes THEN Get("byte", r) ELSE r, handle,
            [type |-> "string", data |-> IF r.value.type = "string" THEN r.value.data ELSE ""])
        Nature(r) == StoreObject(r, handle,
            [type |-> "object", nature |-> Natures[r.value + 1]])
    IN  CASE class.name = "shoddybattle.Pokemon" -> Plainly(ReadPokemon(s, class))
          [] class.name \in {"mechanics.AdvanceMechanics", "mechanics.JewelMechanics"} ->
                Plainly(ReadObject(s))
          [] class.name = "java.util.Random" -> Plainly(ReadRandomObject(s))
          [] class.name = "mechanics.moves.MoveListEntry" ->
                Then(ReadObject(s), LAMBDA r : IF r.value = Null THEN Lose(r) ELSE Entry(r))
          [] class.name = "mechanics.PokemonNature" -> Nature(Get("int", s))
          [] OTHER -> Plainly(s)
ReadNewObject(s) ==
    Then(NewHandle(ReadClassDesc(s)), LAMBDA desc :
        IF desc.value.type /= "class" THEN Lose(desc)
        ELSE ReadContents(desc, desc.value, desc.handle))

ReadArray(s) ==
    Then(NewHandle(ReadClassDesc(s)), LAMBDA desc :
        IF desc.value.type /= "class" THEN Lose(desc)
        ELSE LET objects == desc.value.name /= "[I"
                 Element(r) == IF objects THEN ReadObject(r) ELSE Get("int", r)
             IN  Then(Repeat(Element, Get("int", desc)), LAMBDA all :
                     StoreObject(all, desc.handle,
                         [type |-> "array", objects |-> objects, elements |-> all.value])))
ReadString(s) ==
    Then(NewHandle(s), LAMBDA numbered :
    Then(Get("utf", numbered), LAMBDA text :
        StoreObject(text, numbered.handle, [type |-> "string", data |-> text.value])))
ReadObject(s) ==
    Then(Get("byte", s), LAMBDA flag :
        CASE flag.value = "object" -> ReadNewObject(flag)
          [] flag.value = "array" -> ReadArray(flag)
          [] flag.value = "string" -> ReadString(flag)
          [] flag.value = "class" -> ReadNewClassDesc(flag)
          [] flag.value = "reference" -> ReadPrevObject(flag)
          [] OTHER -> Return(flag, Null))

(* The Pokemon of a file, and whether it is a team file.                   *)
ProcessFile(file) ==
    Then(Get("short", Reader(file)), LAMBDA magic :
    Then(Get("short", magic), LAMBDA version :
        IF magic.value /= Magic \/ version.value /= Version
        THEN [ok |-> FALSE, lost |-> FALSE, pokemon |-> <<>>]
        ELSE Then(ReadObject(ReadObject(version)), LAMBDA done :
                 [ok |-> TRUE, lost |-> done.lost, pokemon |-> done.pokemon])))

GetPokemon(p) ==
    LET Of(field) == IF field \in DOMAIN p THEN p[field] ELSE Unset
    IN  [name |-> p["m_name"], species |-> Of("m_species"), level |-> Of("m_level"),
         shiny |-> Of("m_shiny"), ability |-> p["m_abilityName"], item |-> p["m_itemName"],
         nature |-> Of("m_nature"), moves |-> p["m_move"], ppUp |-> Of("m_ppUp")]

-----------------------------------------------------------------------------
FilesInit == loads = <<>> /\ team = <<>>

(* The Pokemon of a file are added to those that the team has.             *)
LoadTeam(file) ==
    /\ Len(loads) < MaxLoads
    /\ \E read \in {ProcessFile(Contents(file))} :
           /\ loads' = Append(loads, [file |-> file, answer |-> read.ok, lost |-> read.lost])
           /\ team' = team \o [k \in DOMAIN read.pokemon |-> GetPokemon(read.pokemon[k])]

FilesNext == \E file \in Files : LoadTeam(file)

FilesSpec == FilesInit /\ [][FilesNext]_fileVars

-----------------------------------------------------------------------------
AsWritten(p) ==
    [name |-> p.name, species |-> p.species, level |-> p.level, shiny |-> p.shiny,
     ability |-> p.ability, item |-> p.item, nature |-> Natures[p.nature + 1], moves |-> p.moves,
     ppUp |-> p.ppUp]
TeamsOfLoads ==
    FlattenSeq([k \in DOMAIN loads |->
        IF loads[k].file.genuine THEN loads[k].file.team ELSE <<>>])

(* The Pokemon that were read are those that were written, each with its   *)
(* own strings, moves, PP ups and nature, whatever is shared between them  *)
(* and with the file that was loaded before; the reader is never lost; and *)
(* a file that is no team file is refused and adds nothing. A team has its *)
(* moves first and then its empty places: the reader closes gaps between   *)
(* moves and not those between their PP ups.                               *)
ReadsWhatWasWritten ==
    /\ \A k \in DOMAIN loads : ~loads[k].lost /\ loads[k].answer = loads[k].file.genuine
    /\ team = [k \in DOMAIN TeamsOfLoads |-> AsWritten(TeamsOfLoads[k])]
=============================================================================
