-------------------------- MODULE PasswordGenerator --------------------------
(* The generator of the entry form: its dialog, and generatePassword, which  *)
(* draws one character of each selected category, fills up from all of them  *)
(* and shuffles.  Indices come from random bytes; a byte that would make some *)
(* index likelier is drawn again.  The loops run without a pause, so the     *)
(* dialog waits for them.  A category is its alphabet, a sequence of          *)
(* characters.                                                               *)
EXTENDS Naturals, Sequences, FiniteSets, SequencesExt

CONSTANTS Alphabets,    \* UPPERCASE, LOWERCASE, NUMBERS, SYMBOLS: a sequence of categories
          Lengths,      \* what the user asks for
          ByteValues    \* values of a random byte (256)

ASSUME GeneratorAssumption ==
    /\ IsFiniteSet(DOMAIN Alphabets) /\ DOMAIN Alphabets \subseteq Nat
    /\ \A c \in DOMAIN Alphabets :
          /\ Alphabets[c] \in Seq(ToSet(Alphabets[c])) /\ Len(Alphabets[c]) > 0
          /\ IsInjective(Alphabets[c])
    /\ Lengths \subseteq Nat \ {0} /\ Lengths # {}
    /\ ByteValues \in Nat \ {0}

VARIABLES options,      \* the length and the selected categories
          generator,    \* "closed", "open" or at a loop of generatePassword
          chars,        \* what generatePassword has drawn
          turn,         \* the index its shuffle is at
          preview,      \* the password shown, none when empty
          genError      \* an error is shown

genVars == <<options, generator, chars, turn, preview, genError>>

Category == DOMAIN Alphabets
CharsOf(c) == ToSet(Alphabets[c])

GenInit ==
    /\ options \in [length : Lengths, selected : {Category}]
    /\ generator = "closed"
    /\ chars = <<>> /\ turn = 0
    /\ preview = <<>> /\ genError = FALSE

Characters(o) == UNION {CharsOf(c) : c \in o.selected}

\* categories: the place of a selected category among those selected.
Place(o, c) == Cardinality({d \in o.selected : d <= c})

\* Their alphabets joined: the characters, and the index of each.
Joined(o) == UNION {{c} \X DOMAIN Alphabets[c] : c \in o.selected}
IndexIn(o, p) ==
    Cardinality({q \in Joined(o) : q[1] < p[1] \/ (q[1] = p[1] /\ q[2] < p[2])})

\* randomIndex: the bytes it takes, and the indices below max they give.
AnyByte(max) == 0 .. ByteValues - 1
FairBytes(max) == {v \in 0 .. ByteValues - 1 : v < ByteValues - (ByteValues % max)}
RandomIndex(max) == {v % max : v \in FairBytes(max)}
RandomChar(alphabet) == {alphabet[i + 1] : i \in RandomIndex(Len(alphabet))}
RandomJoined(o) ==
    LET drawn == {p \in Joined(o) : IndexIn(o, p) \in RandomIndex(Cardinality(Joined(o)))}
    IN {Alphabets[p[1]][p[2]] : p \in drawn}

Possible(o) == o.selected # {} /\ o.length >= Cardinality(o.selected)
Idle == generator \in {"closed", "open"}

\* handleRegenerate: one character of each category, or the error.
Generate(o) ==
    /\ options' = o
    /\ IF Possible(o)
       THEN /\ generator' = "filling"
            /\ chars' \in {s \in [1 .. Cardinality(o.selected) -> Characters(o)] :
                               \A c \in o.selected : s[Place(o, c)] \in RandomChar(Alphabets[c])}
            /\ UNCHANGED <<preview, genError>>
       ELSE /\ generator' = "open" /\ chars' = <<>>
            /\ preview' = <<>> /\ genError' = TRUE
    /\ UNCHANGED turn

OpenGenerator == generator = "closed" /\ Generate(options)
Regenerate == generator = "open" /\ Generate(options)

ToggleCategory(c) ==
    /\ generator = "open"
    /\ Generate([options EXCEPT !.selected = IF c \in @ THEN @ \ {c} ELSE @ \union {c}])

ChangeLength(n) ==
    /\ generator = "open" /\ n # options.length
    /\ Generate([options EXCEPT !.length = n])

\* The rest of the password is drawn from all categories.
DrawChar ==
    /\ generator = "filling" /\ Len(chars) < options.length
    /\ \E c \in RandomJoined(options) : chars' = Append(chars, c)
    /\ UNCHANGED <<options, generator, turn, preview, genError>>

StartShuffle ==
    /\ generator = "filling" /\ Len(chars) >= options.length
    /\ generator' = "shuffling" /\ turn' = Len(chars)
    /\ UNCHANGED <<options, chars, preview, genError>>

Swapped(s, i, j) == [s EXCEPT ![i] = s[j], ![j] = s[i]]

\* A turn of the loop over i = turn - 1.
Shuffle ==
    /\ generator = "shuffling" /\ turn > 1
    /\ \E j \in RandomIndex(turn) : chars' = Swapped(chars, turn, j + 1)
    /\ turn' = turn - 1
    /\ UNCHANGED <<options, generator, preview, genError>>

ShowPassword ==
    /\ generator = "shuffling" /\ turn <= 1
    /\ generator' = "open" /\ preview' = chars /\ genError' = FALSE
    /\ chars' = <<>> /\ turn' = 0
    /\ UNCHANGED options

\* The form's password becomes the preview.
UsePassword ==
    /\ generator = "open" /\ preview # <<>>
    /\ generator' = "closed"
    /\ UNCHANGED <<options, chars, turn, preview, genError>>

CloseGenerator ==
    /\ generator = "open" /\ generator' = "closed"
    /\ UNCHANGED <<options, chars, turn, preview, genError>>

GenStep == DrawChar \/ StartShuffle \/ Shuffle \/ ShowPassword

GenNext ==
    \/ OpenGenerator \/ Regenerate \/ UsePassword \/ CloseGenerator \/ GenStep
    \/ \E c \in Category : ToggleCategory(c)
    \/ \E n \in Lengths : ChangeLength(n)

\* generatePassword runs as soon as it is called.
GenSpec == GenInit /\ [][GenNext]_genVars /\ WF_genVars(GenStep)
-----------------------------------------------------------------------------
Passwords == {<<>>} \union UNION {[1 .. n -> UNION {CharsOf(c) : c \in Category}] : n \in Lengths}

(* Type invariant: generatePassword works for the dialog's present options. *)
GenTypeOK ==
    /\ options \in [length : Lengths, selected : SUBSET Category]
    /\ generator \in {"closed", "open", "filling", "shuffling"}
    /\ Len(chars) <= options.length /\ (Idle => chars = <<>>)
    /\ turn \in 0 .. Len(chars)
    /\ preview \in Passwords /\ genError \in BOOLEAN

(* What the dialog shows was made for the options it shows: a password of    *)
(* that length, with a character of every selected category and none of      *)
(* another, or the error when there is no such password.                      *)
PreviewFitsOptions ==
    generator = "open" =>
        IF Possible(options)
        THEN /\ Len(preview) = options.length /\ ~genError
             /\ \A c \in options.selected : CharsOf(c) \intersect ToSet(preview) # {}
             /\ ToSet(preview) \subseteq Characters(options)
        ELSE preview = <<>> /\ genError

(* randomIndex favours no index: as many of the bytes it takes give each of   *)
(* the indices a password of the present length needs.                        *)
IndicesAreEven ==
    \A max \in 1 .. options.length :
        \A i, j \in 0 .. max - 1 :
            Cardinality({v \in FairBytes(max) : v % max = i})
                = Cardinality({v \in FairBytes(max) : v % max = j})

(* generatePassword returns a password or throws for every length the dialog *)
(* takes.  It does not: with more than 256 characters randomIndex(257) takes  *)
(* no byte, and the loop that draws one does not end.                         *)
GenerationEnds == (generator = "shuffling") ~> Idle

\* The dialog shows a password for the options it shows, and no index of the draw
\* is favoured (passwordGenerator.ts, PasswordGeneratorModal.tsx).
GenCorrect == GenTypeOK /\ PreviewFitsOptions /\ IndicesAreEven
=============================================================================
