---------------------------- MODULE InputStaging ----------------------------
(***************************************************************************)
(* Input resolution (back_end/cwl.py get_files_from_binding,               *)
(* get_secondary_files, back_end/input_file.py) and input staging          *)
(* (back_end/remote_job_files.py stage_job's input loop,                   *)
(* _stage_input_file, _create_input_filename).                             *)
(*                                                                         *)
(* A JSON value is a record with a `kind`: a File object (its location     *)
(* and secondaryFiles list), a Directory object, another dict, a list, or  *)
(* a scalar.  A binding is the sequence of its <<key, value>> entries in   *)
(* iteration order.  Indices are 1-based here where Python's are 0-based.  *)
(***************************************************************************)
EXTENDS Naturals, Sequences

CONSTANTS
    Locs,       \* original (local) file locations
    Sanitize,   \* the sanitized form of each location, collisions allowed
    Bindings    \* the input bindings a job may be posted with

ASSUME SanitizeAssumption == Sanitize \in [Locs -> STRING]

None == 0   \* InputFile.name / .index absent

\* A location: an original one (count 0), or the staged name
\* _create_input_filename(str(count).zfill(2), loc) =
\* zfill(count) + '_' + sanitized.  Digits then '_' make the prefix
\* unambiguous, so the name is determined by, and determines, the pair.
Orig(l) == [count |-> 0, base |-> l]
StagedName(count, l) == [count |-> count, base |-> Sanitize[l]]

FileV(l, secs) == [kind |-> "File", loc |-> Orig(l), sec |-> secs]
ListV(es) == [kind |-> "List", elems |-> es]

InputFile(name, loc, index, secs) ==
    [name |-> name, loc |-> loc, index |-> index, sec |-> secs]

Ok(fs) == [err |-> "none", files |-> fs]
Err(e) == [err |-> e, files |-> <<>>]
Failed(r) == r.err # "none"

(***************************************************************************)
(* The resolver as coded.                                                  *)
(***************************************************************************)

\* get_secondary_files: a File dict becomes an InputFile (its own
\* secondaryFiles first), a Directory dict or a dict of another class
\* raises, and a value that is not a dict is passed over.
RECURSIVE GetSecondaryFiles(_)
GetSecondaryFiles(vs) ==
    IF vs = <<>> THEN Ok(<<>>)
    ELSE LET v == Head(vs) IN
         CASE v.kind = "File" ->
                LET sub == GetSecondaryFiles(v.sec)
                    rest == GetSecondaryFiles(Tail(vs))
                IN IF Failed(sub) THEN sub
                   ELSE IF Failed(rest) THEN rest
                   ELSE Ok(<<InputFile(None, v.loc, None, sub.files)>>
                           \o rest.files)
           [] v.kind = "Directory" -> Err("Directory")
           [] v.kind = "Dict" -> Err("Invalid")
           [] OTHER -> GetSecondaryFiles(Tail(vs))

\* The list branch of get_files_from_binding: at the first File element its
\* secondary files are resolved, then InputFile(name, location, None,
\* secondary_files, i) is called with five arguments; __init__ takes four.
RECURSIVE ListFiles(_)
ListFiles(es) ==
    IF es = <<>> THEN Ok(<<>>)
    ELSE IF Head(es).kind = "File"
         THEN LET sub == GetSecondaryFiles(Head(es).sec) IN
              IF Failed(sub) THEN sub ELSE Err("TypeError")
         ELSE ListFiles(Tail(es))

\* get_files_from_binding over the binding's entries in order.
RECURSIVE GetFilesFromBinding(_)
GetFilesFromBinding(b) ==
    IF b = <<>> THEN Ok(<<>>)
    ELSE LET n == Head(b)[1]
             v == Head(b)[2]
             rest == GetFilesFromBinding(Tail(b))
             this == CASE v.kind = "File" ->
                            LET sub == GetSecondaryFiles(v.sec) IN
                            IF Failed(sub) THEN sub
                            ELSE Ok(<<InputFile(n, v.loc, None, sub.files)>>)
                       [] v.kind = "List" -> ListFiles(v.elems)
                       [] OTHER -> Ok(<<>>)
         IN IF Failed(this) THEN this
            ELSE IF Failed(rest) THEN rest
            ELSE Ok(this.files \o rest.files)

(***************************************************************************)
(* The resolver as the spec states it (section 4.3): any secondaryFiles    *)
(* entry other than a File or Directory object is a validation error, and  *)
(* every File element of a list becomes an InputFile with its index.  It   *)
(* also stands for what stage_job's caller passes as input_files.          *)
(***************************************************************************)
RECURSIVE SpecSecondaryFiles(_)
SpecSecondaryFiles(vs) ==
    IF vs = <<>> THEN Ok(<<>>)
    ELSE LET v == Head(vs)
             sub == SpecSecondaryFiles(v.sec)
             rest == SpecSecondaryFiles(Tail(vs))
         IN CASE v.kind = "File" ->
                   IF Failed(sub) THEN sub
                   ELSE IF Failed(rest) THEN rest
                   ELSE Ok(<<InputFile(None, v.loc, None, sub.files)>>
                           \o rest.files)
              [] v.kind = "Directory" -> Err("Directory")
              [] OTHER -> Err("Invalid")

RECURSIVE SpecListFiles(_, _, _)
SpecListFiles(n, es, i) ==
    IF i > Len(es) THEN Ok(<<>>)
    ELSE LET rest == SpecListFiles(n, es, i + 1)
             sub == SpecSecondaryFiles(es[i].sec)
         IN IF es[i].kind # "File" THEN rest
            ELSE IF Failed(sub) THEN sub
            ELSE IF Failed(rest) THEN rest
            ELSE Ok(<<InputFile(n, es[i].loc, i, sub.files)>> \o rest.files)

RECURSIVE SpecGetFiles(_)
SpecGetFiles(b) ==
    IF b = <<>> THEN Ok(<<>>)
    ELSE LET n == Head(b)[1]
             v == Head(b)[2]
             rest == SpecGetFiles(Tail(b))
             this == CASE v.kind = "File" ->
                            LET sub == SpecSecondaryFiles(v.sec) IN
                            IF Failed(sub) THEN sub
                            ELSE Ok(<<InputFile(n, v.loc, None, sub.files)>>)
                       [] v.kind = "List" -> SpecListFiles(n, v.elems, 1)
                       [] OTHER -> Ok(<<>>)
         IN IF Failed(this) THEN this
            ELSE IF Failed(rest) THEN rest
            ELSE Ok(this.files \o rest.files)

(***************************************************************************)
(* Staging.  Each call returns the next free count, the rewritten input    *)
(* description, and the copies made, in order, as <<target, source>>.      *)
(***************************************************************************)
Staged(count, desc, copies) == [count |-> count, desc |-> desc, copies |-> copies]

RECURSIVE StageInputFile(_, _, _)
RECURSIVE StageSecondaries(_, _, _, _)

\* Mutation: `count += 1` per secondary file instead of taking the count
\* the recursive call returns.
StageSecondariesStepOne(count, fs, desc, i) ==
    IF i > Len(fs) THEN Staged(count, desc, <<>>)
    ELSE LET r == StageInputFile(count, fs[i], desc.sec[i])
             rest == StageSecondaries(count + 1, fs,
                         [desc EXCEPT !.sec[i] = r.desc], i + 1)
         IN Staged(rest.count, rest.desc, r.copies \o rest.copies)

\* Mutation: the copy is made from the sanitized name rather than the
\* original path.
StageInputFileFromSanitized(count, f, desc) ==
    LET target == StagedName(count, f.loc.base)
        r == StageSecondaries(count + 1, f.sec,
                              [desc EXCEPT !.loc = target], 1)
    IN Staged(r.count, r.desc, <<<<target, Sanitize[f.loc.base]>>>> \o r.copies)

\* _stage_input_file: copy the file to work/<staged name>, point the
\* description's location at it, then stage its secondary files depth
\* first with the same running count, rewriting secondaryFiles[i].
StageInputFile(count, f, desc) ==
    LET target == StagedName(count, f.loc.base)
        r == StageSecondaries(count + 1, f.sec,
                              [desc EXCEPT !.loc = target], 1)
    IN Staged(r.count, r.desc, <<<<target, f.loc.base>>>> \o r.copies)
StageSecondaries(count, fs, desc, i) ==
    IF i > Len(fs) THEN Staged(count, desc, <<>>)
    ELSE LET r == StageInputFile(count, fs[i], desc.sec[i])
             rest == StageSecondaries(r.count, fs,
                         [desc EXCEPT !.sec[i] = r.desc], i + 1)
         IN Staged(rest.count, rest.desc, r.copies \o rest.copies)

\* The position of key n among the binding's entries.
KeyPos(inputs, n) == CHOOSE k \in DOMAIN inputs : inputs[k][1] = n

\* stage_job's input loop: count starts at 1; each input file's
\* description is inputs[name][index], or inputs[name] when index is None.
RECURSIVE StageInputs(_, _, _)
StageInputs(count, files, inputs) ==
    IF files = <<>> THEN Staged(count, inputs, <<>>)
    ELSE LET f == Head(files)
             k == KeyPos(inputs, f.name)
             desc == IF f.index # None THEN inputs[k][2].elems[f.index]
                     ELSE inputs[k][2]
             r == StageInputFile(count, f, desc)
             inputs2 == IF f.index # None
                        THEN [inputs EXCEPT ![k][2].elems[f.index] = r.desc]
                        ELSE [inputs EXCEPT ![k][2] = r.desc]
             rest == StageInputs(r.count, Tail(files), inputs2)
         IN Staged(rest.count, rest.desc, r.copies \o rest.copies)

VARIABLES
    binding,     \* job.local_input, parsed
    phase,       \* "posted" | "staged" | "rejected"
    inputJson,   \* the input description written to input.json
    copies       \* the copies made into work/, in order

vars == <<binding, phase, inputJson, copies>>

TypeOK ==
    /\ binding \in Bindings
    /\ phase \in {"posted", "staged", "rejected"}
    /\ copies \in Seq([count : Nat, base : STRING] \X Locs)

Init ==
    /\ binding \in Bindings
    /\ phase = "posted"
    /\ inputJson = binding
    /\ copies = <<>>

\* stage_job's input part, with the input files resolved from the binding;
\* a binding the resolver rejects is never staged.
StageJobInputs ==
    /\ phase = "posted"
    /\ LET files == SpecGetFiles(binding) IN
       IF Failed(files)
       THEN /\ phase' = "rejected"
            /\ UNCHANGED <<inputJson, copies>>
       ELSE LET r == StageInputs(1, files.files, binding) IN
            /\ phase' = "staged"
            /\ inputJson' = r.desc
            /\ copies' = r.copies
    /\ UNCHANGED binding

Next == StageJobInputs

Spec == Init /\ [][Next]_vars

(***************************************************************************)
(* Properties.                                                             *)
(***************************************************************************)

\* <<original, staged>> location of every File object of a binding and of
\* its rewritten copy, secondary files and list elements included.
RECURSIVE LocPairs(_, _)
LocPairs(o, s) ==
    CASE o.kind = "File" ->
           {<<o.loc, s.loc>>} \cup
           UNION {LocPairs(o.sec[i], s.sec[i]) : i \in DOMAIN o.sec}
      [] o.kind = "List" ->
           UNION {LocPairs(o.elems[i], s.elems[i]) : i \in DOMAIN o.elems}
      [] OTHER -> {}

\* What work/<target> holds after the copies: the last copy made to it.
RemoteSource(cs, target) ==
    LET last == CHOOSE i \in DOMAIN cs :
                    cs[i][1] = target /\ \A k \in i + 1..Len(cs) : cs[k][1] # target
    IN cs[last][2]

\* After staging, every File object of input.json, however deeply nested in
\* secondaryFiles or lists, names a staged file of work/ that holds a copy
\* of the file it named before: no two inputs share a remote name, even
\* when their sanitized names collide.
StagedInputsFaithful ==
    phase = "staged" =>
        \A k \in DOMAIN binding :
            \A p \in LocPairs(binding[k][2], inputJson[k][2]) :
                /\ p[2].count > 0
                /\ \E i \in DOMAIN copies : copies[i][1] = p[2]
                /\ RemoteSource(copies, p[2]) = p[1].base

\* The resolver as coded agrees with section 4.3 on bindings whose
\* secondaryFiles entries are all objects: array entries included.
RECURSIVE NonDictSecondary(_)
NonDictSecondary(v) ==
    CASE v.kind = "File" ->
           \E i \in DOMAIN v.sec :
               v.sec[i].kind \in {"List", "Scalar"} \/ NonDictSecondary(v.sec[i])
      [] v.kind = "List" -> \E i \in DOMAIN v.elems : NonDictSecondary(v.elems[i])
      [] OTHER -> FALSE

HasList(b) == \E k \in DOMAIN b : b[k][2].kind = "List"

\* get_files_from_binding turns every File element of an array-valued
\* entry into an InputFile with its index (spec 4.3 and the test in 8).
ArrayEntriesResolved ==
    ~(\E k \in DOMAIN binding : NonDictSecondary(binding[k][2])) =>
        GetFilesFromBinding(binding) = SpecGetFiles(binding)

\* get_secondary_files rejects a secondaryFiles entry that is neither a
\* File nor a Directory object (spec 4.3: "any other shape is a validation
\* error").
SecondaryEntriesValidated ==
    ~HasList(binding) => GetFilesFromBinding(binding) = SpecGetFiles(binding)
=============================================================================
