------------------------------ MODULE GLShader ------------------------------
(***************************************************************************)
(* The shader objects and programs of src/gl/gl_shader.cpp, and who is     *)
(* able to delete them.  A result is what the functions return to their    *)
(* caller; the driver (external) decides whether a shader compiles or      *)
(* links.  A deleted shader object lives on while it is attached.          *)
(***************************************************************************)
EXTENDS Naturals

CONSTANTS MaxNames   \* bound: names handed out by glCreateShader/Program

VARIABLES
    nextName,   \* the next name of glCreateShader and glCreateProgram
    shaders,    \* existing shader objects
    programs,   \* existing programs
    flagged,    \* shader objects for which glDeleteShader was called
    attached,   \* pairs of a program and a shader object
    results,    \* results the caller holds and has not deleted
    stranded    \* history: shader objects left behind by a failed call

shaderVars == <<nextName, shaders, programs, flagged, attached, results, stranded>>

ShaderInit ==
    /\ nextName = 1
    /\ shaders = {} /\ programs = {} /\ flagged = {} /\ attached = {}
    /\ results = {} /\ stranded = {}

Valid(kind, id) == [kind |-> kind, state |-> "Valid", id |-> id]
Invalid(id) == [kind |-> "shader", state |-> "Invalid", id |-> id]

(* Shader objects that remain of S.                                        *)
Remaining(S, flags, pairs) == {s \in S : s \notin flags \/ \E p \in pairs : p[2] = s}

(* What can become of a gl_compile_shader that got the name id.  A file    *)
(* that cannot be opened returns early, after glCreateShader.              *)
Outcomes == {"unopened", "rejected", "compiled"}

Compiled(id, outcome) ==
    [live |-> IF outcome = "rejected" THEN {} ELSE {id},
     result |-> IF outcome = "compiled" THEN Valid("shader", id)
                ELSE Invalid(IF outcome = "rejected" THEN 0 ELSE id)]

(* gl_compile_shader of a vertex, geometry or pixel shader.                *)
CompileShader(outcome) ==
    LET c == Compiled(nextName, outcome)
    IN  /\ nextName < MaxNames
        /\ nextName' = nextName + 1
        /\ shaders' = shaders \cup c.live
        /\ results' = results \cup {c.result}
        /\ stranded' = IF outcome = "unopened" THEN stranded \cup {nextName}
                       ELSE stranded
        /\ UNCHANGED <<programs, flagged, attached>>

(* gl_compile_shader of an unknown or unsupported type creates nothing.    *)
CompileUnsupported ==
    /\ results' = results \cup {Invalid(0)}
    /\ UNCHANGED <<nextName, shaders, programs, flagged, attached, stranded>>

(* gl_link_shaders returns the first shader that is not valid, or the      *)
(* program.  A program that does not link is taken apart and deleted.      *)
LinkShaders(parts, ok) ==
    LET ids == {r.id : r \in parts}
    IN  /\ nextName < MaxNames
        /\ parts # {} /\ \A r \in parts : r.kind = "shader"
        /\ IF \E r \in parts : r.state = "Invalid"
           THEN UNCHANGED shaderVars
           ELSE /\ nextName' = nextName + 1
                /\ IF ok
                   THEN /\ programs' = programs \cup {nextName}
                        /\ attached' = attached \cup ({nextName} \X ids)
                        /\ results' = results \cup {Valid("program", nextName)}
                   ELSE /\ results' = results \cup {Invalid(0)}
                        /\ UNCHANGED <<programs, attached>>
                /\ UNCHANGED <<shaders, flagged, stranded>>

(* Mutant: the pixel shader is not deleted.                                *)
DeletedByLoadVertex(v, f) == {v.result.id}

(* gl_load_program deletes both shaders after the link, detached before if *)
(* there is a program and with the program if it did not link.             *)
DeletedByLoad(v, f) == {v.result.id, f.result.id}

(* gl_load_program compiles two files; when one is not valid it returns    *)
(* that result and forgets the other.                                      *)
LoadProgram(vOutcome, fOutcome, ok) ==
    LET v == Compiled(nextName, vOutcome)
        f == Compiled(nextName + 1, fOutcome)
        linked == vOutcome = "compiled" /\ fOutcome = "compiled"
    IN  /\ nextName + 2 < MaxNames
        /\ nextName' = nextName + (IF linked THEN 3 ELSE 2)
        /\ shaders' = (shaders \cup v.live \cup f.live)
                        \ (IF linked THEN DeletedByLoad(v, f) ELSE {})
        /\ stranded' = stranded \cup (IF linked THEN {} ELSE v.live \cup f.live)
        /\ programs' = IF linked /\ ok THEN programs \cup {nextName + 2} ELSE programs
        /\ results' = results \cup
              {IF linked /\ ok THEN Valid("program", nextName + 2)
               ELSE IF linked THEN Invalid(0)
               ELSE IF vOutcome # "compiled" THEN v.result ELSE f.result}
        /\ UNCHANGED <<flagged, attached>>

(* gl_delete_shader: nothing happens to a result that is not valid.        *)
DeleteShader(r) ==
    /\ r.kind = "shader"
    /\ results' = results \ {r}
    /\ flagged' = IF r.state = "Valid" THEN flagged \cup {r.id} ELSE flagged
    /\ shaders' = Remaining(shaders, flagged', attached)
    /\ UNCHANGED <<nextName, programs, attached, stranded>>

(* gl_delete_program; the driver detaches what is attached.                *)
DeleteProgram(r) ==
    /\ r.kind = "program" /\ r.state = "Valid"
    /\ results' = results \ {r}
    /\ programs' = programs \ {r.id}
    /\ attached' = {p \in attached : p[1] # r.id}
    /\ shaders' = Remaining(shaders, flagged, attached')
    /\ UNCHANGED <<nextName, flagged, stranded>>

ShaderNext ==
    \/ \E o \in Outcomes : CompileShader(o)
    \/ CompileUnsupported
    \/ \E v, p, g \in results, ok \in BOOLEAN : LinkShaders({v, p, g}, ok)
    \/ \E v, f \in Outcomes, ok \in BOOLEAN : LoadProgram(v, f, ok)
    \/ \E r \in results : DeleteShader(r) \/ DeleteProgram(r)

ShaderSpec == ShaderInit /\ [][ShaderNext]_shaderVars

-----------------------------------------------------------------------------
(* The objects that exist are those that the caller can delete: a valid    *)
(* result names a live object of its kind, and once every valid result is  *)
(* deleted, no program and no shader is left, save those that a failed     *)
(* call stranded: the other shader of a gl_load_program that fails, and    *)
(* the shader of a file that does not open.                                *)
ObjectsAccounted ==
    /\ \A r \in results : r.state = "Valid" =>
          r.id \in (IF r.kind = "shader" THEN shaders ELSE programs)
    /\ (\A r \in results : r.state # "Valid") => programs = {} /\ shaders = stranded
=============================================================================
