------------------------------- MODULE Parts -------------------------------
(***************************************************************************)
(* Parts of the library that share no state with one another: the GL       *)
(* buffer, the shaders, the layouts, the profiler's display, the walk over *)
(* a directory tree, and functions on text and geometry.  A behaviour uses *)
(* one of them, and all of that part's behaviours are there; the others    *)
(* stay in one initial state.                                              *)
(***************************************************************************)
EXTENDS GLBuffer, GLShader, LayoutManager, ProfilerView, SectionView, FileTree,
        TextOps, GeometryIndex

VARIABLE part    \* the part that is used

Part == {"buffer", "shaders", "layouts", "view", "sections", "files", "text", "geometry"}

vars == <<part, bufferVars, shaderVars, layoutVars, viewVars, sectionVars, treeVars,
          call, indexed>>

Init ==
    /\ part \in Part
    /\ BufferInit /\ ShaderInit /\ LayoutInit /\ ViewInit /\ SectionInit /\ TreeInit
    /\ TextInit /\ GeometryInit
    /\ part # "buffer" => m_size = Min(Sizes) /\ typeSize = Min(TypeSizes)
    /\ part # "layouts" => ~shipped

(* Part p takes a step and the other parts do not.                         *)
Uses(p, step) ==
    /\ part = p /\ UNCHANGED part /\ step
    /\ p # "buffer" => UNCHANGED bufferVars
    /\ p # "shaders" => UNCHANGED shaderVars
    /\ p # "layouts" => UNCHANGED layoutVars
    /\ p # "view" => UNCHANGED viewVars
    /\ p # "sections" => UNCHANGED sectionVars
    /\ p # "files" => UNCHANGED treeVars
    /\ p # "text" => UNCHANGED call
    /\ p # "geometry" => UNCHANGED indexed

Next ==
    \/ Uses("buffer", BufferNext)
    \/ Uses("shaders", ShaderNext)
    \/ Uses("layouts", LayoutNext)
    \/ Uses("view", ViewNext)
    \/ Uses("sections", SectionNext)
    \/ Uses("files", TreeNext)
    \/ Uses("text", TextNext)
    \/ Uses("geometry", GeometryNext)

Spec == Init /\ [][Next]_vars
=============================================================================
