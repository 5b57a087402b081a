---- MODULE MCMesh ----
EXTENDS Mesh
====
