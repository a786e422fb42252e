-------------------------- MODULE EditorLifecycleMC --------------------------
\* Editors are numbered in the order of their identities.
EXTENDS EditorLifecycle
OneEditor == {1}
TwoEditors == {1, 2}
==============================================================================
