-------------------------- MODULE MCSchemaMigration --------------------------
(* Releases 1.0, 1.1, 2.0, 3.0 and 4.0 with every manifest that can be made of *)
(* steps between them: gaps, overlaps and steps within a major version too.    *)
EXTENDS SchemaMigration

OneToTwo == Entry(FromRange(1, Wild), 20)
TwoToThree == Entry(FromRange(2, Wild), 30)
OneToThree == Entry(FromRange(1, Wild), 30)
ThreeToFour == Entry(FromRange(3, Wild), 40)
AllWithinOne == Entry(FromRange(1, Wild), 11)
WithinOne == Entry(FromRange(1, 0), 11)
LateOneToTwo == Entry(FromRange(1, 1), 20)

MCManifests ==
    SUBSET {OneToTwo, TwoToThree, OneToThree, ThreeToFour, WithinOne, AllWithinOne, LateOneToTwo}
CompleteManifests == {{OneToTwo, TwoToThree}}
MCReleases == {10, 11, 20, 30, 40}
WholeReleases == {10, 20, 30}
=============================================================================
