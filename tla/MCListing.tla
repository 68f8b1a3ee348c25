------------------------------ MODULE MCListing ------------------------------
(* Three entries at the top, two of them directories, one of which is listed *)
(* in two pages: two directories at a time, two entries a page.              *)
EXTENDS Listing

MCDirs == { <<>>, <<"a">>, <<"c">> }
MCOrder == << <<"a">>, <<"b">>, <<"c">>, <<"a", "x">>, <<"a", "y">>, <<"a", "z">>, <<"c", "x">> >>

=============================================================================
